-------------------------- MODULE AudioRingProofs --------------------------
(***************************************************************************)
(* Theorems about AudioRing, for every size of ring, chunk, period and     *)
(* index, and whatever the player and the callback do at the same time:    *)
(*   - CleanResetAlwaysEmpties, PausedAlwaysSilent and RingImplementsFifo  *)
(*     hold in every behaviour, but from a reset that falls into a read to *)
(*     the next one that does not.                                         *)
(***************************************************************************)
EXTENDS AudioRing, SequenceTheorems, TLAPS

\* Where the player may be while it is paused: it does not write.
QuietPlace == {"idle", "reset", "unpause", "close", "closed"}

NoWrite == mp_paused => pc \in QuietPlace

\* The player's flag is set from a reset's first store to its last.
ResetFlag == pc \in {"reset", "unpause"} => paused

\* Once a reset that fell into no read has cleared the flag of a paused
\* player the ring is empty, and no callback reads.
EmptyWhilePaused ==
    ~overlapped /\ mp_paused /\ (pc = "unpause" \/ ~paused)
        => Fill = 0 /\ cb \notin {"read", "drain"}

\* A callback that began while the player was paused finds nothing.
FindsNothing ==
    cb_paused /\ cb # "idle"
        => /\ mp_paused
           /\ ~overlapped => Fill = 0 /\ cb \in {"size", "end"}

\* A callback has samples in hand between its read and its drain.
InHand ==
    /\ cb \in {"idle", "size", "read", "drain", "end"}
    /\ cb_data # <<>> => cb = "drain"

PauseInv == NoWrite /\ ResetFlag /\ EmptyWhilePaused /\ FindsNothing /\ InHand

----------------------------------------------------------------------------
LEMMA EmptyFill ==
    ASSUME NEW w, NEW r, w = 0, r = 0
    PROVE  (w - r) % IndexMod = 0
BY AudioAssumption

LEMMA PauseInit == Init => PauseInv
BY DEF Init, PauseInv, NoWrite, QuietPlace, ResetFlag, EmptyWhilePaused,
       FindsNothing, InHand

(* The player's steps that leave the ring's indices alone.                 *)
LEMMA PlayerKeeps ==
    ASSUME PauseInv,
           Play \/ ClearUnderrun \/ WriteBuffer \/ Copy \/ Pause \/ Unpause
               \/ Seek \/ Uninit \/ ResetEnd \/ Close
    PROVE  PauseInv'
<1>1. Fill' = Fill /\ cb' = cb /\ cb_data' = cb_data /\ overlapped' = overlapped
  BY DEF Play, ClearUnderrun, WriteBuffer, Copy, Pause, Unpause, Seek, Uninit,
         ResetBegin, ResetEnd, Close, fifo, callback, Fill
<1> USE DEF PauseInv, NoWrite, QuietPlace, ResetFlag, EmptyWhilePaused,
            FindsNothing, InHand, flags, callback
<1> HIDE DEF Fill
<1>2. CASE Play \/ ClearUnderrun \/ WriteBuffer \/ Copy
  BY <1>1, <1>2 DEF Play, MayWrite, ClearUnderrun, WriteBuffer, Copy
<1>3. CASE Pause \/ Unpause
  BY <1>1, <1>3 DEF Pause, Unpause
<1>4. CASE Seek \/ Uninit
  BY <1>1, <1>4 DEF Seek, Uninit, ResetBegin
<1>5. CASE ResetEnd \/ Close
  BY <1>1, <1>5 DEF ResetEnd, Close
<1>6. QED BY <1>2, <1>3, <1>4, <1>5

LEMMA PublishKeeps ==
    ASSUME PauseInv, Publish
    PROVE  PauseInv'
BY DEF PauseInv, NoWrite, QuietPlace, ResetFlag, EmptyWhilePaused, FindsNothing,
       InHand, Publish, flags, callback

(* av_fifo_reset, whatever the callback is at.                             *)
LEMMA ResetKeeps ==
    ASSUME PauseInv, ResetFifo
    PROVE  PauseInv'
<1>1. Fill' = 0
  BY EmptyFill, AudioAssumption DEF ResetFifo, EmptyIndex, Fill
<1>2. /\ cb' = cb /\ cb_data' = cb_data
      /\ ~overlapped' => cb \notin {"read", "drain"}
  BY DEF ResetFifo, callback
<1> HIDE DEF Fill
<1>3. QED
  BY <1>1, <1>2 DEF PauseInv, NoWrite, QuietPlace, ResetFlag, EmptyWhilePaused,
     FindsNothing, InHand, ResetFifo, flags, callback

(* outputaudio.                                                            *)
LEMMA CallbackKeeps ==
    ASSUME PauseInv, Callback
    PROVE  PauseInv'
<1> USE DEF PauseInv, NoWrite, QuietPlace, ResetFlag, EmptyWhilePaused,
            FindsNothing, InHand, flags, player
<1>1. ASSUME UNCHANGED fifo PROVE Fill' = Fill /\ overlapped' = overlapped
  BY <1>1 DEF fifo, Fill
<1>2. CASE Begin
  <2>1. pc \notin {"reset", "unpause"}
    BY <1>2 DEF Begin
  <2>2. Fill' = Fill /\ overlapped' = overlapped
    BY <1>1, <1>2 DEF Begin
  <2>3. QED BY <1>2, <2>1, <2>2 DEF Begin
<1>3. CASE ReadBuffer
  <2>1. Fill' = Fill /\ overlapped' = overlapped
    BY <1>1, <1>3 DEF ReadBuffer
  <2>2. cb = "size" /\ cb' \in {"read", "end"} /\ cb_data' = cb_data
    BY <1>3 DEF ReadBuffer
  <2>3. ASSUME Fill = 0 PROVE cb' = "end"
    <3> HIDE DEF Fill, PauseInv
    <3>1. Fill \in 0 .. Period - 1
      BY <2>3, AudioAssumption
    <3>2. cb_short' = TRUE
      BY <1>3, <3>1, Zenon DEF ReadBuffer
    <3>3. cb_todo' = 0
      BY <1>3, <2>3, <3>2, Zenon DEF ReadBuffer, Wanted
    <3>4. QED BY <1>3, <3>3 DEF ReadBuffer
  <2>4. QED BY <1>3, <2>1, <2>2, <2>3 DEF ReadBuffer
<1>4. CASE Read
  BY <1>1, <1>4 DEF Read
<1>5. CASE Drain
  BY <1>5 DEF Drain
<1>6. CASE End
  BY <1>1, <1>6 DEF End
<1>7. QED BY <1>2, <1>3, <1>4, <1>5, <1>6 DEF Callback

LEMMA PauseStep ==
    ASSUME PauseInv, [Next]_vars
    PROVE  PauseInv'
<1>1. CASE UNCHANGED vars
  BY <1>1 DEF vars, fifo, flags, player, callback, PauseInv, NoWrite, QuietPlace,
     ResetFlag, EmptyWhilePaused, FindsNothing, InHand, Fill
<1>2. QED
  BY <1>1, PlayerKeeps, PublishKeeps, ResetKeeps, CallbackKeeps DEF Next, PlayerStep

(* No sound comes out while the player is paused, although reset clears    *)
(* JACK's paused flag on a seek meanwhile (ao_jack.c line 321): the ring   *)
(* is empty then, and stays so until the player goes on - in every         *)
(* behaviour, but from a reset that falls into a read to the next one that *)
(* does not.                                                               *)
THEOREM PausedAlwaysSilent == Spec => []PausedIsSilent
<1>1. PauseInv => PausedIsSilent
  BY DEF PauseInv, FindsNothing, InHand, PausedIsSilent
<1>2. QED BY <1>1, PauseInit, PauseStep, PTL DEF Spec

----------------------------------------------------------------------------
(* The ring without a lock.  The two indices, modulo IndexMod, and the two *)
(* pointers say the same: how far the writer is ahead of the reader.  The  *)
(* samples in between are the last ones written; the writer is only at     *)
(* work outside of them, the reader only at their start.                   *)

Places   == 0 .. Size - 1
Indices  == 0 .. IndexMod - 1

\* The number of the last sample that has left the ring.
Gone == written - Fill

\* This holds whatever a reset falls into.
TypeOK ==
    /\ ring \in [Places -> Nat]
    /\ wptr \in Places /\ rptr \in Places
    /\ wndx \in Indices /\ rndx \in Indices
    /\ written \in Nat /\ heard \in Nat /\ mark \in Nat /\ cb_mark \in Nat
    /\ mark <= written /\ cb_mark <= written
    /\ todo \in Int /\ piece \in Nat /\ cb_todo \in Nat
    /\ pc = "copy" => 1 <= todo
    /\ pc = "publish" => 0 <= todo /\ 1 <= piece /\ wptr + piece <= Size
    /\ cb = "read" => 1 <= cb_todo
    /\ cb = "drain" =>
          \E n \in 1 .. Size :
             /\ cb_data \in [1 .. n -> Nat] /\ n <= Size - cb_at[1]
             /\ cb_at[1] \in Places /\ cb_at[2] \in Indices
    /\ cb # "drain" => cb_data = <<>>
    /\ ResetFlag

\* And this until a reset falls into a read, and again from the next one on
\* that does not.
FifoOK ==
    /\ Fill \in 0 .. Size
    /\ wptr = After(rptr, Fill)
    /\ \A i \in 1 .. Fill : ring[After(rptr, i - 1)] = Gone + i

\* What the player has still to copy, and what it has copied, fits.
WriterOK ==
    /\ pc = "copy" => todo <= Space
    /\ pc = "publish" =>
          /\ piece + todo <= Space
          /\ \A i \in 1 .. piece : ring[wptr + i - 1] = written + i

\* What the callback has still to read is there, and what it has read is at
\* the start of the ring.
ReaderOK ==
    /\ cb = "read" => cb_todo <= Fill
    /\ cb = "drain" =>
          \E n \in 1 .. Fill :
             /\ cb_data = [i \in 1 .. n |-> Gone + i]
             /\ n + cb_todo <= Fill /\ rptr + n <= Size
             /\ cb_at = <<rptr, rndx>>

\* What was written before the last reset has left the ring; reset keeps
\* callbacks away until it has emptied the ring.
MarksOK ==
    /\ mark <= Gone
    /\ cb # "idle" => cb_mark <= Gone
    /\ pc = "unpause" => Fill = 0

FifoInv == TypeOK /\ FifoOK /\ WriterOK /\ ReaderOK /\ MarksOK

----------------------------------------------------------------------------
(* Sums and differences of two numbers below m, modulo m.                  *)
LEMMA ModBelow == \A m \in Nat, x \in Int : 0 <= x /\ x < m => x % m = x
OBVIOUS

LEMMA ModUnder ==
    \A m \in Nat, x \in Int : -m <= x /\ x < 0 => x % m = x + m
OBVIOUS

LEMMA ModOver ==
    \A m \in Nat, x \in Int :
        0 < m /\ m <= x /\ x < 2 * m => x % m = x - m
OBVIOUS

\* av_fifo_size of any two indices, and without the modulus: as long as the
\* indices are Size apart at most it is how far they are apart.
Distance(w, r) == LET d == (w - r) % IndexMod
                  IN  IF 2 * d < IndexMod THEN d ELSE d - IndexMod

Ahead(w, r) == IF r <= w THEN w - r ELSE w - r + IndexMod

LEMMA FillIsDistance == Fill = Distance(wndx, rndx)
BY DEF Fill, Distance

LEMMA DistanceIsAhead ==
    ASSUME NEW w \in Indices, NEW r \in Indices
    PROVE  /\ Distance(w, r) \in 0 .. Size <=> Ahead(w, r) <= Size
           /\ Distance(w, r) \in 0 .. Size => Distance(w, r) = Ahead(w, r)
<1> DEFINE d == (w - r) % IndexMod
<1>1. IndexMod \in Nat /\ Size \in Nat /\ IndexMod > 2 * Size
  BY AudioAssumption
<1>2. w \in Int /\ r \in Int /\ w - r \in Int
  BY <1>1 DEF Indices
<1>3. d = Ahead(w, r)
  <2>1. CASE r <= w
    BY <1>1, <1>2, <2>1, ModBelow DEF Indices, Ahead
  <2>2. CASE ~(r <= w)
    BY <1>1, <1>2, <2>2, ModUnder DEF Indices, Ahead
  <2>3. QED BY <2>1, <2>2
<1>4. d \in 0 .. IndexMod - 1
  BY <1>1, <1>2, <1>3 DEF Indices, Ahead
<1>5. Distance(w, r) = IF 2 * d < IndexMod THEN d ELSE d - IndexMod
  BY DEF Distance
<1> HIDE DEF d
<1>6. QED BY <1>1, <1>3, <1>4, <1>5

(* An index that moves on by n.                                            *)
LEMMA IndexMoves ==
    ASSUME NEW x \in Indices, NEW n \in 0 .. Size
    PROVE  /\ (x + n) % IndexMod \in Indices
           /\ (x + n) % IndexMod =
                 IF x + n < IndexMod THEN x + n ELSE x + n - IndexMod
<1>1. IndexMod \in Nat /\ Size \in Nat /\ IndexMod > 2 * Size
  BY AudioAssumption
<1>2. CASE x + n < IndexMod
  BY <1>1, <1>2, ModBelow DEF Indices
<1>3. CASE ~(x + n < IndexMod)
  BY <1>1, <1>3, ModOver DEF Indices
<1>4. QED BY <1>2, <1>3

(* The writer's index moves on: so much more is in the ring ...            *)
LEMMA WriterMoves ==
    ASSUME NEW w \in Indices, NEW r \in Indices, Distance(w, r) \in 0 .. Size,
           NEW n \in Nat, n <= Size - Distance(w, r)
    PROVE  Distance((w + n) % IndexMod, r) = Distance(w, r) + n
<1>1. IndexMod \in Nat /\ Size \in Nat /\ IndexMod > 2 * Size
  BY AudioAssumption
<1>2. n \in 0 .. Size
  BY <1>1
<1> DEFINE v == (w + n) % IndexMod
<1>3. v \in Indices /\ v = IF w + n < IndexMod THEN w + n ELSE w + n - IndexMod
  BY <1>2, IndexMoves
<1> HIDE DEF v
<1>4. Distance(w, r) = Ahead(w, r)
  BY DistanceIsAhead
<1>5. Ahead(v, r) = Distance(w, r) + n
  BY <1>1, <1>2, <1>3, <1>4 DEF Ahead, Indices
<1>6. Distance(v, r) = Ahead(v, r)
  BY <1>1, <1>2, <1>3, <1>5, DistanceIsAhead
<1>7. QED BY <1>5, <1>6 DEF v

(* ... and the reader's, so much less.                                     *)
LEMMA ReaderMoves ==
    ASSUME NEW w \in Indices, NEW r \in Indices, Distance(w, r) \in 0 .. Size,
           NEW n \in Nat, n <= Distance(w, r)
    PROVE  Distance(w, (r + n) % IndexMod) = Distance(w, r) - n
<1>1. IndexMod \in Nat /\ Size \in Nat /\ IndexMod > 2 * Size
  BY AudioAssumption
<1>2. n \in 0 .. Size
  BY <1>1
<1> DEFINE v == (r + n) % IndexMod
<1>3. v \in Indices /\ v = IF r + n < IndexMod THEN r + n ELSE r + n - IndexMod
  BY <1>2, IndexMoves
<1> HIDE DEF v
<1>4. Distance(w, r) = Ahead(w, r)
  BY DistanceIsAhead
<1>5. Ahead(w, v) = Distance(w, r) - n
  BY <1>1, <1>2, <1>3, <1>4 DEF Ahead, Indices
<1>6. Distance(w, v) = Ahead(w, v)
  BY <1>1, <1>2, <1>3, <1>5, DistanceIsAhead
<1>7. QED BY <1>5, <1>6 DEF v

----------------------------------------------------------------------------
LEMMA FifoInit == Init => FifoInv
<1> SUFFICES ASSUME Init PROVE FifoInv
  OBVIOUS
<1>1. Size \in Nat /\ Size > 0 /\ IndexMod \in Nat /\ IndexMod > 0 /\ Period > 0
  BY AudioAssumption
<1>2. Fill = 0
  BY EmptyFill, AudioAssumption DEF Init, Fill
<1>3. Gone = 0
  BY <1>2 DEF Init, Gone
<1> HIDE DEF Fill
<1>4. TypeOK /\ FifoOK
  BY <1>1, <1>2, <1>3 DEF Init, TypeOK, ResetFlag, FifoOK, Places, Indices, After
<1>5. WriterOK /\ ReaderOK
  BY DEF Init, WriterOK, ReaderOK
<1>6. MarksOK
  BY <1>3 DEF Init, MarksOK
<1>7. QED BY <1>4, <1>5, <1>6 DEF FifoInv

(* The pointers stay in the ring and the indices below IndexMod whatever   *)
(* a reset falls into: the player's steps, ...                             *)
LEMMA PlayerTypes ==
    ASSUME TypeOK,
           Play \/ Pause \/ Unpause \/ Seek \/ Uninit \/ PlayerStep
    PROVE  TypeOK'
<1>1. /\ Size \in Nat /\ Size > 0 /\ Burst \in Nat /\ Burst > 0 /\ Total \in Nat
      /\ IndexMod \in Nat /\ IndexMod > 0
  BY AudioAssumption
<1>2. UNCHANGED <<cb, cb_todo, cb_at, cb_data, heard, cb_mark>>
  BY DEF Play, Pause, Unpause, Seek, Uninit, ResetBegin, PlayerStep, ClearUnderrun,
         WriteBuffer, Copy, Publish, ResetFifo, ResetEnd, Close, callback
<1>3. Fill \in Int /\ Space \in Int
  <2>1. wndx \in Int /\ rndx \in Int
    BY <1>1 DEF TypeOK, Indices
  <2>2. (wndx - rndx) % IndexMod \in Int
    BY <1>1, <2>1
  <2>3. QED BY <1>1, <2>2 DEF Fill, Space
<1> HIDE DEF Fill
<1>4. CASE \/ Play \/ Pause \/ Unpause \/ Seek \/ Uninit
           \/ ClearUnderrun \/ WriteBuffer \/ ResetEnd \/ Close
  <2>1. UNCHANGED <<ring, wptr, wndx, rptr, rndx, overlapped, written, piece>>
    BY <1>4 DEF Play, Pause, Unpause, Seek, Uninit, ResetBegin, ClearUnderrun,
       WriteBuffer, ResetEnd, Close, fifo
  <2>2. todo' \in Int /\ (pc' = "copy" => 1 <= todo') /\ pc' # "publish"
    <3>1. CASE Play
      <4>1. Space % Burst \in Int
        BY <1>1, <1>3
      <4>2. todo' \in Int
        BY <1>1, <1>3, <3>1, <4>1 DEF Play, PlaySize, Bursts, TypeOK
      <4>3. QED BY <3>1, <4>2 DEF Play
    <3>2. CASE WriteBuffer
      <4>1. todo' \in Int
        BY <1>3, <3>2 DEF WriteBuffer, Least, TypeOK
      <4>2. pc' = IF todo' > 0 THEN "copy" ELSE "idle"
        BY <3>2 DEF WriteBuffer
      <4>3. QED BY <4>1, <4>2
    <3>3. CASE ~Play /\ ~WriteBuffer
      BY <1>4, <3>3 DEF Pause, Unpause, Seek, Uninit, ResetBegin, ClearUnderrun,
         ResetEnd, Close, TypeOK
    <3>4. QED BY <3>1, <3>2, <3>3
  <2>3. mark' \in Nat /\ mark' <= written
    BY <1>4 DEF Play, Pause, Unpause, Seek, Uninit, ResetBegin, ClearUnderrun,
       WriteBuffer, ResetEnd, Close, TypeOK
  <2>4. ResetFlag'
    BY <1>4 DEF Play, Pause, Unpause, Seek, Uninit, ResetBegin, ClearUnderrun,
       WriteBuffer, ResetEnd, Close, flags, TypeOK, ResetFlag
  <2>5. QED BY <1>2, <2>1, <2>2, <2>3, <2>4 DEF TypeOK
<1>5. CASE Copy
  <2> DEFINE n == Least(Size - wptr, todo)
  <2>1. /\ pc = "copy" /\ pc' = "publish" /\ piece' = n /\ todo' = todo - n
        /\ UNCHANGED <<wptr, wndx, rptr, rndx, overlapped, written, mark>>
    BY <1>5 DEF Copy
  <2>2. ring' = [k \in Places |->
                    IF k \in wptr .. wptr + n - 1 THEN written + 1 + k - wptr
                    ELSE ring[k]]
    BY <1>5 DEF Copy, Places
  <2>3. /\ wptr \in 0 .. Size - 1 /\ written \in Nat /\ todo \in Int /\ 1 <= todo
        /\ ring \in [Places -> Nat]
    BY <2>1 DEF TypeOK, Places
  <2>4. n \in Nat /\ 1 <= n /\ wptr + n <= Size /\ 0 <= todo - n
    BY <1>1, <2>3 DEF Least
  <2> HIDE DEF n
  <2>5. ring' \in [Places -> Nat]
    BY <1>1, <2>2, <2>3 DEF Places
  <2>6. ResetFlag'
    BY <2>1 DEF ResetFlag
  <2>7. QED BY <1>2, <2>1, <2>3, <2>4, <2>5, <2>6 DEF TypeOK
<1>6. CASE Publish
  <2>1. /\ pc = "publish" /\ pc' = IF todo > 0 THEN "copy" ELSE "idle"
        /\ wptr' = After(wptr, piece) /\ wndx' = (wndx + piece) % IndexMod
        /\ written' = written + piece /\ piece' = 0
        /\ UNCHANGED <<ring, rptr, rndx, overlapped, todo, mark>>
    BY <1>6 DEF Publish
  <2>2. /\ wptr \in 0 .. Size - 1 /\ piece \in 1 .. Size - wptr
        /\ wndx \in Indices /\ todo \in Int
        /\ written \in Nat /\ mark \in Nat /\ cb_mark \in Nat
        /\ mark <= written /\ cb_mark <= written
    BY <1>1, <2>1 DEF TypeOK, Places
  <2>3. wptr' \in Places
    BY <1>1, <2>1, <2>2 DEF After, Places
  <2>4. wndx' \in Indices
    BY <1>1, <2>1, <2>2, IndexMoves
  <2>5. written' \in Nat /\ mark <= written' /\ cb_mark <= written'
    BY <1>1, <2>1, <2>2
  <2>6. ResetFlag' /\ pc' # "publish" /\ (pc' = "copy" => 1 <= todo)
    BY <2>1, <2>2 DEF ResetFlag
  <2>7. QED BY <1>2, <2>1, <2>3, <2>4, <2>5, <2>6 DEF TypeOK
<1>7. CASE ResetFifo
  <2>1. /\ pc' = "unpause" /\ pc = "reset" /\ paused' = paused
        /\ wptr' = 0 /\ rptr' = 0 /\ wndx' = 0 /\ rndx' = 0
        /\ UNCHANGED <<ring, todo, piece, written, mark>>
    BY <1>7 DEF ResetFifo, EmptyIndex, flags
  <2>2. ResetFlag'
    BY <2>1 DEF TypeOK, ResetFlag
  <2>3. 0 \in Places /\ 0 \in Indices
    BY <1>1 DEF Places, Indices
  <2>4. QED BY <1>2, <2>1, <2>2, <2>3 DEF TypeOK
<1>8. QED BY <1>4, <1>5, <1>6, <1>7 DEF PlayerStep

(* ... and the callback's.                                                 *)
LEMMA CallbackTypes ==
    ASSUME TypeOK, Callback
    PROVE  TypeOK'
<1>1. /\ Size \in Nat /\ Size > 0 /\ Period \in Nat
      /\ IndexMod \in Nat /\ IndexMod > 0
  BY AudioAssumption
<1>2. UNCHANGED <<ring, wptr, wndx, overlapped, written, mark, todo, piece, pc>>
  BY DEF Callback, Begin, ReadBuffer, Read, Drain, End, fifo, player
<1>3. ResetFlag'
  BY <1>2 DEF Callback, Begin, ReadBuffer, Read, Drain, End, flags, TypeOK, ResetFlag
<1>4. CASE Begin \/ End
  <2>1. /\ UNCHANGED <<rptr, rndx, heard, cb_todo, cb_at, cb_data>>
        /\ cb' \in {"idle", "size"} /\ cb # "drain"
        /\ cb_mark' \in {mark, cb_mark}
    BY <1>4 DEF Begin, End, fifo
  <2>2. QED BY <1>2, <1>3, <2>1 DEF TypeOK
<1>5. CASE ReadBuffer
  <2>1. /\ UNCHANGED <<rptr, rndx, heard, cb_mark, cb_at, cb_data>>
        /\ cb = "size" /\ cb' = IF cb_todo' > 0 THEN "read" ELSE "end"
        /\ cb_short' = (Fill \in 0 .. Period - 1)
        /\ cb_todo' = Wanted(cb_short')
    BY <1>5 DEF ReadBuffer, fifo
  <2> HIDE DEF Fill
  <2>2. cb_todo' \in Nat
    <3>1. CASE Fill \in 0 .. Period - 1
      <4>1. cb_short' = TRUE
        BY <2>1, <3>1, Zenon
      <4>2. cb_todo' = Fill
        BY <2>1, <4>1, Zenon DEF Wanted
      <4>3. QED BY <1>1, <3>1, <4>2
    <3>2. CASE Fill \notin 0 .. Period - 1
      <4>1. ~cb_short'
        BY <2>1, <3>2, Zenon
      <4>2. cb_todo' = Period
        BY <2>1, <4>1, Zenon DEF Wanted
      <4>3. QED BY <1>1, <4>2
    <3>3. QED BY <3>1, <3>2
  <2>3. cb' = "read" => 1 <= cb_todo'
    BY <2>1, <2>2
  <2>4. QED BY <1>2, <1>3, <2>1, <2>2, <2>3 DEF TypeOK
<1>6. CASE Read
  <2> DEFINE n == Least(Size - rptr, cb_todo)
  <2>1. /\ UNCHANGED <<rptr, rndx, heard, cb_mark>>
        /\ cb = "read" /\ cb' = "drain" /\ cb_todo' = cb_todo - n
        /\ cb_data' = [i \in 1 .. n |-> ring[rptr + i - 1]]
        /\ cb_at' = <<rptr, rndx>>
    BY <1>6 DEF Read, fifo
  <2>2. /\ rptr \in 0 .. Size - 1 /\ cb_todo \in Nat /\ 1 <= cb_todo
        /\ ring \in [Places -> Nat]
    BY <2>1 DEF TypeOK, Places
  <2>3. n \in 1 .. Size /\ n <= Size - rptr /\ cb_todo - n \in Nat
    BY <1>1, <2>2 DEF Least
  <2> HIDE DEF n
  <2>4. cb_data' \in [1 .. n -> Nat]
    <3>1. \A i \in 1 .. n : rptr + i - 1 \in Places
      BY <1>1, <2>2, <2>3 DEF Places
    <3>2. QED BY <2>1, <2>2, <3>1
  <2>5. cb_at'[1] = rptr /\ cb_at'[2] = rndx
    BY <2>1
  <2>6. \E m \in 1 .. Size :
           /\ cb_data' \in [1 .. m -> Nat] /\ m <= Size - cb_at'[1]
           /\ cb_at'[1] \in Places /\ cb_at'[2] \in Indices
    BY <2>3, <2>4, <2>5 DEF TypeOK
  <2>7. QED BY <1>2, <1>3, <2>1, <2>3, <2>6 DEF TypeOK
<1>7. CASE Drain
  <2>1. /\ cb = "drain" /\ cb' = IF cb_todo > 0 THEN "read" ELSE "end"
        /\ cb_data' = <<>> /\ heard' = cb_data[Len(cb_data)]
        /\ UNCHANGED <<cb_todo, cb_mark>>
    BY <1>7 DEF Drain
  <2>2. PICK n \in 1 .. Size :
           /\ cb_data \in [1 .. n -> Nat] /\ n <= Size - cb_at[1]
           /\ cb_at[1] \in Places /\ cb_at[2] \in Indices
    BY <2>1 DEF TypeOK
  <2>3. Len(cb_data) = n /\ cb_data[n] \in Nat
    BY <1>1, <2>2
  <2>4. PICK at \in {cb_at, <<rptr, rndx>>} :
           rptr' = After(at[1], n) /\ rndx' = (at[2] + n) % IndexMod
    BY <1>7, <2>3 DEF Drain
  <2>5. at[1] \in 0 .. Size - 1 /\ at[2] \in Indices
    BY <2>2, <2>4 DEF TypeOK, Places
  <2>6. rptr' \in Places
    BY <1>1, <2>4, <2>5 DEF After, Places
  <2>7. rndx' \in Indices
    BY <1>1, <2>4, <2>5, IndexMoves
  <2>8. cb_todo \in Nat /\ (cb' = "read" => 1 <= cb_todo)
    BY <2>1 DEF TypeOK
  <2>9. QED BY <1>2, <1>3, <2>1, <2>3, <2>6, <2>7, <2>8 DEF TypeOK
<1>8. QED BY <1>4, <1>5, <1>6, <1>7 DEF Callback

LEMMA TypeStep == TypeOK /\ [Next]_vars => TypeOK'
<1>1. ASSUME TypeOK, UNCHANGED vars PROVE TypeOK'
  BY <1>1 DEF vars, fifo, flags, player, callback, TypeOK, ResetFlag
<1>2. QED BY <1>1, PlayerTypes, CallbackTypes DEF Next

(* The player's steps that leave the ring alone.                           *)
LEMMA PlayerFifo ==
    ASSUME FifoInv, TypeOK',
           Play \/ ClearUnderrun \/ WriteBuffer \/ Pause \/ Unpause
               \/ Seek \/ Uninit \/ ResetEnd \/ Close
    PROVE  FifoInv'
<1>1. UNCHANGED <<ring, wptr, wndx, rptr, rndx, written, piece, heard, cb_mark>>
  BY DEF Play, ClearUnderrun, WriteBuffer, Pause, Unpause, Seek, Uninit,
         ResetBegin, ResetEnd, Close, fifo, callback
<1>2. UNCHANGED <<cb, cb_todo, cb_short, cb_at, cb_data>>
  BY DEF Play, ClearUnderrun, WriteBuffer, Pause, Unpause, Seek, Uninit,
         ResetBegin, ResetEnd, Close, callback
<1>3. Fill' = Fill /\ Gone' = Gone
  BY <1>1 DEF Fill, Gone
<1> HIDE DEF Fill
<1>4. /\ Size \in Nat /\ Burst \in Nat /\ Burst > 0 /\ Total \in Nat
      /\ TypeOK /\ Fill \in 0 .. Size
  BY AudioAssumption DEF FifoInv, FifoOK
<1>5. Space \in 0 .. Size
  BY <1>4 DEF Space
<1>6. FifoOK' /\ ReaderOK'
  BY <1>1, <1>2, <1>3 DEF FifoInv, FifoOK, ReaderOK, After
<1>7. WriterOK'
  <2>1. CASE WriteBuffer
    <3>1. pc' \in {"copy", "idle"} /\ todo' <= Space
      BY <1>4, <1>5, <2>1 DEF WriteBuffer, Least, TypeOK
    <3>2. Space' = Space
      BY <1>3 DEF Space
    <3>3. QED BY <3>1, <3>2 DEF WriterOK
  <2>2. CASE ~WriteBuffer
    <3>1. pc' \notin {"copy", "publish"}
      BY <2>2 DEF Play, ClearUnderrun, Pause, Unpause, Seek, Uninit,
         ResetBegin, ResetEnd, Close
    <3>2. QED BY <3>1 DEF WriterOK
  <2>3. QED BY <2>1, <2>2
<1>8. MarksOK'
  <2>1. CASE ResetEnd
    <3>1. mark' = written /\ Fill = 0 /\ pc' \in {"close", "idle"}
      BY <2>1 DEF ResetEnd, FifoInv, MarksOK
    <3>2. Gone = written
      BY <1>4, <3>1 DEF Gone, TypeOK
    <3>3. QED
      BY <1>1, <1>2, <1>3, <1>4, <3>1, <3>2 DEF FifoInv, MarksOK, TypeOK
  <2>2. CASE ~ResetEnd
    <3>1. mark' = mark
      BY <2>2 DEF Play, ClearUnderrun, WriteBuffer, Pause, Unpause, Seek, Uninit,
         ResetBegin, Close
    <3>2. pc' # "unpause"
      BY <2>2 DEF Play, ClearUnderrun, WriteBuffer, Pause, Unpause, Seek, Uninit,
         ResetBegin, Close
    <3>3. QED BY <1>1, <1>2, <1>3, <3>1, <3>2 DEF FifoInv, MarksOK
  <2>3. QED BY <2>1, <2>2
<1>9. QED BY <1>6, <1>7, <1>8 DEF FifoInv

(* av_fifo_generic_write copies into the free part of the ring ...         *)
LEMMA CopyFifo ==
    ASSUME FifoInv, TypeOK', Copy
    PROVE  FifoInv'
<1> DEFINE n == Least(Size - wptr, todo)
<1>1. /\ UNCHANGED <<wptr, wndx, rptr, rndx, written, mark, heard, cb_mark>>
      /\ UNCHANGED <<cb, cb_todo, cb_short, cb_at, cb_data, paused, underrun>>
      /\ pc = "copy" /\ pc' = "publish" /\ piece' = n /\ todo' = todo - n
  BY DEF Copy, callback, flags
<1>2. ring' = [k \in 0 .. Size - 1 |->
                  IF k \in wptr .. wptr + n - 1 THEN written + 1 + k - wptr
                  ELSE ring[k]]
  BY DEF Copy
<1>3. Fill' = Fill /\ Gone' = Gone
  BY <1>1 DEF Fill, Gone
<1> HIDE DEF Fill
<1>4. /\ Size \in Nat /\ TypeOK /\ FifoOK
      /\ Fill \in 0 .. Size /\ wptr \in 0 .. Size - 1 /\ rptr \in 0 .. Size - 1
      /\ written \in Nat /\ todo \in Int
  BY AudioAssumption DEF FifoInv, FifoOK, TypeOK, Places
<1>5. todo >= 1 /\ todo <= Space /\ Space = Size - Fill
  BY <1>1 DEF FifoInv, TypeOK, WriterOK, Space
<1>6. n \in 1 .. todo /\ wptr + n <= Size
  BY <1>4, <1>5 DEF Least
<1> HIDE DEF n
<1>7. FifoOK'
  <2>1. ASSUME NEW i \in 1 .. Fill
        PROVE  ring'[After(rptr, i - 1)] = ring[After(rptr, i - 1)]
    <3>1. After(rptr, i - 1) \in 0 .. Size - 1
      BY <1>4 DEF After
    <3>2. After(rptr, i - 1) \notin wptr .. wptr + n - 1
      BY <1>4, <1>5, <1>6 DEF After, FifoOK
    <3>3. QED BY <1>2, <3>1, <3>2
  <2>2. wptr = After(rptr, Fill) /\ After(rptr, Fill)' = After(rptr, Fill)
    BY <1>1, <1>3, <1>4 DEF FifoOK, After
  <2>3. ASSUME NEW i \in 1 .. Fill PROVE After(rptr, i - 1)' = After(rptr, i - 1)
    BY <1>1 DEF After
  <2>4. QED BY <1>1, <1>3, <1>4, <2>1, <2>2, <2>3 DEF FifoOK
<1>8. WriterOK'
  <2>1. \A i \in 1 .. n : ring'[wptr + i - 1] = written + i
    BY <1>2, <1>4, <1>6
  <2>2. Space' = Space
    BY <1>3 DEF Space
  <2>3. n + (todo - n) <= Space
    BY <1>4, <1>5, <1>6
  <2>4. QED BY <1>1, <1>6, <2>1, <2>2, <2>3 DEF WriterOK
<1>9. ReaderOK'
  BY <1>1, <1>3 DEF FifoInv, ReaderOK
<1>10. MarksOK'
  BY <1>1, <1>3 DEF FifoInv, MarksOK
<1>11. QED BY <1>7, <1>8, <1>9, <1>10 DEF FifoInv

(* ... and then publishes it.                                              *)
LEMMA PublishFifo ==
    ASSUME FifoInv, TypeOK', Publish
    PROVE  FifoInv' /\ Fill' = Fill + piece /\ Gone' = Gone
<1>1. /\ UNCHANGED <<ring, rptr, rndx, mark, heard, cb_mark, todo>>
      /\ UNCHANGED <<cb, cb_todo, cb_short, cb_at, cb_data, paused, underrun>>
      /\ pc = "publish" /\ pc' = IF todo > 0 THEN "copy" ELSE "idle"
      /\ wptr' = After(wptr, piece) /\ wndx' = (wndx + piece) % IndexMod
      /\ written' = written + piece /\ piece' = 0
  BY DEF Publish, callback, flags
<1>2. Fill' = Distance(wndx', rndx')
  BY DEF Fill, Distance
<1> HIDE DEF Fill
<1>3. /\ Size \in Nat /\ TypeOK /\ FifoOK
      /\ Fill \in 0 .. Size /\ wptr \in 0 .. Size - 1 /\ rptr \in 0 .. Size - 1
      /\ written \in Nat /\ todo \in Int
  BY AudioAssumption DEF FifoInv, FifoOK, TypeOK, Places
<1>4. /\ 1 <= piece /\ piece + todo <= Space /\ wptr + piece <= Size
      /\ \A i \in 1 .. piece : ring[wptr + i - 1] = written + i
      /\ piece \in Nat /\ Space = Size - Fill /\ 0 <= todo
  BY <1>1, <1>3 DEF FifoInv, WriterOK, Space, TypeOK
<1>5. Fill' = Fill + piece /\ wndx' \in Indices
  <2>1. piece <= Size - Fill /\ piece \in 0 .. Size
    BY <1>3, <1>4
  <2>2. wndx \in Indices /\ rndx \in Indices
    BY <1>3 DEF TypeOK
  <2>3. QED BY <1>1, <1>2, <1>3, <1>4, <2>1, <2>2, FillIsDistance, WriterMoves, IndexMoves
<1>6. Gone' = Gone /\ Gone \in Int
  BY <1>1, <1>3, <1>4, <1>5 DEF Gone
<1>7. FifoOK'
  <2>1. Fill' \in 0 .. Size
    BY <1>3, <1>4, <1>5
  <2>2. wptr' = After(rptr, Fill)'
    BY <1>1, <1>3, <1>4, <1>5 DEF FifoOK, After
  <2>3. ASSUME NEW i \in 1 .. Fill'
        PROVE  ring[After(rptr, i - 1)] = Gone + i
    <3>1. CASE i <= Fill
      BY <1>3, <1>5, <3>1 DEF FifoOK
    <3>2. CASE i > Fill
      <4>1. i - Fill \in 1 .. piece
        BY <1>3, <1>4, <1>5, <3>2
      <4>2. After(rptr, i - 1) = wptr + (i - Fill) - 1
        BY <1>3, <1>4, <4>1 DEF FifoOK, After
      <4>3. ring[wptr + (i - Fill) - 1] = written + (i - Fill)
        BY <1>4, <4>1
      <4>4. QED BY <1>3, <4>2, <4>3 DEF Gone
    <3>3. QED BY <1>3, <1>5, <3>1, <3>2
  <2>4. ASSUME NEW i \in 1 .. Fill' PROVE After(rptr, i - 1)' = After(rptr, i - 1)
    BY <1>1 DEF After
  <2>5. QED BY <1>1, <1>6, <2>1, <2>2, <2>3, <2>4 DEF FifoOK
<1>8. WriterOK'
  <2>1. Space' = Space - piece
    BY <1>3, <1>4, <1>5 DEF Space
  <2>2. pc' # "publish"
    BY <1>1
  <2>3. todo <= Space'
    BY <1>3, <1>4, <2>1
  <2>4. QED BY <1>1, <2>2, <2>3 DEF WriterOK
<1>9. ReaderOK'
  <2>1. cb = "read" => cb_todo <= Fill'
    BY <1>1, <1>3, <1>4, <1>5 DEF FifoInv, ReaderOK, TypeOK
  <2>2. ASSUME NEW n \in 1 .. Fill, n + cb_todo <= Fill
        PROVE  n \in 1 .. Fill' /\ n + cb_todo <= Fill'
    BY <1>3, <1>4, <1>5, <2>2 DEF TypeOK
  <2>3. QED BY <1>1, <1>6, <2>1, <2>2 DEF FifoInv, ReaderOK
<1>10. MarksOK'
  BY <1>1, <1>6 DEF FifoInv, MarksOK
<1>11. QED BY <1>5, <1>6, <1>7, <1>8, <1>9, <1>10 DEF FifoInv

(* av_fifo_reset empties the ring: all that was written is gone.  If it    *)
(* falls into no read all is right from then on, whatever was before.      *)
LEMMA ResetFifoFifo ==
    ASSUME TypeOK, TypeOK', ResetFifo
    PROVE  Fill' = 0 /\ (~overlapped' => FifoInv')
<1>1. /\ UNCHANGED <<written, mark, cb_mark, cb>>
      /\ pc' = "unpause" /\ (~overlapped' => cb \notin {"read", "drain"})
      /\ wptr' = 0 /\ rptr' = 0 /\ wndx' = 0 /\ rndx' = 0
  BY DEF ResetFifo, callback, EmptyIndex
<1>2. Fill' = 0
  BY <1>1, EmptyFill, AudioAssumption DEF Fill
<1> HIDE DEF Fill
<1>3. Size \in Nat /\ Size > 0 /\ written \in Nat
  BY AudioAssumption DEF TypeOK
<1>4. Gone' = written
  BY <1>1, <1>2, <1>3 DEF Gone
<1>5. FifoOK'
  BY <1>1, <1>2, <1>3 DEF FifoOK, After
<1>6. WriterOK' /\ (~overlapped' => ReaderOK')
  BY <1>1 DEF WriterOK, ReaderOK
<1>7. MarksOK'
  BY <1>1, <1>2, <1>4 DEF MarksOK, TypeOK
<1>8. QED BY <1>2, <1>5, <1>6, <1>7 DEF FifoInv

(* The callback before it reads, and after it has.                         *)
LEMMA BeginEndFifo ==
    ASSUME FifoInv, TypeOK', Begin \/ ReadBuffer \/ End
    PROVE  FifoInv'
<1>1. /\ UNCHANGED <<ring, wptr, wndx, rptr, rndx, written, mark, heard, todo, piece>>
      /\ UNCHANGED <<pc, cb_at, cb_data, paused>>
      /\ cb' \in {"idle", "size", "read", "end"} /\ cb # "drain"
  BY DEF Begin, ReadBuffer, End, fifo, flags, player
<1>2. Fill' = Fill /\ Gone' = Gone
  BY <1>1 DEF Fill, Gone
<1> HIDE DEF Fill
<1>3. /\ Size \in Nat /\ Period \in Nat /\ Period > 0
      /\ TypeOK /\ Fill \in 0 .. Size
  BY AudioAssumption DEF FifoInv, FifoOK
<1>4. FifoOK' /\ WriterOK'
  BY <1>1, <1>2 DEF FifoInv, FifoOK, WriterOK, After, Space
<1>5. CASE Begin
  <2>1. cb = "idle" /\ cb' = "size" /\ cb_mark' = mark /\ ~paused
    BY <1>5 DEF Begin
  <2>2. ReaderOK' /\ MarksOK'
    BY <1>1, <1>2, <2>1 DEF FifoInv, ReaderOK, MarksOK
  <2>3. QED BY <1>4, <2>2 DEF FifoInv
<1>6. CASE ReadBuffer
  <2>1. /\ cb = "size" /\ UNCHANGED cb_mark
        /\ cb_short' = (Fill \in 0 .. Period - 1)
        /\ cb_todo' = Wanted(cb_short')
        /\ cb' = IF cb_todo' > 0 THEN "read" ELSE "end"
    BY <1>6 DEF ReadBuffer
  <2>2. cb_todo' \in 0 .. Fill
    <3>1. CASE Fill \in 0 .. Period - 1
      <4>1. cb_short' = TRUE
        BY <2>1, <3>1, Zenon
      <4>2. cb_todo' = Fill
        BY <2>1, <4>1, Zenon DEF Wanted
      <4>3. QED BY <1>3, <4>2
    <3>2. CASE Fill \notin 0 .. Period - 1
      <4>1. ~cb_short'
        BY <2>1, <3>2, Zenon
      <4>2. cb_todo' = Period
        BY <2>1, <4>1, Zenon DEF Wanted
      <4>3. QED BY <1>3, <3>2, <4>2
    <3>3. QED BY <3>1, <3>2
  <2>3. ReaderOK'
    BY <1>1, <1>2, <1>3, <2>1, <2>2 DEF ReaderOK
  <2>4. MarksOK'
    BY <1>1, <1>2, <2>1 DEF FifoInv, MarksOK
  <2>5. QED BY <1>4, <2>3, <2>4 DEF FifoInv
<1>7. CASE End
  <2>1. cb' = "idle" /\ UNCHANGED <<cb_mark, cb_todo>>
    BY <1>7 DEF End
  <2>2. ReaderOK' /\ MarksOK'
    BY <1>1, <1>2, <2>1 DEF FifoInv, ReaderOK, MarksOK
  <2>3. QED BY <1>4, <2>2 DEF FifoInv
<1>8. QED BY <1>5, <1>6, <1>7

(* av_fifo_generic_read takes the oldest samples ...                       *)
LEMMA ReadFifo ==
    ASSUME FifoInv, TypeOK', Read
    PROVE  FifoInv'
<1> DEFINE n == Least(Size - rptr, cb_todo)
<1>1. /\ UNCHANGED <<ring, wptr, wndx, rptr, rndx, written, mark, heard, todo, piece>>
      /\ UNCHANGED <<pc, paused, underrun, cb_short, cb_mark>>
      /\ cb = "read" /\ cb' = "drain"
      /\ cb_data' = [i \in 1 .. n |-> ring[rptr + i - 1]]
      /\ cb_at' = <<rptr, rndx>> /\ cb_todo' = cb_todo - n
  BY DEF Read, fifo, flags, player
<1>2. Fill' = Fill /\ Gone' = Gone
  BY <1>1 DEF Fill, Gone
<1> HIDE DEF Fill
<1>3. /\ Size \in Nat /\ TypeOK /\ FifoOK
      /\ Fill \in 0 .. Size /\ rptr \in 0 .. Size - 1 /\ cb_todo \in Nat
  BY AudioAssumption DEF FifoInv, FifoOK, TypeOK, Places
<1>4. 1 <= cb_todo /\ cb_todo <= Fill
  BY <1>1 DEF FifoInv, TypeOK, ReaderOK
<1>5. n \in 1 .. cb_todo /\ rptr + n <= Size
  BY <1>3, <1>4 DEF Least
<1> HIDE DEF n
<1>6. cb_data' = [i \in 1 .. n |-> Gone + i]
  <2>1. ASSUME NEW i \in 1 .. n PROVE ring[rptr + i - 1] = Gone + i
    <3>1. i \in 1 .. Fill /\ After(rptr, i - 1) = rptr + i - 1
      BY <1>3, <1>4, <1>5 DEF After
    <3>2. QED BY <1>3, <3>1 DEF FifoOK
  <2>2. QED BY <1>1, <2>1
<1>7. FifoOK' /\ WriterOK'
  BY <1>1, <1>2 DEF FifoInv, FifoOK, WriterOK, After, Space
<1>8. ReaderOK'
  <2>1. n \in 1 .. Fill /\ n + (cb_todo - n) <= Fill
    BY <1>3, <1>4, <1>5
  <2>2. QED BY <1>1, <1>2, <1>5, <1>6, <2>1 DEF ReaderOK
<1>9. MarksOK'
  BY <1>1, <1>2 DEF FifoInv, MarksOK
<1>10. QED BY <1>7, <1>8, <1>9 DEF FifoInv

(* ... and av_fifo_drain lets them go.                                     *)
LEMMA DrainFifo ==
    ASSUME FifoInv, TypeOK', Drain
    PROVE  /\ FifoInv'
           /\ \E n \in 1 .. Fill :
                 Fill' = Fill - n /\ Gone' = Gone + n /\ heard' = Gone + n
<1>1. /\ UNCHANGED <<ring, wptr, wndx, written, mark, todo, piece>>
      /\ UNCHANGED <<pc, paused, underrun, cb_short, cb_mark, cb_todo>>
      /\ cb = "drain" /\ cb' = IF cb_todo > 0 THEN "read" ELSE "end"
      /\ cb_data' = <<>> /\ heard' = cb_data[Len(cb_data)]
  BY DEF Drain, flags, player
<1>2. Fill' = Distance(wndx', rndx')
  BY DEF Fill, Distance
<1>3. PICK n \in 1 .. Fill :
         /\ cb_data = [i \in 1 .. n |-> Gone + i]
         /\ n + cb_todo <= Fill /\ rptr + n <= Size
         /\ cb_at = <<rptr, rndx>>
  BY <1>1 DEF FifoInv, ReaderOK
<1> HIDE DEF Fill
<1>4. /\ Size \in Nat /\ TypeOK /\ FifoOK
      /\ Fill \in 0 .. Size /\ rptr \in 0 .. Size - 1 /\ cb_todo \in Nat
      /\ written \in Nat
  BY AudioAssumption DEF FifoInv, FifoOK, TypeOK, Places
<1>5. n \in Nat /\ n >= 1 /\ n <= Fill /\ Gone \in Int
  BY <1>4 DEF Gone
<1>6. Len(cb_data) = n /\ cb_data[n] = Gone + n
  BY <1>3, <1>5
<1>7. rptr' = After(rptr, n) /\ rndx' = (rndx + n) % IndexMod
  BY <1>3, <1>6 DEF Drain
<1>8. Fill' = Fill - n /\ rndx' \in Indices
  <2>1. n \in 0 .. Size
    BY <1>4, <1>5
  <2>2. wndx \in Indices /\ rndx \in Indices
    BY <1>4 DEF TypeOK
  <2>3. QED BY <1>1, <1>2, <1>4, <1>5, <1>7, <2>1, <2>2, FillIsDistance, ReaderMoves, IndexMoves
<1>9. Gone' = Gone + n
  BY <1>1, <1>4, <1>5, <1>8 DEF Gone
<1>10. FifoOK'
  <2>1. wptr' = After(rptr', Fill')
    BY <1>1, <1>4, <1>5, <1>7, <1>8 DEF FifoOK, After
  <2>2. ASSUME NEW i \in 1 .. Fill'
        PROVE  ring'[After(rptr', i - 1)] = Gone' + i
    <3>1. i + n \in 1 .. Fill /\ After(rptr', i - 1) = After(rptr, i + n - 1)
      BY <1>4, <1>5, <1>7, <1>8 DEF After
    <3>2. ring[After(rptr, i + n - 1)] = Gone + (i + n)
      BY <1>4, <3>1 DEF FifoOK
    <3>3. QED BY <1>1, <1>5, <1>9, <3>1, <3>2
  <2>3. After(rptr, Fill)' = After(rptr', Fill') /\
        \A i \in Int : After(rptr, i - 1)' = After(rptr', i - 1)
    BY DEF After
  <2>4. Fill' \in 0 .. Size
    BY <1>4, <1>5, <1>8
  <2>5. QED BY <2>1, <2>2, <2>3, <2>4 DEF FifoOK
<1>11. WriterOK'
  <2>1. Space' = Space + n /\ Space \in Int
    BY <1>4, <1>5, <1>8 DEF Space
  <2>2. todo \in Int /\ piece \in Nat
    BY <1>4 DEF TypeOK
  <2>3. \A x \in Int : x <= Space => x <= Space'
    BY <1>5, <2>1
  <2>4. QED BY <1>1, <2>2, <2>3 DEF FifoInv, WriterOK
<1>12. ReaderOK'
  <2>1. cb_todo <= Fill'
    BY <1>3, <1>4, <1>5, <1>8
  <2>2. QED BY <1>1, <1>4, <2>1 DEF ReaderOK
<1>13. MarksOK'
  <2>1. mark \in Nat /\ cb_mark \in Nat
    BY <1>4 DEF TypeOK
  <2>2. pc # "unpause"
    BY <1>3, <1>4, <1>5 DEF FifoInv, MarksOK
  <2>3. QED BY <1>1, <1>5, <1>6, <1>9, <2>1, <2>2 DEF FifoInv, MarksOK
<1>14. QED
  BY <1>1, <1>3, <1>6, <1>8, <1>9, <1>10, <1>11, <1>12, <1>13 DEF FifoInv

LEMMA OverlapStep ==
    ASSUME [Next]_vars, ~ResetFifo
    PROVE  overlapped' = overlapped
BY DEF Next, PlayerStep, Callback, Play, Pause, Unpause, Seek, Uninit, ResetBegin,
       ClearUnderrun, WriteBuffer, Copy, Publish, ResetEnd, Close, Begin,
       ReadBuffer, Read, Drain, End, vars, fifo

(* Each step but a reset keeps the ring right.                             *)
LEMMA FifoStep ==
    ASSUME FifoInv, TypeOK', [Next]_vars, ~ResetFifo
    PROVE  FifoInv'
<1>1. CASE UNCHANGED vars
  BY <1>1 DEF vars, fifo, flags, player, callback, FifoInv, FifoOK,
     WriterOK, ReaderOK, MarksOK, Gone, Fill, After, Space
<1>2. QED
  BY <1>1, PlayerFifo, CopyFifo, PublishFifo, BeginEndFifo, ReadFifo,
     DrainFifo DEF Next, PlayerStep, Callback

(* The ring is right in every behaviour, but from a reset that falls into  *)
(* a read to the next one that does not.                                   *)
RightUnlessOverlapped == TypeOK /\ (~overlapped => FifoInv)

LEMMA FifoAlways == Spec => []RightUnlessOverlapped
<1>1. Init => RightUnlessOverlapped
  BY FifoInit DEF RightUnlessOverlapped, FifoInv
<1>2. RightUnlessOverlapped /\ [Next]_vars => RightUnlessOverlapped'
  <2> SUFFICES ASSUME RightUnlessOverlapped, [Next]_vars
               PROVE  RightUnlessOverlapped'
    OBVIOUS
  <2>1. TypeOK /\ TypeOK'
    BY TypeStep DEF RightUnlessOverlapped
  <2>2. CASE ResetFifo
    BY <2>1, <2>2, ResetFifoFifo DEF RightUnlessOverlapped
  <2>3. CASE ~ResetFifo
    BY <2>1, <2>3, FifoStep, OverlapStep DEF RightUnlessOverlapped
  <2>4. QED BY <2>2, <2>3
<1>3. QED BY <1>1, <1>2, PTL DEF Spec

(* reset is to "stop playing and empty buffers (for seeking/pause)"        *)
(* (ao_jack.c line 316): in every behaviour no sample from before the last *)
(* reset comes out of a callback that begins after it, unless that reset   *)
(* fell between the look of a callback at the ring and its last drain.     *)
THEOREM CleanResetAlwaysEmpties == Spec => []CleanResetEmpties
<1>1. RightUnlessOverlapped => CleanResetEmpties
  <2> SUFFICES ASSUME FifoInv, NEW i \in DOMAIN cb_data
               PROVE  cb_data[i] > cb_mark
    BY DEF RightUnlessOverlapped, CleanResetEmpties, ResetEmpties
  <2>1. cb = "drain"
    BY DEF FifoInv, TypeOK
  <2>2. PICK n \in 1 .. Fill : cb_data = [k \in 1 .. n |-> Gone + k]
    BY <2>1 DEF FifoInv, ReaderOK
  <2> HIDE DEF Fill
  <2>3. cb_mark <= Gone /\ cb_mark \in Nat /\ Gone \in Int /\ Fill \in Nat
    BY <2>1, AudioAssumption DEF FifoInv, MarksOK, TypeOK, FifoOK, Gone
  <2>4. i \in 1 .. n /\ cb_data[i] = Gone + i
    BY <2>2
  <2>5. QED BY <2>3, <2>4
<1>2. QED BY <1>1, FifoAlways, PTL

----------------------------------------------------------------------------
(* The ring implements SoundFifo: publishing the writer's index is Write,  *)
(* draining is Hear, av_fifo_reset is Reset, and all else is unseen.       *)

LEMMA QueuedSamples ==
    ASSUME FifoInv
    PROVE  /\ queued = [i \in 1 .. Fill |-> Gone + i]
           /\ Fill \in Nat /\ Gone \in Nat /\ written = Gone + Fill
           /\ queued \in Seq(Nat) /\ Len(queued) = Fill
<1> HIDE DEF Fill
<1>1. Fill \in 0 .. Size /\ Size \in Nat /\ written \in Nat /\ mark \in Nat /\ mark <= Gone
  BY AudioAssumption DEF FifoInv, FifoOK, TypeOK, MarksOK
<1>2. Fill \in Nat /\ Gone \in Nat /\ written = Gone + Fill
  BY <1>1 DEF Gone
<1>3. \A i \in 1 .. Fill : ring[After(rptr, i - 1)] = Gone + i
  BY DEF FifoInv, FifoOK
<1>4. queued = [i \in 1 .. Fill |-> Gone + i]
  BY <1>3 DEF queued
<1>5. queued \in Seq(Nat) /\ Len(queued) = Fill
  BY <1>2, <1>4
<1>6. QED BY <1>2, <1>4, <1>5

(* Steps that neither move an index nor empty the ring.                    *)
LEMMA UnseenStep ==
    ASSUME FifoInv, FifoInv',
           UNCHANGED <<wndx, rndx, written, heard>>
    PROVE  UNCHANGED <<queued, written, heard>>
<1>1. Fill' = Fill
  BY DEF Fill
<1>2. Gone' = Gone
  BY <1>1 DEF Gone
<1> HIDE DEF Fill
<1>3. queued = [i \in 1 .. Fill |-> Gone + i]
  BY QueuedSamples
<1>4. queued' = [i \in 1 .. Fill' |-> Gone' + i]
  <2>1. Fill' \in Int /\ \A i \in 1 .. Fill' : ring'[After(rptr, i - 1)'] = Gone' + i
    BY AudioAssumption DEF FifoInv, FifoOK
  <2>2. QED BY <2>1 DEF queued
<1>5. QED BY <1>1, <1>2, <1>3, <1>4

LEMMA PublishWrites ==
    ASSUME FifoInv, TypeOK', Publish, ~overlapped, ~overlapped'
    PROVE  Sound!Write
<1>1. FifoInv' /\ Fill' = Fill + piece /\ Gone' = Gone
  BY PublishFifo
<1> HIDE DEF Fill
<1>2. /\ queued = [i \in 1 .. Fill |-> Gone + i]
      /\ Fill \in Nat /\ Gone \in Nat /\ written = Gone + Fill
      /\ Len(queued) = Fill
  BY QueuedSamples
<1>3. queued' = [i \in 1 .. Fill' |-> Gone' + i]
  <2>1. Fill' \in Int /\ \A i \in 1 .. Fill' : ring'[After(rptr, i - 1)'] = Gone' + i
    BY <1>1, AudioAssumption DEF FifoInv, FifoOK
  <2>2. QED BY <2>1 DEF queued
<1>4. piece \in 1 .. Size - Fill
  <2>1. 1 <= piece /\ piece + todo <= Space /\ piece \in Nat /\ todo \in Nat
    <3>1. piece \in Nat /\ todo \in Nat /\ 1 <= piece
      BY DEF FifoInv, TypeOK, Publish
    <3>2. QED BY <3>1 DEF FifoInv, WriterOK, Publish
  <2>2. QED BY <1>2, <2>1, AudioAssumption DEF Space
<1>5. queued' = queued \o [i \in 1 .. piece |-> written + i]
  <2>1. queued' = [i \in 1 .. Fill + piece |-> Gone + i]
    BY <1>1, <1>3
  <2> DEFINE more == [i \in 1 .. piece |-> written + i]
  <2>2. more \in Seq(Nat) /\ Len(more) = piece /\ queued \in Seq(Nat) /\ piece \in Nat
    BY <1>2, <1>4, QueuedSamples, AudioAssumption
  <2>3. /\ queued \o more \in Seq(Nat)
        /\ Len(queued \o more) = Fill + piece
        /\ \A i \in 1 .. Fill + piece : (queued \o more)[i] =
               IF i <= Fill THEN queued[i] ELSE more[i - Fill]
    BY <1>2, <2>2, ConcatProperties
  <2>4. \A i \in 1 .. Fill + piece : (queued \o more)[i] = Gone + i
    <3> SUFFICES ASSUME NEW i \in 1 .. Fill + piece
                 PROVE  (queued \o more)[i] = Gone + i
      OBVIOUS
    <3>1. CASE i <= Fill
      BY <1>2, <2>2, <2>3, <3>1
    <3>2. CASE i > Fill
      <4>1. i - Fill \in 1 .. piece
        BY <1>2, <2>2, <3>2
      <4>2. more[i - Fill] = written + (i - Fill)
        BY <4>1
      <4>3. QED BY <1>2, <2>2, <2>3, <3>2, <4>2
    <3>3. QED BY <1>2, <2>2, <3>1, <3>2
  <2>5. queued' \in Seq(Nat) /\ Len(queued') = Fill + piece
    BY <1>2, <2>1, <2>2
  <2>6. \A i \in 1 .. Fill + piece : queued'[i] = Gone + i
    BY <2>1
  <2> HIDE DEF more
  <2>7. queued' = queued \o more
    <3>1. Len(queued') = Len(queued \o more)
      BY <2>3, <2>5
    <3>2. \A i \in 1 .. Len(queued') : queued'[i] = (queued \o more)[i]
      BY <2>4, <2>5, <2>6
    <3> HIDE DEF queued
    <3>3. QED BY <2>3, <2>5, <3>1, <3>2, SeqEqual
  <2>8. QED BY <2>7 DEF more
<1>6. written' = written + piece /\ heard' = heard
  BY DEF Publish, callback
<1> HIDE DEF queued
<1>7. QED BY <1>2, <1>4, <1>5, <1>6 DEF Sound!Write

LEMMA DrainHears ==
    ASSUME FifoInv, TypeOK', Drain, ~overlapped, ~overlapped'
    PROVE  Sound!Hear
<1>1. FifoInv'
  BY DrainFifo
<1>2. PICK n \in 1 .. Fill :
         Fill' = Fill - n /\ Gone' = Gone + n /\ heard' = Gone + n
  BY DrainFifo
<1> HIDE DEF Fill
<1>3. /\ queued = [i \in 1 .. Fill |-> Gone + i]
      /\ Fill \in Nat /\ Gone \in Nat /\ queued \in Seq(Nat)
      /\ Len(queued) = Fill
  BY QueuedSamples
<1>4. queued' = [i \in 1 .. Fill' |-> Gone' + i]
  <2>1. Fill' \in Int /\ \A i \in 1 .. Fill' : ring'[After(rptr, i - 1)'] = Gone' + i
    BY <1>1, AudioAssumption DEF FifoInv, FifoOK
  <2>2. QED BY <2>1 DEF queued
<1>5. queued' = SubSeq(queued, n + 1, Len(queued))
  <2>1. n \in Nat /\ n >= 1 /\ n <= Fill
    BY <1>3
  <2>2. queued' = [i \in 1 .. Fill - n |-> Gone + n + i]
    BY <1>2, <1>4
  <2>3. queued' \in Seq(Nat) /\ Len(queued') = Fill - n
    BY <1>3, <2>1, <2>2
  <2>4. /\ SubSeq(queued, n + 1, Fill) \in Seq(Nat)
        /\ Len(SubSeq(queued, n + 1, Fill)) = Fill - n
        /\ \A i \in 1 .. Fill - n : SubSeq(queued, n + 1, Fill)[i] = queued[n + i]
    <3>1. \A i \in n + 1 .. Fill : queued[i] \in Nat
      BY <1>3, <2>1
    <3>2. Fill - (n + 1) + 1 = Fill - n
      BY <1>3, <2>1
    <3>3. \A i \in 1 .. Fill - n : (n + 1) + i - 1 = n + i
      BY <1>3, <2>1
    <3>4. /\ SubSeq(queued, n + 1, Fill) \in Seq(Nat)
          /\ Len(SubSeq(queued, n + 1, Fill)) =
                IF n + 1 <= Fill THEN Fill - (n + 1) + 1 ELSE 0
          /\ \A i \in 1 .. Fill - (n + 1) + 1 :
                SubSeq(queued, n + 1, Fill)[i] = queued[(n + 1) + i - 1]
      <4>1. n + 1 \in Int /\ Fill \in Int
        BY <1>3, <2>1
      <4> HIDE DEF queued
      <4>2. QED BY <3>1, <4>1, SubSeqProperties
    <3>5. QED BY <1>3, <2>1, <3>2, <3>3, <3>4
  <2>5. \A i \in 1 .. Fill - n : queued'[i] = SubSeq(queued, n + 1, Fill)[i]
    BY <1>3, <2>1, <2>2, <2>4
  <2> HIDE DEF queued
  <2>6. QED BY <1>3, <2>3, <2>4, <2>5, SeqEqual
<1>6. queued[n] = Gone + n
  BY <1>3
<1>7. written' = written
  BY DEF Drain, player
<1> HIDE DEF queued
<1>8. QED BY <1>2, <1>3, <1>5, <1>6, <1>7 DEF Sound!Hear

LEMMA ResetResets ==
    ASSUME TypeOK, TypeOK', ResetFifo
    PROVE  Sound!Reset \/ Sound!Break
<1>1. Fill' = 0
  BY ResetFifoFifo
<1> HIDE DEF Fill
<1>2. queued' = <<>>
  BY <1>1 DEF queued
<1>3. UNCHANGED <<written, heard>>
  BY DEF ResetFifo, callback
<1> HIDE DEF queued
<1>4. QED BY <1>2, <1>3 DEF Sound!Reset, Sound!Break

(* A step of a ring that is right.                                         *)
LEMMA SoundStep ==
    ASSUME FifoInv, TypeOK', [Next]_vars, ~ResetFifo, ~overlapped
    PROVE  [Sound!FifoNext]_(Sound!fifoVars)
<1>1. FifoInv' /\ overlapped' = overlapped
  BY FifoStep, OverlapStep
<1>2. CASE Publish
  BY <1>1, <1>2, PublishWrites DEF Sound!FifoNext
<1>3. CASE Drain
  BY <1>1, <1>3, DrainHears DEF Sound!FifoNext
<1>4. CASE \/ Play \/ ClearUnderrun \/ WriteBuffer \/ Copy \/ Pause \/ Unpause
           \/ Seek \/ Uninit \/ ResetEnd \/ Close
           \/ Begin \/ ReadBuffer \/ Read \/ End \/ UNCHANGED vars
  <2>1. UNCHANGED <<wndx, rndx, written, heard>>
    BY <1>4 DEF Play, ClearUnderrun, WriteBuffer, Copy, Pause, Unpause, Seek,
       Uninit, ResetBegin, ResetEnd, Close, Begin, ReadBuffer, Read, End,
       fifo, player, callback, vars
  <2>2. QED BY <1>1, <2>1, UnseenStep DEF Sound!fifoVars
<1>5. QED BY <1>1, <1>2, <1>3, <1>4 DEF Next, PlayerStep, Callback

(* With no lock, whatever the player and JACK's thread do at the same time *)
(* sound is heard in the order it was written in, none twice, and none is  *)
(* lost unless a reset throws it away - in every behaviour, but from a     *)
(* reset that falls into a read to the next one that does not.             *)
THEOREM RingImplementsFifo == Spec => RingIsFifo
<1>1. Init => Sound!FifoInit
  <2> SUFFICES ASSUME Init PROVE Sound!FifoInit
    OBVIOUS
  <2>1. Fill = 0
    BY EmptyFill, AudioAssumption DEF Init, Fill
  <2> HIDE DEF Fill
  <2>2. queued = <<>>
    BY <2>1 DEF queued
  <2>3. QED BY <2>2 DEF Init, Sound!FifoInit
<1>2. RightUnlessOverlapped /\ RightUnlessOverlapped' /\ [Next]_vars
          => [Sound!FifoNext]_(Sound!fifoVars)
  <2> SUFFICES ASSUME RightUnlessOverlapped, RightUnlessOverlapped', [Next]_vars
               PROVE  [Sound!FifoNext]_(Sound!fifoVars)
    OBVIOUS
  <2>1. TypeOK /\ TypeOK'
    BY DEF RightUnlessOverlapped
  <2>2. CASE ResetFifo
    BY <2>1, <2>2, ResetResets DEF Sound!FifoNext
  <2>3. CASE ~ResetFifo /\ ~overlapped
    BY <2>1, <2>3, SoundStep DEF RightUnlessOverlapped
  <2>4. CASE ~ResetFifo /\ overlapped
    BY <2>4, OverlapStep DEF Sound!FifoNext, Sound!Break
  <2>5. QED BY <2>2, <2>3, <2>4
<1>3. QED BY <1>1, <1>2, FifoAlways, PTL DEF Spec, RingIsFifo, Sound!FifoSpec
=============================================================================
