----------------------------- MODULE AudioRing -----------------------------
(***************************************************************************)
(* The ring of the JACK audio output (libao2/ao_jack.c): the player writes *)
(* sound into it, and JACK's thread calls outputaudio for each period of   *)
(* sound it wants.  There is no lock; paused and underrun are volatile     *)
(* flags, one set by the player, the other by the callback and cleared by  *)
(* the player.  ao_sdl.c has the same ring, and no flags.                  *)
(*                                                                         *)
(* The ring itself is libav's AVFifoBuffer: a pointer and a running index  *)
(* for the reader and for the writer, each stored by one of them only -    *)
(* but for av_fifo_reset, which stores all four.  reset sets paused first, *)
(* and does not wait for a callback that looked at it before.              *)
(*                                                                         *)
(* A sample is a frame of all channels, and is known by its number.        *)
(***************************************************************************)
EXTENDS Integers, Sequences

CONSTANTS
    Size,       \* BUFFSIZE
    Burst,      \* CHUNK_SIZE, ao_data.outburst
    Period,     \* nframes: what JACK wants at a time
    IndexMod,   \* the indices count modulo this (2^32)
    Total,      \* how many samples there are to play
    MaxSeeks    \* how often the user seeks (bounds the model)

ASSUME AudioAssumption ==
    /\ Size \in Nat /\ Burst \in 1 .. Size /\ Period \in 1 .. Size
    /\ IndexMod \in Nat /\ IndexMod > 2 * Size
    /\ Total \in Nat /\ MaxSeeks \in Nat

VARIABLES
    \* the ring, and history, no state of the program: did the last reset
    \* overlap a read?
    ring, wptr, wndx, rptr, rndx, overlapped,
    \* the flags
    paused, underrun,
    \* the player: where it is, the samples still to copy and those of the
    \* piece just copied, whether it is paused and closing the driver
    pc, todo, piece, mp_paused, closing,
    \* the callback: where it is, the samples still to read, whether they
    \* are fewer than JACK wants, the reader's pointer and index that were
    \* read, the samples that were
    cb, cb_todo, cb_short, cb_at, cb_data,
    \* the last sample written and the last one heard, the last one written
    \* before a reset, and what the callback found at its begin: mark, and
    \* whether the player was paused and has been since
    written, heard, mark, cb_mark, cb_paused,
    seeks

fifo     == <<ring, wptr, wndx, rptr, rndx, overlapped>>
flags    == <<paused, underrun>>
player   == <<pc, todo, piece, mp_paused, closing, written, mark, seeks>>
callback == <<cb, cb_todo, cb_short, cb_at, cb_data, heard, cb_mark, cb_paused>>
vars     == <<fifo, flags, player, callback>>

Init ==
    /\ ring = [k \in 0 .. Size - 1 |-> 0]
    /\ wptr = 0 /\ wndx = 0 /\ rptr = 0 /\ rndx = 0 /\ overlapped = FALSE
    /\ paused = FALSE /\ underrun = FALSE
    /\ pc = "idle" /\ todo = 0 /\ piece = 0 /\ mp_paused = FALSE /\ closing = FALSE
    /\ cb = "idle" /\ cb_todo = 0 /\ cb_short = FALSE /\ cb_at = <<0, 0>>
    /\ cb_data = <<>>
    /\ written = 0 /\ heard = 0 /\ mark = 0 /\ cb_mark = 0 /\ cb_paused = FALSE
    /\ seeks = 0

Least(a, b) == IF a < b THEN a ELSE b

(* av_fifo_size: the difference of the indices, an int.                    *)
Fill == LET d == (wndx - rndx) % IndexMod
        IN  IF 2 * d < IndexMod THEN d ELSE d - IndexMod

Space == Size - Fill

After(ptr, n) == IF ptr + n >= Size THEN ptr + n - Size ELSE ptr + n

----------------------------------------------------------------------------
(* The player.                                                             *)

(* Mutant: it writes while it is paused.                                   *)
MayWrite_Paused == TRUE

MayWrite == ~mp_paused

(* fill_audio_out_buffers: as much as there is and as there is room for;   *)
(* play rounds that down to whole bursts unless the sound ends with it.    *)
(* There is no call when there is no room.                                 *)
Bursts(n) == n - (n % Burst)

(* Mutant: the last chunk, too.                                            *)
PlaySize_Bursts == Bursts(Least(Total - written, Space))

PlaySize == IF Total - written < Space THEN Total - written ELSE Bursts(Space)

Play ==
    /\ pc = "idle" /\ MayWrite /\ written < Total /\ Space > 0
    /\ todo' = PlaySize
    /\ pc' = "clear"
    /\ UNCHANGED <<fifo, flags, piece, mp_paused, closing, written, mark, seeks, callback>>

ClearUnderrun ==
    /\ pc = "clear"
    /\ underrun' = FALSE
    /\ pc' = "space"
    /\ UNCHANGED <<fifo, paused, todo, piece, mp_paused, closing, written, mark, seeks, callback>>

(* write_buffer.  Indices gone wrong may claim more than Size: then the    *)
(* space is negative, the code's copy undefined, and here the call ends.   *)
WriteBuffer ==
    /\ pc = "space"
    /\ todo' = Least(todo, Space)
    /\ pc' = IF todo' > 0 THEN "copy" ELSE "idle"
    /\ UNCHANGED <<fifo, flags, piece, mp_paused, closing, written, mark, seeks, callback>>

(* av_fifo_generic_write: the samples up to the ring's end ...             *)
Copy ==
    LET n == Least(Size - wptr, todo)
    IN  /\ pc = "copy"
        /\ ring' = [k \in 0 .. Size - 1 |->
                       IF k \in wptr .. wptr + n - 1 THEN written + 1 + k - wptr
                       ELSE ring[k]]
        /\ piece' = n /\ todo' = todo - n
        /\ pc' = "publish"
        /\ UNCHANGED <<wptr, wndx, rptr, rndx, overlapped, flags, mp_paused, closing,
                       written, mark, seeks, callback>>

(* ... and the index, then those at its start.                             *)
Publish ==
    /\ pc = "publish"
    /\ wptr' = After(wptr, piece) /\ wndx' = (wndx + piece) % IndexMod
    /\ written' = written + piece /\ piece' = 0
    /\ pc' = IF todo > 0 THEN "copy" ELSE "idle"
    /\ UNCHANGED <<ring, rptr, rndx, overlapped, flags, todo, mp_paused, closing, mark, seeks,
                   callback>>

(* pause_player and unpause_player, with audio_pause and audio_resume.     *)
Pause ==
    /\ pc = "idle" /\ ~mp_paused
    /\ mp_paused' = TRUE /\ paused' = TRUE
    /\ UNCHANGED <<fifo, underrun, pc, todo, piece, closing, written, mark, seeks, callback>>

Unpause ==
    /\ pc = "idle" /\ mp_paused
    /\ mp_paused' = FALSE /\ paused' = FALSE /\ cb_paused' = FALSE
    /\ UNCHANGED <<fifo, underrun, pc, todo, piece, closing, written, mark, seeks,
                   cb, cb_todo, cb_short, cb_at, cb_data, heard, cb_mark>>

(* reset, for a seek ...                                                   *)
ResetBegin ==
    /\ paused' = TRUE /\ pc' = "reset"
    /\ UNCHANGED <<fifo, underrun, todo, piece, mp_paused, written, mark, callback>>

Seek ==
    /\ pc = "idle" /\ seeks < MaxSeeks
    /\ seeks' = seeks + 1 /\ closing' = closing
    /\ ResetBegin

(* ... or by uninit.                                                       *)
Uninit ==
    /\ pc = "idle"
    /\ closing' = TRUE /\ seeks' = seeks
    /\ ResetBegin

(* Mutant: only the writer's index.                                        *)
EmptyIndex_Kept == rndx

EmptyIndex == 0

(* av_fifo_reset, whatever the callback is at.                             *)
ResetFifo ==
    /\ pc = "reset"
    /\ wptr' = 0 /\ rptr' = 0 /\ wndx' = 0 /\ rndx' = EmptyIndex
    /\ overlapped' = (cb \in {"read", "drain"})
    /\ pc' = "unpause"
    /\ UNCHANGED <<ring, flags, todo, piece, mp_paused, closing, written, mark, seeks, callback>>

(* paused = 0, even if the player is paused.                               *)
ResetEnd ==
    /\ pc = "unpause"
    /\ paused' = FALSE /\ mark' = written
    /\ pc' = IF closing THEN "close" ELSE "idle"
    /\ UNCHANGED <<fifo, underrun, todo, piece, mp_paused, closing, written, seeks, callback>>

(* jack_client_close: there are no more callbacks.                         *)
Close ==
    /\ pc = "close" /\ cb = "idle"
    /\ pc' = "closed"
    /\ UNCHANGED <<fifo, flags, todo, piece, mp_paused, closing, written, mark, seeks, callback>>

PlayerStep ==
    ClearUnderrun \/ WriteBuffer \/ Copy \/ Publish \/ ResetFifo \/ ResetEnd \/ Close

----------------------------------------------------------------------------
(* outputaudio.  When it finds one of the flags it gives silence.          *)

Begin ==
    /\ cb = "idle" /\ pc # "closed" /\ ~paused /\ ~underrun
    /\ cb' = "size" /\ cb_mark' = mark /\ cb_paused' = mp_paused
    /\ UNCHANGED <<fifo, flags, player, cb_todo, cb_short, cb_at, cb_data, heard>>

(* Mutant: what is missing is read as well.                                *)
Wanted_All(short) == Period

Wanted(short) == IF short THEN Fill ELSE Period

(* read_buffer; a negative size is a large one where it is compared.       *)
ReadBuffer ==
    /\ cb = "size"
    /\ cb_short' = (Fill \in 0 .. Period - 1)
    /\ cb_todo' = Wanted(cb_short')
    /\ cb' = IF cb_todo' > 0 THEN "read" ELSE "end"
    /\ UNCHANGED <<fifo, flags, player, cb_at, cb_data, heard, cb_mark, cb_paused>>

(* av_fifo_generic_read: the samples up to the ring's end ...              *)
Read ==
    LET n == Least(Size - rptr, cb_todo)
    IN  /\ cb = "read"
        /\ cb_data' = [i \in 1 .. n |-> ring[rptr + i - 1]]
        /\ cb_at' = <<rptr, rndx>>
        /\ cb_todo' = cb_todo - n
        /\ cb' = "drain"
        /\ UNCHANGED <<fifo, flags, player, cb_short, heard, cb_mark, cb_paused>>

(* ... and av_fifo_drain, then those at its start.  Pointer and index are  *)
(* loaded before or after another store to them.                           *)
Drain ==
    /\ cb = "drain"
    /\ \E at \in {cb_at, <<rptr, rndx>>} :
          /\ rptr' = After(at[1], Len(cb_data))
          /\ rndx' = (at[2] + Len(cb_data)) % IndexMod
    /\ heard' = cb_data[Len(cb_data)]
    /\ cb_data' = <<>> /\ cb_at' = <<0, 0>>
    /\ cb' = IF cb_todo > 0 THEN "read" ELSE "end"
    /\ UNCHANGED <<ring, wptr, wndx, overlapped, flags, player, cb_todo, cb_short, cb_mark, cb_paused>>

End ==
    /\ cb = "end"
    /\ underrun' = (underrun \/ cb_short)
    /\ cb' = "idle" /\ cb_short' = FALSE
    /\ UNCHANGED <<fifo, paused, player, cb_todo, cb_at, cb_data, heard, cb_mark, cb_paused>>

Callback == Begin \/ ReadBuffer \/ Read \/ Drain \/ End

Next == Play \/ Pause \/ Unpause \/ Seek \/ Uninit \/ PlayerStep \/ Callback

Spec == Init /\ [][Next]_vars

(* The play loop fills the buffers in each turn, calls end, and JACK goes  *)
(* on calling.                                                             *)
FairSpec == Spec /\ WF_vars(Play) /\ WF_vars(PlayerStep) /\ WF_vars(Callback)

----------------------------------------------------------------------------
(* The ring is a fifo: with no lock, whatever the player and the callback  *)
(* do at the same time, sound is heard in order and none is lost, unless a *)
(* reset throws it away - until a reset falls into a read, and again from  *)
(* the next reset on that does not.                                        *)
queued == [i \in 1 .. Fill |-> ring[After(rptr, i - 1)]]

Sound == INSTANCE SoundFifo WITH broken <- overlapped

RingIsFifo == Sound!FifoSpec

(* reset is to "stop playing and empty buffers (for seeking/pause)": a     *)
(* callback that begins after it gives no sound from before it.            *)
ResetEmpties == \A i \in DOMAIN cb_data : cb_data[i] > cb_mark

(* It does, unless it fell between the look of a callback at how much      *)
(* there is and the drain of that: at every other place of the callback.   *)
CleanResetEmpties == ~overlapped => ResetEmpties

(* No sound comes out while the player is paused, although reset clears    *)
(* paused on a seek meanwhile: a callback that begins then reads nothing,  *)
(* unless that reset fell into a read.                                     *)
PausedIsSilent == ~overlapped /\ cb_data # <<>> => ~cb_paused

(* A callback that found too little has said so only after play cleared    *)
(* the flag and filled the ring: it gives silence, and there is no room    *)
(* for the call of play that would clear the flag.                         *)
LateUnderrun == underrun /\ Space = 0

(* Sound that has not been written goes on being written, after each       *)
(* underrun, too, and whatever was paused and thrown away before, unless   *)
(* an underrun is late or the indices have gone wrong.                     *)
SoundGoesOn ==
    \A n \in 0 .. Total - 1 :
        written = n ~> \/ written # n \/ mp_paused \/ closing
                       \/ LateUnderrun \/ overlapped
=============================================================================
