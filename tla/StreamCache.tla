---------------------------- MODULE StreamCache ----------------------------
(***************************************************************************)
(* The stream cache of stream/cache2.c: a FILLER process (or thread) reads *)
(* the stream ahead of the READER, the player process, into a ring buffer  *)
(* in shared memory.  They share plain, unlocked fields: the filler alone  *)
(* stores min_filepos, max_filepos, offset and the cells of buffer, the    *)
(* reader alone stores read_filepos, and both store eof.  One action is    *)
(* one access to that memory: the fields are not volatile, so a later      *)
(* reload may or may not happen, and stores with no call between them may  *)
(* land in any order.                                                      *)
(*                                                                         *)
(* The file is a sequence of bytes and the byte at position p is the       *)
(* number p itself, so a cell that holds a wrong byte is seen to.          *)
(***************************************************************************)
EXTENDS Integers, Sequences

CONSTANTS
    SectorSize,   \* sector_size, in bytes
    NumSectors,   \* size of the ring buffer, in sectors (16 or more)
    FillSectors,  \* fill_limit, in sectors (8)
    ReadChunk,    \* stream->read_chunk, or 4 sectors
    SeekWish,     \* the seek_limit asked for: -cache-seek-min
    PrefillWish,  \* the prefill asked for: -cache-min
    FileSize,     \* length of the file, in bytes
    Pipe,         \* TRUE: a linear stream with seek_forward; FALSE: a file
    PipeBlock,    \* STREAM_BUFFER_SIZE, the block seek_forward reads
    SeekTargets,  \* where the reader may seek to
    BackSeeks,    \* may the reader seek to before read_filepos?
    Resets,       \* may the reader call stream_reset?
    Interrupts    \* may stream_check_interrupt report a key press?

ASSUME SizeAssumption ==
    /\ SectorSize \in Nat \ {0}
    /\ FillSectors \in Nat \ {0}
    /\ NumSectors \in Nat /\ NumSectors >= 2 * FillSectors
    /\ ReadChunk \in Nat \ {0}
    /\ SeekWish \in Nat /\ PrefillWish \in Nat
    /\ FileSize \in Nat
    /\ PipeBlock \in Nat \ {0}
    /\ SeekTargets \subseteq Nat

ASSUME SwitchAssumption ==
    /\ Pipe \in BOOLEAN /\ BackSeeks \in BOOLEAN
    /\ Resets \in BOOLEAN /\ Interrupts \in BOOLEAN

----------------------------------------------------------------------------
(* What cache_init and stream_enable_cache compute once.                   *)

Least(a, b) == IF a < b THEN a ELSE b
Most(a, b)  == IF a < b THEN b ELSE a

BufferSize == NumSectors * SectorSize
FillLimit  == FillSectors * SectorSize
SeekLimit  == Least(SeekWish, BufferSize - FillLimit)

(* Mutants: too much is kept for seeking back, a prefill that cannot fit.  *)
BackSize_ThreeQuarters == (3 * BufferSize) \div 4
Prefill_Unclamped      == Most(PrefillWish, 1)

BackSize == BufferSize \div 2
Prefill  == Most(Least(PrefillWish, BufferSize - FillLimit), 1)

Cells  == 0 .. BufferSize - 1
NoByte == -1                     \* a cell nothing was written to yet

----------------------------------------------------------------------------
VARIABLES
    \* shared memory, cache_vars_t
    buffer, min_filepos, max_filepos, offset, eof, read_filepos,
    \* the filler: where it is, the locals of cache_fill, stores to come
    fpc, f_read, f_pos, f_space, f_len, pending,
    \* the filler's stream_t, and the file descriptor below it
    stream_pos, stream_eof, device,
    \* the reader: where it is, the locals of cache_read
    rpc, newb, cell, len, copied, got,
    \* the reader's stream_t
    pos, s_eof, buf

shared == <<buffer, min_filepos, max_filepos, offset, eof, read_filepos>>
locals == <<f_read, f_pos, f_space, f_len>>
filler == <<fpc, f_read, f_pos, f_space, f_len, pending>>
stream == <<stream_pos, stream_eof, device>>
call   == <<newb, cell, len, copied>>
reader == <<rpc, call, got, pos, s_eof, buf>>
vars   == <<shared, filler, stream, reader>>

Init ==
    /\ buffer = [c \in Cells |-> NoByte]
    /\ min_filepos = 0 /\ max_filepos = 0 /\ offset = 0
    /\ eof = FALSE /\ read_filepos = 0
    /\ fpc = "fill" /\ pending = {}
    /\ f_read = 0 /\ f_pos = 0 /\ f_space = 0 /\ f_len = 0
    /\ stream_pos = 0 /\ stream_eof = FALSE /\ device = 0
    /\ rpc = "prefill" /\ newb = 0 /\ cell = 0 /\ len = 0
    /\ copied = 0 /\ got = <<>>
    /\ pos = 0 /\ s_eof = FALSE /\ buf = <<>>

(* The cell that position p has while the filler's offset is o: what both  *)
(* cache_read and cache_fill compute from filepos - offset.                *)
Slot(p, o) == LET d == p - o IN
              IF d < 0 THEN d + BufferSize
              ELSE IF d >= BufferSize THEN d - BufferSize ELSE d

----------------------------------------------------------------------------
(* The filler: cache_fill, called over and over by cache_mainloop.         *)

(* Mutant: the comparison with min_filepos is the wrong way round.         *)
OutOfReach_Swapped(r) == \/ r > min_filepos
                         \/ (r > max_filepos /\ r >= max_filepos + SeekLimit)

(* Must the cache be dropped to serve a reader at r?                       *)
OutOfReach(r) == \/ r < min_filepos
                 \/ (r > max_filepos /\ r >= max_filepos + SeekLimit)

(* cache_fill takes its only look at read_filepos.                         *)
FillStart ==
    /\ fpc = "fill"
    /\ f_read' = read_filepos
    /\ \/ /\ OutOfReach(read_filepos)
          /\ fpc' = "drop" /\ pending' = {"offset", "min", "max"}
       \/ /\ ~OutOfReach(read_filepos)
          /\ fpc' = "plan" /\ pending' = pending
    /\ UNCHANGED <<shared, f_pos, f_space, f_len, stream, reader>>

(* offset = min_filepos = max_filepos = read: one of the three stores.     *)
DropStore(field) ==
    /\ fpc = "drop" /\ field \in pending
    /\ pending' = pending \ {field}
    /\ offset'      = IF field = "offset" THEN f_read ELSE offset
    /\ min_filepos' = IF field = "min" THEN f_read ELSE min_filepos
    /\ max_filepos' = IF field = "max" THEN f_read ELSE max_filepos
    /\ UNCHANGED <<buffer, eof, read_filepos, fpc, locals, stream, reader>>

(* stream_seek_internal on a regular file: stream_file.c's seek.           *)
SeekFile ==
    /\ ~Pipe
    /\ stream_pos' = f_read /\ device' = f_read /\ stream_eof' = FALSE

(* On a linear stream seek_forward discards whole blocks until it is at or *)
(* past the goal, and fails to go back.  stream_reset, called when the     *)
(* stream was at its end, has zeroed s->pos first.                         *)
SeekPipe ==
    LET from == IF stream_eof THEN 0 ELSE stream_pos
        gap  == f_read - from
    IN  /\ Pipe
        /\ \/ /\ gap <= 0
              /\ stream_pos' = from /\ device' = device /\ stream_eof' = FALSE
           \/ /\ gap > 0
              /\ \E n \in gap .. gap + PipeBlock - 1 :
                    /\ device + n <= FileSize
                    /\ device' = device + n /\ stream_pos' = from + n
              /\ stream_eof' = FALSE
           \/ /\ gap > FileSize - device
              /\ device' = FileSize /\ stream_pos' = from + FileSize - device
              /\ stream_eof' = TRUE

(* The result of stream_seek_internal is not looked at.                    *)
DropSeek ==
    /\ fpc = "drop" /\ pending = {}
    /\ SeekFile \/ SeekPipe
    /\ fpc' = "plan"
    /\ UNCHANGED <<shared, locals, pending, reader>>

(* The room cache_fill has, from its one look at the reader.               *)
Back  == Least(Most(f_read - min_filepos, 0), BackSize)
Ahead == Most(max_filepos - f_read, 0)

(* Mutant: no room is kept for the old bytes.                              *)
Free_ForgetsBack == BufferSize - Ahead

Free == BufferSize - (Ahead + Back)
FillPos == IF max_filepos - offset >= BufferSize
           THEN max_filepos - offset - BufferSize
           ELSE max_filepos - offset

(* How much to read at once: up to the end of the buffer, or a sector      *)
(* through the bounce buffer when less than one is left before that end.   *)
FillSpace ==
    LET tail == BufferSize - FillPos
        room == IF Free <= tail THEN Free
                ELSE IF tail >= SectorSize THEN tail ELSE SectorSize
    IN  Least(room, ReadChunk)

PlanFull ==
    /\ fpc = "plan" /\ Free < FillLimit
    /\ fpc' = "fill" /\ f_read' = 0
    /\ UNCHANGED <<shared, f_pos, f_space, f_len, pending, stream, reader>>

(* Mutant: the bytes about to be read are not counted.                     *)
Back2_ForgetsSpace == BufferSize - Ahead

(* Old bytes that the coming read overwrites leave the window first.       *)
Back2 == BufferSize - (FillSpace + Ahead)

NewMin == Most(min_filepos, f_read - Back2)

PlanRead ==
    /\ fpc = "plan" /\ Free >= FillLimit
    /\ f_pos' = FillPos /\ f_space' = FillSpace /\ f_len' = 0
    /\ min_filepos' = NewMin
    /\ fpc' = "read"
    /\ UNCHANGED <<buffer, max_filepos, offset, eof, read_filepos,
                   f_read, pending, stream, reader>>

(* stream_read_internal puts one more byte into the ring.                  *)
ReadByte ==
    /\ fpc = "read" /\ f_len < f_space /\ device < FileSize
    /\ buffer' = [buffer EXCEPT ![Slot(f_pos + f_len, 0)] = device]
    /\ device' = device + 1 /\ f_len' = f_len + 1
    /\ UNCHANGED <<min_filepos, max_filepos, offset, eof, read_filepos, fpc,
                   f_read, f_pos, f_space, pending, stream_pos, stream_eof,
                   reader>>

Wraps == f_pos + f_len >= BufferSize

NoneRead == f_len = 0

(* It returns: what it got so far (a short read), or 0 at the end of the   *)
(* file.  On a linear stream the retry at the end leaves s->pos zeroed.    *)
ReadDone ==
    /\ fpc = "read"
    /\ f_len > 0 \/ device >= FileSize
    /\ stream_eof' = NoneRead
    /\ stream_pos' = IF NoneRead /\ Pipe /\ ~stream_eof THEN 0
                     ELSE stream_pos + f_len
    /\ fpc' = "publish"
    /\ pending' = {"eof", "max"} \cup
                  (IF Wraps THEN {"offset"} ELSE {})
    /\ UNCHANGED <<shared, locals, device, reader>>

(* eof = !len, max_filepos += len, and offset when the ring wrapped.       *)
Publish(field) ==
    /\ fpc = "publish" /\ field \in pending
    /\ pending' = pending \ {field}
    /\ eof' = IF field = "eof" THEN NoneRead ELSE eof
    /\ max_filepos' = IF field = "max" THEN max_filepos + f_len ELSE max_filepos
    /\ offset' = IF field = "offset" THEN offset + BufferSize ELSE offset
    /\ UNCHANGED <<buffer, min_filepos, read_filepos, fpc, locals, stream, reader>>

FillEnd ==
    /\ fpc = "publish" /\ pending = {}
    /\ fpc' = "fill" /\ f_read' = 0 /\ f_pos' = 0 /\ f_space' = 0 /\ f_len' = 0
    /\ UNCHANGED <<shared, pending, stream, reader>>

FillerNext ==
    \/ FillStart
    \/ \E field \in {"offset", "min", "max"} : DropStore(field)
    \/ DropSeek \/ PlanFull \/ PlanRead \/ ReadByte \/ ReadDone
    \/ \E field \in {"eof", "max", "offset"} : Publish(field)
    \/ FillEnd

----------------------------------------------------------------------------
(* The reader: stream_enable_cache, then cache_stream_fill_buffer and      *)
(* stream_seek in any order.                                               *)

(* The wait for the prefill in stream_enable_cache ends.                   *)
PrefillDone ==
    /\ rpc = "prefill"
    /\ \/ read_filepos >= min_filepos /\ max_filepos - read_filepos >= Prefill
       \/ eof
    /\ rpc' = "ready"
    /\ UNCHANGED <<shared, filler, stream, call, got, pos, s_eof, buf>>

(* cache_uninit: on an interrupted prefill, or when the stream is closed.  *)
Uninit ==
    /\ \/ rpc = "prefill" /\ Interrupts
       \/ rpc = "ready"
    /\ rpc' = "closed" /\ fpc' = "dead"
    /\ UNCHANGED <<shared, locals, pending, stream, call, got, pos, s_eof, buf>>

(* The consumer has used up buf and asks for the next sector.              *)
FillBuffer ==
    /\ rpc = "ready"
    /\ rpc' = "check" /\ got' = <<>>
    /\ UNCHANGED <<shared, filler, stream, call, pos, s_eof, buf>>

(* stream_seek to a position that the sector in buf still covers.          *)
SeekInBuf(t) ==
    /\ rpc = "ready" /\ t < pos /\ t >= pos - Len(buf)
    /\ s_eof' = FALSE
    /\ UNCHANGED <<shared, filler, stream, rpc, call, got, pos, buf>>

(* Mutant: rounds up.                                                      *)
Align_Up(t) == ((t + SectorSize - 1) \div SectorSize) * SectorSize

Align(t) == (t \div SectorSize) * SectorSize

(* cache_stream_seek_long: first move read_filepos ...                     *)
SeekLong(t) ==
    /\ rpc = "ready" /\ ~(t < pos /\ t >= pos - Len(buf))
    /\ BackSeeks \/ Align(t) >= read_filepos
    /\ pos' = Align(t) /\ read_filepos' = Align(t)
    /\ rpc' = "seek"
    /\ UNCHANGED <<buffer, min_filepos, max_filepos, offset, eof, filler,
                   stream, call, got, s_eof, buf>>

(* ... then clear eof and read a sector from there.                        *)
SeekClearEof ==
    /\ rpc = "seek"
    /\ eof' = FALSE
    /\ rpc' = "check" /\ got' = <<>>
    /\ UNCHANGED <<buffer, min_filepos, max_filepos, offset, read_filepos,
                   filler, stream, call, pos, s_eof, buf>>

(* stream_reset in the reader's process knows nothing of the cache.        *)
Reset ==
    /\ Resets /\ rpc = "ready" /\ s_eof
    /\ pos' = 0 /\ s_eof' = FALSE /\ buf' = <<>>
    /\ UNCHANGED <<shared, filler, stream, rpc, call, got>>

(* Mutant: off by one.                                                     *)
NothingNew_OffByOne == read_filepos > max_filepos

(* cache_read: is there anything to read?  First half of the condition.    *)
NothingNew == read_filepos >= max_filepos

CheckMax ==
    /\ rpc = "check"
    /\ rpc' = IF NothingNew THEN "wait" ELSE "check_min"
    /\ newb' = Most(max_filepos - read_filepos, 0)
    /\ UNCHANGED <<shared, filler, stream, cell, len, copied, got, pos, s_eof, buf>>

CheckMin ==
    /\ rpc = "check_min"
    /\ rpc' = IF read_filepos < min_filepos THEN "wait" ELSE "newb"
    /\ newb' = IF read_filepos < min_filepos THEN 0 ELSE newb
    /\ UNCHANGED <<shared, filler, stream, cell, len, copied, got, pos, s_eof, buf>>

(* Waiting: the stream has ended, a key was pressed, or try again.         *)
WaitEof ==
    /\ rpc = "wait" /\ eof
    /\ rpc' = "return"
    /\ UNCHANGED <<shared, filler, stream, call, got, pos, s_eof, buf>>

WaitInterrupt ==
    /\ rpc = "wait" /\ ~eof /\ Interrupts
    /\ eof' = TRUE
    /\ rpc' = "return"
    /\ UNCHANGED <<buffer, min_filepos, max_filepos, offset, read_filepos,
                   filler, stream, call, got, pos, s_eof, buf>>

WaitRetry ==
    /\ rpc = "wait" /\ ~eof
    /\ rpc' = "check"
    /\ UNCHANGED <<shared, filler, stream, call, got, pos, s_eof, buf>>

(* newb = max_filepos - read_filepos: the value loaded for the check, or a *)
(* fresh one.                                                              *)
CountNew ==
    /\ rpc = "newb"
    /\ newb' \in {newb, max_filepos - read_filepos}
    /\ rpc' = "locate"
    /\ UNCHANGED <<shared, filler, stream, cell, len, copied, got, pos, s_eof, buf>>

(* Find the cell and clip to the end of the ring and to what is wanted.  A *)
(* negative count, memcpy's size_t, or a cell outside of the ring is a     *)
(* wild copy: nothing is said of what follows.                             *)
Locate ==
    LET c == Slot(read_filepos, offset)
        n == Least(Least(newb, BufferSize - c), SectorSize - Len(got))
    IN  /\ rpc = "locate"
        /\ cell' = c /\ len' = n
        /\ newb' = 0
        /\ rpc' = IF n < 0 \/ c \notin Cells THEN "fault" ELSE "copy"
        /\ UNCHANGED <<shared, filler, stream, copied, got, pos, s_eof, buf>>

(* memcpy, one byte.                                                       *)
CopyByte ==
    /\ rpc = "copy" /\ copied < len
    /\ got' = Append(got, buffer[cell + copied])
    /\ copied' = copied + 1
    /\ UNCHANGED <<shared, filler, stream, rpc, newb, cell, len, pos, s_eof, buf>>

(* read_filepos += len, once the bytes are copied.                         *)
Advance ==
    /\ rpc = "copy" /\ copied = len
    /\ read_filepos' = read_filepos + len
    /\ newb' = 0 /\ cell' = 0 /\ len' = 0 /\ copied' = 0
    /\ rpc' = IF Len(got) = SectorSize THEN "return" ELSE "check"
    /\ UNCHANGED <<buffer, min_filepos, max_filepos, offset, eof, filler,
                   stream, got, pos, s_eof, buf>>

(* The end of cache_stream_fill_buffer.                                    *)
Return ==
    /\ rpc = "return"
    /\ buf' = got /\ pos' = pos + Len(got) /\ s_eof' = (got = <<>>)
    /\ rpc' = "ready" /\ got' = <<>>
    /\ UNCHANGED <<shared, filler, stream, call>>

(* The steps of a call, which the scheduler lets run on, and the calls.    *)
ReaderStep ==
    \/ PrefillDone \/ SeekClearEof \/ CheckMax \/ CheckMin \/ WaitEof
    \/ WaitRetry \/ CountNew \/ Locate \/ CopyByte \/ Advance \/ Return

NewCall ==
    \/ FillBuffer \/ Uninit \/ WaitInterrupt
    \/ \E t \in SeekTargets : SeekInBuf(t) \/ SeekLong(t)

ReaderCall == NewCall \/ Reset

Next == FillerNext \/ ReaderStep \/ ReaderCall

Spec == Init /\ [][Next]_vars

(* Both processes keep running: neither holds anything the other needs,    *)
(* cache_mainloop's sleeps are finite, and reads of the stream return.     *)
FairSpec == Spec /\ WF_vars(FillerNext) /\ WF_vars(ReaderStep)

----------------------------------------------------------------------------
(* What the cache promises.                                                *)

FillerPlaces == {"fill", "drop", "plan", "read", "publish", "dead"}
ReaderPlaces == {"prefill", "ready", "seek", "check", "check_min", "wait",
                 "newb", "locate", "copy", "return", "fault", "closed"}
Bytes == Nat \cup {NoByte}

(* Type correctness of every variable of the two processes.                *)
CellsOK    == buffer \in [Cells -> Bytes]
SectorsOK  == got \in Seq(Bytes) /\ buf \in Seq(Bytes)
FlagsOK    == eof \in BOOLEAN /\ stream_eof \in BOOLEAN /\ s_eof \in BOOLEAN
PlacesOK   == /\ fpc \in FillerPlaces /\ rpc \in ReaderPlaces
              /\ pending \subseteq {"offset", "min", "max", "eof"}
CountersOK ==
    /\ min_filepos \in Nat /\ max_filepos \in Nat /\ offset \in Nat
    /\ read_filepos \in Nat
    /\ f_read \in Nat /\ f_pos \in Nat /\ f_space \in Nat /\ f_len \in Nat
    /\ stream_pos \in Nat /\ device \in Nat
    /\ newb \in Int /\ cell \in Int /\ len \in Int /\ copied \in Nat
    /\ pos \in Nat

TypeOK == CellsOK /\ SectorsOK /\ FlagsOK /\ PlacesOK /\ CountersOK

(* "buffer contain only a part of the file, from min-max pos" (cache2.c    *)
(* line 76): whatever the reader does, the ring holds the bytes of the     *)
(* file from min_filepos up to max_filepos, each in the cell the reader    *)
(* would look in - while cache_fill is not dropping the whole window.      *)
WindowIntact ==
    fpc \notin {"drop", "dead"} =>
        \A p \in min_filepos .. max_filepos - 1 : buffer[Slot(p, offset)] = p

(* "doesn't require locking" (cache2.c line 20): the bytes that cache_read *)
(* copies, and those left in the stream's buffer, are the file's, however  *)
(* the filler's stores fall between the reader's loads.                    *)
DataRight ==
    /\ \A i \in 1 .. Len(got) : got[i] = pos + i - 1
    /\ rpc \in {"ready", "closed"} =>
          \A i \in 1 .. Len(buf) : buf[i] = pos - Len(buf) + i - 1

(* The reader never copies a negative count or from outside of the ring.   *)
NoWildCopy == rpc # "fault"

(* "we should keep back_size amount of old bytes for backward seek": when  *)
(* the filler lets go of old bytes of the window, the reader is at least   *)
(* back_size past the new start.                                           *)
BackBytesKept ==
    [][min_filepos' > min_filepos /\ fpc # "drop"
          => min_filepos' + BackSize <= read_filepos]_vars

(* The cache in front of a file is the file, for a reader that never seeks *)
(* back: ByteStream's steps, with what a call has not returned yet hidden. *)
InCall == {"seek", "check", "check_min", "wait", "newb", "locate", "copy", "return"}

File == INSTANCE ByteStream WITH buf <- IF rpc \in InCall THEN <<>> ELSE buf
ReadsAsFile == File!ByteSpec

(* A read or a seek comes back: the filler never leaves the reader waiting *)
(* on a full buffer, or for a position it has given up on.                 *)
CallReturns == rpc \in InCall ~> rpc = "ready"

(* -cache-min: playback starts, as the prefill asked for always fits.      *)
PrefillEnds == rpc = "prefill" ~> rpc # "prefill"
============================================================================
