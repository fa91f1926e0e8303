-------------------------- MODULE StreamCacheProofs --------------------------
(***************************************************************************)
(* Theorems about StreamCache, for every size of the ring, of the sectors, *)
(* of a read and of the file:                                              *)
(*   - TypeCorrect: every variable keeps its type, whatever the reader     *)
(*     does;                                                               *)
(*   - WindowAlwaysIntact: in front of a file that seeks, the ring holds   *)
(*     the file from min_filepos to max_filepos, whatever the reader does; *)
(*   - ForwardReaderSafe: a reader that never seeks back gets the file's   *)
(*     bytes and never copies from outside of the ring;                    *)
(*   - ForwardKeepsBack: nothing within back_size behind such a reader is  *)
(*     let go;                                                             *)
(*   - CacheImplementsFile: to such a reader, the cache is the file.       *)
(***************************************************************************)
EXTENDS StreamCache, TLAPS

(* The sizes the proofs use; the products behind them stay out of sight.   *)
LEMMA Sizes ==
    /\ BufferSize \in Nat /\ FillLimit \in Nat /\ SeekLimit \in Nat
    /\ BackSize \in Nat /\ Prefill \in Nat
    /\ SectorSize \in Nat /\ 1 <= SectorSize /\ SectorSize <= FillLimit
    /\ 2 * FillLimit <= BufferSize
<1>1. /\ SectorSize \in Nat /\ 1 <= SectorSize
      /\ FillSectors \in Nat /\ 1 <= FillSectors
      /\ NumSectors \in Nat /\ NumSectors >= 2 * FillSectors
      /\ SeekWish \in Nat /\ PrefillWish \in Nat
  BY SizeAssumption
<1>2. /\ BufferSize \in Nat /\ FillLimit \in Nat
  BY <1>1 DEF BufferSize, FillLimit
<1>3. SectorSize <= FillLimit
  <2>1. \A a, b \in Nat : 1 <= a => b <= a * b
    OBVIOUS
  <2>2. QED BY <1>1, <2>1 DEF FillLimit
<1>4. 2 * FillLimit <= BufferSize
  <2>1. \A a, b, c \in Nat : a >= 2 * b => 2 * (b * c) <= a * c
    OBVIOUS
  <2>2. QED BY <1>1, <2>1 DEF FillLimit, BufferSize
<1>5. /\ SeekLimit \in Nat /\ BackSize \in Nat /\ Prefill \in Nat
  BY <1>1, <1>2, <1>4 DEF SeekLimit, BackSize, Prefill, Least, Most
<1>6. QED BY <1>1, <1>2, <1>3, <1>4, <1>5

(* What cache_fill plans to read always fits.                              *)
LEMMA SpaceFits ==
    ASSUME min_filepos \in Nat, max_filepos \in Nat, offset \in Nat,
           f_read \in Nat,
           offset <= max_filepos, max_filepos - offset < BufferSize,
           Free >= FillLimit
    PROVE  /\ FillPos = max_filepos - offset
           /\ FillSpace \in Nat /\ 1 <= FillSpace
           /\ FillSpace <= Free /\ FillSpace + FillPos < 2 * BufferSize
           /\ Ahead \in Nat /\ Back \in Nat /\ Back2 \in Nat
           /\ max_filepos - f_read <= Ahead
           /\ NewMin \in Nat /\ min_filepos <= NewMin
           /\ max_filepos + FillSpace - BufferSize <= NewMin
           /\ min_filepos < NewMin => NewMin + BackSize <= f_read
<1>1. FillPos = max_filepos - offset
  BY Sizes DEF FillPos
<1>2. Ahead \in Nat /\ Back \in Nat /\ max_filepos - f_read <= Ahead
  BY Sizes DEF Ahead, Back, Most, Least
<1>3. Free \in Int /\ Free = BufferSize - (Ahead + Back)
  BY <1>2, Sizes DEF Free
<1>4. ReadChunk \in Nat /\ 1 <= ReadChunk
  BY SizeAssumption
<1>5. /\ FillSpace \in Nat /\ 1 <= FillSpace /\ FillSpace <= Free
      /\ FillSpace + FillPos < 2 * BufferSize
  BY <1>1, <1>3, <1>4, Sizes DEF FillSpace, Least
<1>6. Back2 \in Nat /\ Back2 = BufferSize - (FillSpace + Ahead)
  BY <1>2, <1>3, <1>5, Sizes DEF Back2
<1>7. /\ NewMin \in Nat /\ min_filepos <= NewMin
      /\ max_filepos + FillSpace - BufferSize <= NewMin
  BY <1>2, <1>5, <1>6, Sizes DEF NewMin, Most
<1>8. min_filepos < NewMin => NewMin + BackSize <= f_read
  <2>1. Back <= Back2
    BY <1>2, <1>3, <1>5, <1>6, Sizes
  <2>2. Back = BackSize \/ Back >= f_read - min_filepos
    BY Sizes DEF Back, Least, Most
  <2>3. QED BY <1>2, <1>6, <2>1, <2>2, Sizes DEF NewMin, Most
<1>9. QED BY <1>1, <1>2, <1>5, <1>6, <1>7, <1>8

-----------------------------------------------------------------------------
(* The inductive invariant behind type correctness.  Between the fills the *)
(* end of the window falls into the ring; while one is under way its       *)
(* locals say where it writes, and a store not made yet says what it was.  *)

AtRest ==
    fpc \in {"fill", "plan"} =>
        /\ pending = {}
        /\ offset <= max_filepos /\ max_filepos - offset < BufferSize
        /\ max_filepos - min_filepos <= BufferSize

Dropping ==
    fpc = "drop" =>
        /\ pending \subseteq {"offset", "min", "max"}
        /\ "offset" \notin pending => offset = f_read
        /\ "min" \notin pending => min_filepos = f_read
        /\ "max" \notin pending => max_filepos = f_read

Reading ==
    fpc = "read" =>
        /\ pending = {}
        /\ offset <= max_filepos /\ f_pos = max_filepos - offset
        /\ f_pos < BufferSize
        /\ 1 <= f_space /\ f_space + f_pos < 2 * BufferSize
        /\ f_len <= f_space /\ f_space <= BufferSize
        /\ max_filepos + f_space - BufferSize <= min_filepos

(* The window's end and offset before the stores of this fill.             *)
OldMax    == IF "max" \in pending THEN max_filepos ELSE max_filepos - f_len
OldOffset == IF "offset" \notin pending /\ Wraps THEN offset - BufferSize
             ELSE offset

Publishing ==
    fpc = "publish" =>
        /\ pending \subseteq {"eof", "max", "offset"}
        /\ "offset" \in pending => Wraps
        /\ 0 <= OldOffset /\ OldOffset <= OldMax /\ f_pos = OldMax - OldOffset
        /\ f_pos < BufferSize
        /\ 1 <= f_space /\ f_space + f_pos < 2 * BufferSize
        /\ f_len <= f_space /\ f_space <= BufferSize
        /\ OldMax + f_space - BufferSize <= min_filepos

Copying ==
    /\ rpc = "copy" => /\ len \in Nat /\ copied <= len
                       /\ cell \in Nat /\ cell + len <= BufferSize
    /\ rpc # "copy" => copied = 0

PipeEnd == Pipe => device <= FileSize

FillerInv == AtRest /\ Dropping /\ Reading /\ Publishing
TypeInv   == TypeOK /\ FillerInv /\ Copying /\ PipeEnd

-----------------------------------------------------------------------------
(* The inductive invariant behind the window.                              *)

(* One past the last byte that is in the ring, published or not.           *)
WindowEnd == IF fpc = "read" THEN max_filepos + f_len
             ELSE IF fpc = "publish" THEN OldMax + f_len ELSE max_filepos

(* The stream stands at the end of the window, and the window is right.    *)
WindowInv ==
    fpc \notin {"drop", "dead"} =>
        /\ device = WindowEnd
        /\ \A p \in Int : min_filepos <= p /\ p < WindowEnd
                             => buffer[Slot(p, offset)] = p

-----------------------------------------------------------------------------
(* The inductive invariant behind a reader that never seeks back: nothing  *)
(* it has yet to read is behind the filler's last look at it, so the       *)
(* filler drops only a cache that has nothing for it, and overwrites only  *)
(* what it is done with.                                                   *)

NeverAhead ==
    /\ fpc = "dead" => rpc = "closed"
    /\ fpc # "dead" => f_read <= read_filepos /\ min_filepos <= read_filepos
    /\ fpc = "drop" => max_filepos <= f_read

Claim ==
    /\ rpc # "fault"
    /\ rpc \in {"check_min", "newb", "locate"} =>
          1 <= newb /\ read_filepos + newb <= max_filepos
    /\ rpc \in {"check", "check_min", "wait", "newb", "locate"} =>
          Len(got) < SectorSize
    /\ rpc = "copy" =>
          /\ 1 <= len /\ read_filepos + len <= max_filepos
          /\ cell = Slot(read_filepos, offset)
          /\ Len(got) - copied + len <= SectorSize

Delivered ==
    /\ rpc = "copy" => pos + Len(got) = read_filepos + copied
    /\ rpc # "copy" => pos + Len(got) = read_filepos
    /\ rpc \in {"prefill", "ready", "seek", "closed"} => got = <<>>
    /\ \A i \in 1 .. Len(got) : got[i] = pos + i - 1
    /\ rpc \in {"prefill", "ready", "closed"} =>
          \A i \in 1 .. Len(buf) : buf[i] = pos - Len(buf) + i - 1

ForwardInv == NeverAhead /\ Claim /\ Delivered

-----------------------------------------------------------------------------
LEMMA SlotInRing ==
    ASSUME NEW p \in Int, NEW o \in Int,
           -BufferSize <= p - o, p - o < 2 * BufferSize
    PROVE  Slot(p, o) \in Cells
BY Sizes DEF Slot, Cells

LEMMA TypeInit == Init => TypeInv
<1> SUFFICES ASSUME Init PROVE TypeInv
  OBVIOUS
<1>1. CellsOK
  BY DEF Init, Bytes, CellsOK
<1>2. SectorsOK
  BY DEF Init, SectorsOK
<1>3. FlagsOK
  BY Zenon DEF Init, FlagsOK
<1>4. PlacesOK /\ CountersOK
  BY DEF Init, PlacesOK, CountersOK, FillerPlaces, ReaderPlaces
<1>5. FillerInv /\ Copying /\ PipeEnd
  BY Sizes, SizeAssumption
     DEF Init, FillerInv, AtRest, Dropping, Reading, Publishing, Copying,
         PipeEnd
<1>6. QED BY <1>1, <1>2, <1>3, <1>4, <1>5 DEF TypeInv, TypeOK

-----------------------------------------------------------------------------
(* Type correctness, action by action: first the flags, which no other     *)
(* part depends on, then the filler, then the reader.                      *)

LEMMA FlagsStep ==
    ASSUME FlagsOK, [Next]_vars
    PROVE  FlagsOK'
<1>1. (f_len = 0) \in BOOLEAN /\ (got = <<>>) \in BOOLEAN
  BY Zenon
<1>2. CASE FillerNext
  <2>1. CASE FillStart \/ PlanFull \/ PlanRead \/ ReadByte \/ FillEnd
    BY <2>1, Zenon DEF FillStart, PlanFull, PlanRead, ReadByte, FillEnd,
                       FlagsOK, shared, stream, reader
  <2>2. CASE \E field \in {"offset", "min", "max"} : DropStore(field)
    BY <2>2, Zenon DEF DropStore, FlagsOK, stream, reader
  <2>3. CASE DropSeek
    BY <2>3, Zenon DEF DropSeek, SeekFile, SeekPipe, FlagsOK, shared, reader
  <2>4. CASE ReadDone
    BY <2>4, <1>1, Zenon DEF ReadDone, NoneRead, FlagsOK, shared, reader
  <2>5. CASE \E field \in {"eof", "max", "offset"} : Publish(field)
    BY <2>5, <1>1, Zenon DEF Publish, NoneRead, FlagsOK, stream, reader
  <2>6. QED BY <1>2, <2>1, <2>2, <2>3, <2>4, <2>5 DEF FillerNext
<1>3. CASE ReaderStep
  <2>1. CASE \/ PrefillDone \/ SeekClearEof \/ CheckMax \/ CheckMin \/ WaitEof
             \/ WaitRetry \/ CountNew \/ Locate \/ CopyByte \/ Advance
    BY <2>1, Zenon DEF PrefillDone, SeekClearEof, CheckMax, CheckMin, WaitEof,
         WaitRetry, CountNew, Locate, CopyByte, Advance, FlagsOK, shared, stream
  <2>2. CASE Return
    BY <2>2, <1>1, Zenon DEF Return, FlagsOK, shared, stream
  <2>3. QED BY <1>3, <2>1, <2>2 DEF ReaderStep
<1>4. CASE ReaderCall
  <2>1. CASE FillBuffer \/ Reset \/ Uninit \/ WaitInterrupt
    BY <2>1, Zenon DEF FillBuffer, Reset, Uninit, WaitInterrupt, FlagsOK,
                       shared, stream
  <2>2. CASE \E t \in SeekTargets : SeekInBuf(t) \/ SeekLong(t)
    BY <2>2, Zenon DEF SeekInBuf, SeekLong, FlagsOK, shared, stream
  <2>3. QED BY <1>4, <2>1, <2>2 DEF ReaderCall, NewCall
<1>5. CASE UNCHANGED vars
  BY <1>5, Zenon DEF vars, shared, stream, reader, FlagsOK
<1>6. QED BY <1>2, <1>3, <1>4, <1>5 DEF Next


(* The filler's own steps keep its invariant and its types.                *)
LEMMA FillerTypeStep ==
    ASSUME TypeInv, FillerNext
    PROVE  CellsOK' /\ PlacesOK' /\ CountersOK' /\ FillerInv' /\ PipeEnd'
<1> USE Sizes, SizeAssumption DEF TypeInv, TypeOK, FillerInv
<1>1. CASE FillStart
  <2> USE DEF FillStart, shared, stream, reader, call
  <2>1. CellsOK'
    BY <1>1 DEF CellsOK
  <2>2. PlacesOK'
    BY <1>1 DEF PlacesOK, FillerPlaces
  <2>3. CountersOK'
    BY <1>1 DEF CountersOK
  <2>4. AtRest'
    BY <1>1 DEF AtRest, CountersOK
  <2>5. Dropping'
    BY <1>1 DEF Dropping, CountersOK
  <2>6. Reading'
    BY <1>1 DEF Reading, CountersOK
  <2>7. Publishing'
    BY <1>1 DEF Publishing, CountersOK, OldMax, OldOffset, Wraps
  <2>8. PipeEnd'
    BY <1>1 DEF PipeEnd, CountersOK
  <2>9. QED BY <2>1, <2>2, <2>3, <2>4, <2>5, <2>6, <2>7, <2>8
<1>2. ASSUME NEW field \in {"offset", "min", "max"}, DropStore(field)
      PROVE  CellsOK' /\ PlacesOK' /\ CountersOK' /\ FillerInv' /\ PipeEnd'
  <2> USE DEF DropStore, locals, stream, reader, call
  <2>1. CellsOK'
    BY <1>2 DEF CellsOK
  <2>2. PlacesOK'
    BY <1>2 DEF PlacesOK, FillerPlaces
  <2>3. CountersOK'
    BY <1>2 DEF CountersOK
  <2>4. AtRest'
    BY <1>2 DEF AtRest, CountersOK
  <2>5. Dropping'
    BY <1>2 DEF Dropping, CountersOK
  <2>6. Reading'
    BY <1>2 DEF Reading, CountersOK
  <2>7. Publishing'
    BY <1>2 DEF Publishing, CountersOK, OldMax, OldOffset, Wraps
  <2>8. PipeEnd'
    BY <1>2 DEF PipeEnd, CountersOK
  <2>9. QED BY <2>1, <2>2, <2>3, <2>4, <2>5, <2>6, <2>7, <2>8
<1>3. CASE DropSeek
  <2> USE DEF DropSeek, SeekFile, SeekPipe, shared, locals, reader, call
  <2>0. stream_pos' \in Nat /\ device' \in Nat
    <3>1. CASE SeekFile
      BY <3>1 DEF CountersOK
    <3>2. CASE SeekPipe
      BY <3>2 DEF CountersOK, PipeEnd
    <3>3. QED BY <1>3, <3>1, <3>2
  <2>1. CellsOK'
    BY <1>3, <2>0 DEF CellsOK
  <2>2. PlacesOK'
    BY <1>3, <2>0 DEF PlacesOK, FillerPlaces
  <2>3. CountersOK'
    BY <1>3, <2>0 DEF CountersOK
  <2>4. AtRest'
    BY <1>3, <2>0 DEF AtRest, CountersOK, Dropping
  <2>5. Dropping'
    BY <1>3, <2>0 DEF Dropping, CountersOK
  <2>6. Reading'
    BY <1>3, <2>0 DEF Reading, CountersOK
  <2>7. Publishing'
    BY <1>3, <2>0 DEF Publishing, CountersOK, OldMax, OldOffset, Wraps
  <2>8. PipeEnd'
    BY <1>3, <2>0 DEF PipeEnd, CountersOK
  <2>9. QED BY <2>1, <2>2, <2>3, <2>4, <2>5, <2>6, <2>7, <2>8
<1>4. CASE PlanFull
  <2> USE DEF PlanFull, shared, stream, reader, call
  <2>1. CellsOK'
    BY <1>4 DEF CellsOK
  <2>2. PlacesOK'
    BY <1>4 DEF PlacesOK, FillerPlaces
  <2>3. CountersOK'
    BY <1>4 DEF CountersOK
  <2>4. AtRest'
    BY <1>4 DEF AtRest, CountersOK
  <2>5. Dropping'
    BY <1>4 DEF Dropping, CountersOK
  <2>6. Reading'
    BY <1>4 DEF Reading, CountersOK
  <2>7. Publishing'
    BY <1>4 DEF Publishing, CountersOK, OldMax, OldOffset, Wraps
  <2>8. PipeEnd'
    BY <1>4 DEF PipeEnd, CountersOK
  <2>9. QED BY <2>1, <2>2, <2>3, <2>4, <2>5, <2>6, <2>7, <2>8
<1>5. CASE PlanRead
  <2> USE DEF PlanRead, stream, reader, call
  <2>0. /\ FillPos = max_filepos - offset /\ FillPos \in Nat
        /\ FillSpace \in Nat /\ 1 <= FillSpace /\ FillSpace <= BufferSize
        /\ FillSpace + FillPos < 2 * BufferSize
        /\ NewMin \in Nat /\ min_filepos <= NewMin
        /\ max_filepos + FillSpace - BufferSize <= NewMin
    BY <1>5, SpaceFits DEF CountersOK, AtRest, Free
  <2>1. CellsOK'
    BY <1>5, <2>0 DEF CellsOK
  <2>2. PlacesOK'
    BY <1>5, <2>0 DEF PlacesOK, FillerPlaces
  <2>3. CountersOK'
    BY <1>5, <2>0 DEF CountersOK
  <2>4. AtRest'
    BY <1>5, <2>0 DEF AtRest, CountersOK
  <2>5. Dropping'
    BY <1>5, <2>0 DEF Dropping, CountersOK
  <2>6. Reading'
    BY <1>5, <2>0 DEF Reading, CountersOK, AtRest
  <2>7. Publishing'
    BY <1>5, <2>0 DEF Publishing, CountersOK, OldMax, OldOffset, Wraps
  <2>8. PipeEnd'
    BY <1>5, <2>0 DEF PipeEnd, CountersOK
  <2>9. QED BY <2>1, <2>2, <2>3, <2>4, <2>5, <2>6, <2>7, <2>8
<1>6. CASE ReadByte
  <2> USE DEF ReadByte, reader, call
  <2>0. Slot(f_pos + f_len, 0) \in Cells /\ device \in Bytes
    BY <1>6, SlotInRing DEF CountersOK, Reading, Bytes
  <2>1. CellsOK'
    BY <1>6, <2>0 DEF CellsOK
  <2>2. PlacesOK'
    BY <1>6, <2>0 DEF PlacesOK, FillerPlaces
  <2>3. CountersOK'
    BY <1>6, <2>0 DEF CountersOK
  <2>4. AtRest'
    BY <1>6, <2>0 DEF AtRest, CountersOK
  <2>5. Dropping'
    BY <1>6, <2>0 DEF Dropping, CountersOK
  <2>6. Reading'
    BY <1>6, <2>0 DEF Reading, CountersOK
  <2>7. Publishing'
    BY <1>6, <2>0 DEF Publishing, CountersOK, OldMax, OldOffset, Wraps
  <2>8. PipeEnd'
    BY <1>6, <2>0 DEF PipeEnd, CountersOK
  <2>9. QED BY <2>1, <2>2, <2>3, <2>4, <2>5, <2>6, <2>7, <2>8
<1>7. CASE ReadDone
  <2> USE DEF ReadDone, NoneRead, shared, locals, reader, call
  <2>1. CellsOK'
    BY <1>7 DEF CellsOK
  <2>2. PlacesOK'
    BY <1>7 DEF PlacesOK, FillerPlaces
  <2>3. CountersOK'
    BY <1>7 DEF CountersOK
  <2>4. AtRest'
    BY <1>7 DEF AtRest, CountersOK
  <2>5. Dropping'
    BY <1>7 DEF Dropping, CountersOK
  <2>6. Reading'
    BY <1>7 DEF Reading, CountersOK
  <2>7. Publishing'
    BY <1>7 DEF Publishing, CountersOK, OldMax, OldOffset, Wraps, Reading
  <2>8. PipeEnd'
    BY <1>7 DEF PipeEnd, CountersOK
  <2>9. QED BY <2>1, <2>2, <2>3, <2>4, <2>5, <2>6, <2>7, <2>8
<1>8. ASSUME NEW field \in {"eof", "max", "offset"}, Publish(field)
      PROVE  CellsOK' /\ PlacesOK' /\ CountersOK' /\ FillerInv' /\ PipeEnd'
  <2> USE DEF Publish, locals, stream, reader, call
  <2>1. CellsOK'
    BY <1>8 DEF CellsOK
  <2>2. PlacesOK'
    BY <1>8 DEF PlacesOK, FillerPlaces
  <2>3. CountersOK'
    BY <1>8 DEF CountersOK
  <2>4. AtRest'
    BY <1>8 DEF AtRest, CountersOK
  <2>5. Dropping'
    BY <1>8 DEF Dropping, CountersOK
  <2>6. Reading'
    BY <1>8 DEF Reading, CountersOK
  <2>7. Publishing'
    BY <1>8 DEF Publishing, CountersOK, OldMax, OldOffset, Wraps
  <2>8. PipeEnd'
    BY <1>8 DEF PipeEnd, CountersOK
  <2>9. QED BY <2>1, <2>2, <2>3, <2>4, <2>5, <2>6, <2>7, <2>8
<1>9. CASE FillEnd
  <2> USE DEF FillEnd, shared, stream, reader, call
  <2>1. CellsOK'
    BY <1>9 DEF CellsOK
  <2>2. PlacesOK'
    BY <1>9 DEF PlacesOK, FillerPlaces
  <2>3. CountersOK'
    BY <1>9 DEF CountersOK
  <2>4. AtRest'
    BY <1>9 DEF AtRest, CountersOK, Publishing,
       OldMax, OldOffset, Wraps
  <2>5. Dropping'
    BY <1>9 DEF Dropping, CountersOK
  <2>6. Reading'
    BY <1>9 DEF Reading, CountersOK
  <2>7. Publishing'
    BY <1>9 DEF Publishing, CountersOK, OldMax, OldOffset, Wraps
  <2>8. PipeEnd'
    BY <1>9 DEF PipeEnd, CountersOK
  <2>9. QED BY <2>1, <2>2, <2>3, <2>4, <2>5, <2>6, <2>7, <2>8
<1>10. QED
  BY <1>1, <1>2, <1>3, <1>4, <1>5, <1>6, <1>7, <1>8, <1>9 DEF FillerNext

-----------------------------------------------------------------------------
(* The reader's steps leave the filler's invariant alone, whichever they   *)
(* are: none touches what it is about, and Uninit ends it.                 *)
LEMMA FillerInvStutter ==
    ASSUME FillerInv,
           UNCHANGED <<min_filepos, max_filepos, offset, pending, f_read, f_pos,
                       f_space, f_len>>,
           fpc' = fpc \/ fpc' = "dead"
    PROVE  FillerInv'
<1>1. AtRest'
  BY DEF FillerInv, AtRest
<1>2. Dropping'
  BY DEF FillerInv, Dropping
<1>3. Reading'
  BY DEF FillerInv, Reading
<1>4. Publishing'
  BY DEF FillerInv, Publishing, OldMax, OldOffset, Wraps
<1>5. QED BY <1>1, <1>2, <1>3, <1>4 DEF FillerInv

LEMMA ReaderTypeStep ==
    ASSUME TypeInv, ReaderStep \/ ReaderCall
    PROVE  /\ CellsOK' /\ SectorsOK' /\ PlacesOK' /\ CountersOK'
           /\ FillerInv' /\ Copying' /\ PipeEnd'
<1> USE Sizes, SizeAssumption DEF TypeInv, TypeOK
<1>1. CASE PrefillDone \/ Uninit
  <2> USE DEF PrefillDone, Uninit, shared, filler, locals, stream, call
  <2>1. CellsOK' /\ PipeEnd'
    BY <1>1 DEF CellsOK, PipeEnd
  <2>2. SectorsOK'
    BY <1>1 DEF SectorsOK
  <2>3. PlacesOK'
    BY <1>1 DEF PlacesOK, FillerPlaces, ReaderPlaces
  <2>4. CountersOK'
    BY <1>1 DEF CountersOK
  <2>5. FillerInv'
    BY <1>1, FillerInvStutter DEF CountersOK
  <2>6. Copying'
    BY <1>1 DEF Copying, CountersOK
  <2>7. QED BY <2>1, <2>2, <2>3, <2>4, <2>5, <2>6
<1>2. CASE FillBuffer \/ SeekClearEof
  <2> USE DEF FillBuffer, SeekClearEof, shared, filler, locals, stream, call
  <2>0. <<>> \in Seq(Bytes)
    OBVIOUS
  <2>1. CellsOK' /\ PipeEnd'
    BY <1>2 DEF CellsOK, PipeEnd
  <2>2. SectorsOK'
    BY <1>2, <2>0 DEF SectorsOK
  <2>3. PlacesOK'
    BY <1>2 DEF PlacesOK, FillerPlaces, ReaderPlaces
  <2>4. CountersOK'
    BY <1>2 DEF CountersOK
  <2>5. FillerInv'
    BY <1>2, FillerInvStutter DEF CountersOK
  <2>6. Copying'
    BY <1>2 DEF Copying, CountersOK
  <2>7. QED BY <2>1, <2>2, <2>3, <2>4, <2>5, <2>6
<1>3. CASE Reset
  <2> USE DEF Reset, shared, filler, locals, stream, call
  <2>0. <<>> \in Seq(Bytes)
    OBVIOUS
  <2>1. CellsOK' /\ PipeEnd'
    BY <1>3 DEF CellsOK, PipeEnd
  <2>2. SectorsOK'
    BY <1>3, <2>0 DEF SectorsOK
  <2>3. PlacesOK'
    BY <1>3 DEF PlacesOK, FillerPlaces, ReaderPlaces
  <2>4. CountersOK'
    BY <1>3 DEF CountersOK
  <2>5. FillerInv'
    BY <1>3, FillerInvStutter DEF CountersOK
  <2>6. Copying'
    BY <1>3 DEF Copying, CountersOK
  <2>7. QED BY <2>1, <2>2, <2>3, <2>4, <2>5, <2>6
<1>4. CASE WaitEof \/ WaitInterrupt \/ WaitRetry
  <2> USE DEF WaitEof, WaitInterrupt, WaitRetry, shared, filler, locals, stream, call
  <2>1. CellsOK' /\ PipeEnd'
    BY <1>4 DEF CellsOK, PipeEnd
  <2>2. SectorsOK'
    BY <1>4 DEF SectorsOK
  <2>3. PlacesOK'
    BY <1>4 DEF PlacesOK, FillerPlaces, ReaderPlaces
  <2>4. CountersOK'
    BY <1>4 DEF CountersOK
  <2>5. FillerInv'
    BY <1>4, FillerInvStutter DEF CountersOK
  <2>6. Copying'
    BY <1>4 DEF Copying, CountersOK
  <2>7. QED BY <2>1, <2>2, <2>3, <2>4, <2>5, <2>6
<1>5. CASE CheckMax \/ CheckMin \/ CountNew
  <2> USE DEF CheckMax, CheckMin, CountNew, shared, filler, locals, stream, call
  <2>1. CellsOK' /\ PipeEnd'
    BY <1>5 DEF CellsOK, PipeEnd
  <2>2. SectorsOK'
    BY <1>5 DEF SectorsOK
  <2>3. PlacesOK'
    BY <1>5 DEF PlacesOK, FillerPlaces, ReaderPlaces
  <2>4. CountersOK'
    BY <1>5 DEF CountersOK, Most
  <2>5. FillerInv'
    BY <1>5, FillerInvStutter DEF CountersOK
  <2>6. Copying'
    BY <1>5 DEF Copying, CountersOK
  <2>7. QED BY <2>1, <2>2, <2>3, <2>4, <2>5, <2>6
<1>6. ASSUME NEW t \in SeekTargets, SeekInBuf(t)
      PROVE  /\ CellsOK' /\ SectorsOK' /\ PlacesOK' /\ CountersOK'
             /\ FillerInv' /\ Copying' /\ PipeEnd'
  <2> USE DEF SeekInBuf, shared, filler, locals, stream, call
  <2>1. CellsOK' /\ PipeEnd'
    BY <1>6 DEF CellsOK, PipeEnd
  <2>2. SectorsOK'
    BY <1>6 DEF SectorsOK
  <2>3. PlacesOK'
    BY <1>6 DEF PlacesOK, FillerPlaces, ReaderPlaces
  <2>4. CountersOK'
    BY <1>6 DEF CountersOK
  <2>5. FillerInv'
    BY <1>6, FillerInvStutter DEF CountersOK
  <2>6. Copying'
    BY <1>6 DEF Copying, CountersOK
  <2>7. QED BY <2>1, <2>2, <2>3, <2>4, <2>5, <2>6
<1>7. ASSUME NEW t \in SeekTargets, SeekLong(t)
      PROVE  /\ CellsOK' /\ SectorsOK' /\ PlacesOK' /\ CountersOK'
             /\ FillerInv' /\ Copying' /\ PipeEnd'
  <2> USE DEF SeekLong, shared, filler, locals, stream, call
  <2>0. t \in Nat /\ Align(t) \in Nat
    BY DEF Align
  <2>1. CellsOK' /\ PipeEnd'
    BY <1>7 DEF CellsOK, PipeEnd
  <2>2. SectorsOK'
    BY <1>7 DEF SectorsOK
  <2>3. PlacesOK'
    BY <1>7 DEF PlacesOK, FillerPlaces, ReaderPlaces
  <2>4. CountersOK'
    BY <1>7, <2>0 DEF CountersOK
  <2>5. FillerInv'
    BY <1>7, FillerInvStutter DEF CountersOK
  <2>6. Copying'
    BY <1>7 DEF Copying, CountersOK
  <2>7. QED BY <2>1, <2>2, <2>3, <2>4, <2>5, <2>6
<1>8. CASE Locate
  <2> USE DEF Locate, shared, filler, locals, stream, call
  <2>0. Slot(read_filepos, offset) \in Int
    BY DEF Slot, CountersOK
  <2>01. Len(got) \in Nat
    BY DEF SectorsOK
  <2>1. CellsOK' /\ PipeEnd'
    BY <1>8 DEF CellsOK, PipeEnd
  <2>2. SectorsOK'
    BY <1>8 DEF SectorsOK
  <2>3. PlacesOK'
    BY <1>8 DEF PlacesOK, FillerPlaces, ReaderPlaces
  <2>4. CountersOK'
    BY <1>8, <2>0, <2>01 DEF CountersOK, Least
  <2>5. FillerInv'
    BY <1>8, FillerInvStutter DEF CountersOK
  <2>6. Copying'
    BY <1>8, <2>0, <2>01 DEF Copying, CountersOK, Least, Cells
  <2>7. QED BY <2>1, <2>2, <2>3, <2>4, <2>5, <2>6
<1>9. CASE CopyByte
  <2> USE DEF CopyByte, shared, filler, locals, stream, call
  <2>0. cell + copied \in Cells
    BY <1>9 DEF Copying, CountersOK, Cells
  <2>01. buffer[cell + copied] \in Bytes
    BY <2>0 DEF CellsOK
  <2>1. CellsOK' /\ PipeEnd'
    BY <1>9 DEF CellsOK, PipeEnd
  <2>2. SectorsOK'
    BY <1>9, <2>01 DEF SectorsOK
  <2>3. PlacesOK'
    BY <1>9 DEF PlacesOK, FillerPlaces, ReaderPlaces
  <2>4. CountersOK'
    BY <1>9 DEF CountersOK
  <2>5. FillerInv'
    BY <1>9, FillerInvStutter DEF CountersOK
  <2>6. Copying'
    BY <1>9 DEF Copying, CountersOK
  <2>7. QED BY <2>1, <2>2, <2>3, <2>4, <2>5, <2>6
<1>10. CASE Advance
  <2> USE DEF Advance, shared, filler, locals, stream, call
  <2>1. CellsOK' /\ PipeEnd'
    BY <1>10 DEF CellsOK, PipeEnd
  <2>2. SectorsOK'
    BY <1>10 DEF SectorsOK
  <2>3. PlacesOK'
    BY <1>10 DEF PlacesOK, FillerPlaces, ReaderPlaces
  <2>4. CountersOK'
    BY <1>10 DEF CountersOK, Copying
  <2>5. FillerInv'
    BY <1>10, FillerInvStutter DEF CountersOK
  <2>6. Copying'
    BY <1>10 DEF Copying, CountersOK
  <2>7. QED BY <2>1, <2>2, <2>3, <2>4, <2>5, <2>6
<1>11. CASE Return
  <2> USE DEF Return, shared, filler, locals, stream, call
  <2>0. Len(got) \in Nat /\ <<>> \in Seq(Bytes)
    BY DEF SectorsOK
  <2>1. CellsOK' /\ PipeEnd'
    BY <1>11 DEF CellsOK, PipeEnd
  <2>2. SectorsOK'
    BY <1>11, <2>0 DEF SectorsOK
  <2>3. PlacesOK'
    BY <1>11 DEF PlacesOK, FillerPlaces, ReaderPlaces
  <2>4. CountersOK'
    BY <1>11, <2>0 DEF CountersOK
  <2>5. FillerInv'
    BY <1>11, FillerInvStutter DEF CountersOK
  <2>6. Copying'
    BY <1>11 DEF Copying, CountersOK
  <2>7. QED BY <2>1, <2>2, <2>3, <2>4, <2>5, <2>6
<1>12. QED
  BY <1>1, <1>2, <1>3, <1>4, <1>5, <1>6, <1>7, <1>8, <1>9, <1>10, <1>11
  DEF ReaderStep, ReaderCall, NewCall

LEMMA TypeStep == TypeInv /\ [Next]_vars => TypeInv'
<1> SUFFICES ASSUME TypeInv, [Next]_vars PROVE TypeInv'
  OBVIOUS
<1>1. FlagsOK'
  BY FlagsStep DEF TypeInv, TypeOK
<1>2. CASE FillerNext
  <2>1. UNCHANGED reader
    BY <1>2 DEF FillerNext, FillStart, DropStore, DropSeek, PlanFull, PlanRead,
                ReadByte, ReadDone, Publish, FillEnd
  <2>2. SectorsOK' /\ Copying'
    BY <2>1 DEF reader, call, TypeInv, TypeOK, SectorsOK, Copying
  <2>3. QED BY <1>1, <1>2, <2>2, FillerTypeStep DEF TypeInv, TypeOK
<1>3. CASE ReaderStep \/ ReaderCall
  BY <1>1, <1>3, ReaderTypeStep DEF TypeInv, TypeOK
<1>4. CASE UNCHANGED vars
  <2> USE <1>4 DEF vars, shared, filler, stream, reader, call, TypeInv, TypeOK
  <2>1. CellsOK' /\ SectorsOK' /\ PlacesOK'
    BY DEF CellsOK, SectorsOK, PlacesOK
  <2>2. CountersOK' /\ Copying' /\ PipeEnd'
    BY DEF CountersOK, Copying, PipeEnd
  <2>3. FillerInv'
    BY FillerInvStutter
  <2>4. QED BY <1>1, <2>1, <2>2, <2>3
<1>5. QED BY <1>2, <1>3, <1>4 DEF Next

LEMMA TypeAlways == Spec => []TypeInv
<1>1. QED BY TypeInit, TypeStep, PTL DEF Spec

(* Type correctness, for every instance and every reader.                  *)
THEOREM TypeCorrect == Spec => []TypeOK
<1>1. TypeInv => TypeOK
  BY DEF TypeInv
<1>2. QED BY TypeAlways, <1>1, PTL

-----------------------------------------------------------------------------
(* The window.  Two positions less than a ring apart have different cells, *)
(* and moving offset on by a ring moves no byte.                           *)
LEMMA SlotDistinct ==
    ASSUME NEW p \in Int, NEW q \in Int, NEW o \in Int,
           -BufferSize <= p - o, q - o < 2 * BufferSize,
           p < q, q < p + BufferSize
    PROVE  Slot(p, o) # Slot(q, o)
BY Sizes DEF Slot

LEMMA SlotShift ==
    ASSUME NEW p \in Int, NEW o \in Int, 0 <= p - o, p - o < 2 * BufferSize
    PROVE  Slot(p, o + BufferSize) = Slot(p, o)
BY Sizes DEF Slot

LEMMA WindowInit == Init => WindowInv
BY DEF Init, WindowInv, WindowEnd

LEMMA WindowStep ==
    ASSUME ~Pipe, TypeInv, WindowInv, [Next]_vars
    PROVE  WindowInv'
<1> USE Sizes DEF TypeInv, TypeOK
<1> DEFINE Holds == \A p \in Int : min_filepos <= p /\ p < WindowEnd
                                      => buffer[Slot(p, offset)] = p
<1>1. CASE FillStart \/ PlanFull
  <2>1. /\ UNCHANGED <<buffer, min_filepos, max_filepos, offset, device>>
        /\ fpc \in {"fill", "plan"} /\ fpc' \in {"fill", "plan", "drop"}
    BY <1>1 DEF FillStart, PlanFull, shared, stream
  <2>2. fpc' # "drop" => WindowEnd' = WindowEnd
    BY <2>1 DEF WindowEnd
  <2>3. QED BY <2>1, <2>2 DEF WindowInv
<1>2. ASSUME NEW field \in {"offset", "min", "max"}, DropStore(field)
      PROVE  WindowInv'
  BY <1>2 DEF DropStore, WindowInv
<1>3. CASE DropSeek
  <2>1. /\ min_filepos' = f_read /\ max_filepos' = f_read /\ f_read \in Nat
        /\ device' = f_read /\ fpc' = "plan"
    BY <1>3 DEF DropSeek, SeekFile, SeekPipe, FillerInv, Dropping, shared,
                CountersOK
  <2>2. QED BY <2>1 DEF WindowInv, WindowEnd
<1>4. CASE PlanRead
  <2>1. NewMin \in Nat /\ min_filepos <= NewMin
    BY <1>4, SpaceFits DEF PlanRead, CountersOK, FillerInv, AtRest
  <2>2. /\ UNCHANGED <<buffer, max_filepos, offset, device>>
        /\ min_filepos' = NewMin /\ f_len' = 0
        /\ fpc = "plan" /\ fpc' = "read"
    BY <1>4 DEF PlanRead, stream
  <2>3. WindowEnd' = WindowEnd /\ WindowEnd = max_filepos
    BY <2>2 DEF WindowEnd, CountersOK
  <2>4. QED BY <2>1, <2>2, <2>3 DEF WindowInv, CountersOK
<1>5. CASE ReadByte
  <2> DEFINE q == max_filepos + f_len
  <2>1. /\ UNCHANGED <<min_filepos, max_filepos, offset>>
        /\ buffer' = [buffer EXCEPT ![Slot(f_pos + f_len, 0)] = device]
        /\ device' = device + 1 /\ f_len' = f_len + 1
        /\ fpc = "read" /\ fpc' = "read" /\ f_len < f_space
    BY <1>5 DEF ReadByte
  <2>2. q \in Int /\ WindowEnd = q /\ WindowEnd' = q + 1 /\ device = q
    BY <2>1 DEF WindowEnd, WindowInv, CountersOK
  <2>3. /\ offset <= max_filepos /\ f_pos = max_filepos - offset
        /\ f_pos < BufferSize /\ f_space + f_pos < 2 * BufferSize
        /\ max_filepos + f_space - BufferSize <= min_filepos
    BY <2>1 DEF FillerInv, Reading
  <2>4. Slot(f_pos + f_len, 0) = Slot(q, offset) /\ Slot(q, offset) \in Cells
    <3>1. (f_pos + f_len) - 0 = q - offset
      BY <2>3 DEF CountersOK
    <3>2. Slot(f_pos + f_len, 0) = Slot(q, offset)
      BY <3>1 DEF Slot
    <3>3. Slot(q, offset) \in Cells
      BY <2>1, <2>2, <2>3, SlotInRing DEF CountersOK
    <3>4. QED BY <3>2, <3>3
  <2>5. buffer'[Slot(q, offset)] = q
    BY <2>1, <2>2, <2>4 DEF CellsOK
  <2>6. ASSUME NEW p \in Int, min_filepos <= p, p < q
        PROVE  buffer'[Slot(p, offset)] = p
    <3>1. /\ -BufferSize <= p - offset /\ q - offset < 2 * BufferSize
          /\ q < p + BufferSize
      BY <2>1, <2>3, <2>6 DEF CountersOK
    <3>2. Slot(p, offset) # Slot(q, offset)
      BY <2>2, <2>6, <3>1, SlotDistinct DEF CountersOK
    <3>3. Slot(p, offset) \in Cells
      BY <2>2, <2>6, <3>1, SlotInRing DEF CountersOK
    <3>4. buffer[Slot(p, offset)] = p
      BY <2>1, <2>2, <2>6 DEF WindowInv
    <3>5. QED BY <2>1, <2>4, <3>2, <3>3, <3>4 DEF CellsOK
  <2>7. \A p \in Int : min_filepos' <= p /\ p < WindowEnd'
                          => buffer'[Slot(p, offset')] = p
    <3>1. SUFFICES ASSUME NEW p \in Int, min_filepos <= p, p < q + 1
                   PROVE  buffer'[Slot(p, offset)] = p
      BY <2>1, <2>2
    <3>2. p = q \/ p < q
      BY <3>1, <2>2
    <3>3. QED BY <3>1, <3>2, <2>5, <2>6
  <2>8. QED BY <2>1, <2>2, <2>7 DEF WindowInv
<1>6. CASE ReadDone
  <2>1. /\ UNCHANGED <<buffer, min_filepos, max_filepos, offset, device, f_len>>
        /\ fpc = "read" /\ fpc' = "publish" /\ "max" \in pending'
    BY <1>6 DEF ReadDone, shared, locals
  <2>2. WindowEnd' = WindowEnd
    BY <2>1 DEF WindowEnd, OldMax
  <2>3. QED BY <2>1, <2>2 DEF WindowInv
<1>7. ASSUME NEW field \in {"eof", "max", "offset"}, Publish(field)
      PROVE  WindowInv'
  <2>1. /\ UNCHANGED <<buffer, min_filepos, device, f_len, f_pos>>
        /\ fpc = "publish" /\ fpc' = "publish"
        /\ field \in pending /\ pending' = pending \ {field}
    BY <1>7 DEF Publish, locals, stream
  <2>2. /\ max_filepos' = IF field = "max" THEN max_filepos + f_len
                          ELSE max_filepos
        /\ offset' = IF field = "offset" THEN offset + BufferSize ELSE offset
    BY <1>7 DEF Publish
  <2>3. OldMax' = OldMax /\ WindowEnd' = WindowEnd /\ WindowEnd = OldMax + f_len
    BY <2>1, <2>2 DEF OldMax, WindowEnd, CountersOK
  <2>4. CASE field # "offset"
    <3>1. offset' = offset
      BY <2>2, <2>4
    <3>2. QED BY <2>1, <2>3, <3>1 DEF WindowInv
  <2>5. CASE field = "offset"
    <3>1. /\ f_pos + f_len >= BufferSize /\ offset = OldOffset
          /\ f_pos = OldMax - offset /\ f_space + f_pos < 2 * BufferSize
          /\ f_len <= f_space /\ OldMax + f_space - BufferSize <= min_filepos
      BY <2>1, <2>5 DEF FillerInv, Publishing, Wraps, OldOffset
    <3>2. OldMax \in Int
      BY DEF OldMax, CountersOK
    <3>3. ASSUME NEW p \in Int, min_filepos <= p, p < WindowEnd
          PROVE  Slot(p, offset') = Slot(p, offset)
      <4>1. 0 <= p - offset /\ p - offset < 2 * BufferSize
        BY <2>3, <3>1, <3>2, <3>3 DEF CountersOK
      <4>2. QED BY <2>2, <2>5, <4>1, SlotShift DEF CountersOK
    <3>4. QED BY <2>1, <2>3, <3>3 DEF WindowInv
  <2>6. QED BY <2>4, <2>5
<1>8. CASE FillEnd
  <2>1. /\ UNCHANGED <<buffer, min_filepos, max_filepos, offset, device>>
        /\ fpc = "publish" /\ pending = {} /\ fpc' = "fill"
    BY <1>8 DEF FillEnd, shared, stream
  <2>2. WindowEnd' = WindowEnd
    BY <2>1 DEF WindowEnd, OldMax, CountersOK
  <2>3. QED BY <2>1, <2>2 DEF WindowInv
<1>9. CASE ReaderStep \/ ReaderCall \/ UNCHANGED vars
  <2>1. /\ UNCHANGED <<buffer, min_filepos, max_filepos, offset, device, f_len,
                       f_pos, pending>>
        /\ fpc' = fpc \/ fpc' = "dead"
    <3>1. CASE ReaderStep
      BY <3>1 DEF ReaderStep, PrefillDone, SeekClearEof, CheckMax, CheckMin,
         WaitEof, WaitRetry, CountNew, Locate, CopyByte, Advance, Return,
         shared, filler, stream
    <3>2. CASE FillBuffer \/ Reset \/ Uninit \/ WaitInterrupt
      BY <3>2 DEF FillBuffer, Reset, Uninit, WaitInterrupt,
         shared, filler, locals, stream
    <3>3. CASE \E t \in SeekTargets : SeekInBuf(t) \/ SeekLong(t)
      BY <3>3 DEF SeekInBuf, SeekLong, shared, filler, stream
    <3>4. CASE UNCHANGED vars
      BY <3>4 DEF vars, shared, filler, stream
    <3>5. QED BY <1>9, <3>1, <3>2, <3>3, <3>4 DEF ReaderCall, NewCall
  <2>2. fpc' = fpc => WindowEnd' = WindowEnd
    BY <2>1 DEF WindowEnd, OldMax
  <2>3. QED BY <2>1, <2>2 DEF WindowInv
<1>10. QED
  BY <1>1, <1>2, <1>3, <1>4, <1>5, <1>6, <1>7, <1>8, <1>9 DEF Next, FillerNext

LEMMA WindowAlways == ASSUME ~Pipe PROVE Spec => [](TypeInv /\ WindowInv)
<1>1. Init => TypeInv /\ WindowInv
  BY TypeInit, WindowInit
<1>2. TypeInv /\ WindowInv /\ [Next]_vars => (TypeInv /\ WindowInv)'
  BY TypeStep, WindowStep
<1>3. QED BY <1>1, <1>2, PTL DEF Spec

(* In front of a file that seeks, the window is the file, for every ring,  *)
(* every size of read and whatever the reader does, seeks back and resets  *)
(* and interrupts included.                                                *)
THEOREM WindowAlwaysIntact == ASSUME ~Pipe PROVE Spec => []WindowIntact
<1>1. TypeInv /\ WindowInv => WindowIntact
  <2> SUFFICES ASSUME TypeInv, WindowInv, fpc \notin {"drop", "dead"},
                      NEW p \in min_filepos .. max_filepos - 1
               PROVE  buffer[Slot(p, offset)] = p
    BY DEF WindowIntact
  <2>1. p \in Int /\ min_filepos <= p /\ p < max_filepos
    BY DEF TypeInv, TypeOK, CountersOK
  <2>2. max_filepos <= WindowEnd
    BY DEF TypeInv, TypeOK, CountersOK, WindowEnd, OldMax
  <2>3. WindowEnd \in Int
    BY DEF TypeInv, TypeOK, CountersOK, WindowEnd, OldMax
  <2>4. QED BY <2>1, <2>2, <2>3 DEF WindowInv, TypeInv, TypeOK, CountersOK
<1>2. QED BY <1>1, WindowAlways, PTL

-----------------------------------------------------------------------------
(* The reader that never seeks back.                                       *)
LEMMA SlotInReach ==
    ASSUME TypeInv, fpc \notin {"drop", "dead"}, NEW p \in Int,
           min_filepos <= p, p < max_filepos
    PROVE  -BufferSize <= p - offset /\ p - offset < 2 * BufferSize
<1> USE Sizes DEF TypeInv, TypeOK, CountersOK, FillerInv
<1>1. CASE fpc \in {"fill", "plan"}
  BY <1>1 DEF AtRest
<1>2. CASE fpc = "read"
  BY <1>2 DEF Reading
<1>3. CASE fpc = "publish"
  BY <1>3 DEF Publishing, OldMax, OldOffset, Wraps
<1>4. QED BY <1>1, <1>2, <1>3 DEF PlacesOK, FillerPlaces

LEMMA SlotRun ==
    ASSUME NEW p \in Int, NEW o \in Int, NEW k \in Nat,
           -BufferSize <= p - o, p - o < 2 * BufferSize,
           Slot(p, o) + k < BufferSize
    PROVE  Slot(p + k, o) = Slot(p, o) + k
BY Sizes DEF Slot

LEMMA ForwardInit == Init => ForwardInv
<1> SUFFICES ASSUME Init PROVE ForwardInv
  OBVIOUS
<1>1. NeverAhead /\ Claim
  BY DEF Init, NeverAhead, Claim
<1>2. Delivered
  BY DEF Init, Delivered
<1>3. QED BY <1>1, <1>2 DEF ForwardInv

(* The filler never moves max_filepos back under such a reader, and moves  *)
(* min_filepos no further than the place it saw the reader at.             *)
LEMMA FillerForward ==
    ASSUME TypeInv, ForwardInv, FillerNext
    PROVE  NeverAhead' /\ max_filepos <= max_filepos'
<1> USE Sizes DEF TypeInv, TypeOK, CountersOK, ForwardInv, NeverAhead
<1>1. CASE FillStart
  BY <1>1 DEF FillStart, OutOfReach, shared, reader
<1>2. ASSUME NEW field \in {"offset", "min", "max"}, DropStore(field)
      PROVE  NeverAhead' /\ max_filepos <= max_filepos'
  BY <1>2 DEF DropStore, locals, reader
<1>3. CASE DropSeek
  BY <1>3 DEF DropSeek, shared, locals, reader
<1>4. CASE PlanFull \/ FillEnd
  BY <1>4 DEF PlanFull, FillEnd, shared, reader
<1>5. CASE PlanRead
  <2>1. /\ NewMin \in Nat
        /\ min_filepos < NewMin => NewMin + BackSize <= f_read
    BY <1>5, SpaceFits DEF PlanRead, FillerInv, AtRest
  <2>2. QED BY <1>5, <2>1 DEF PlanRead, reader
<1>6. CASE ReadByte \/ ReadDone
  BY <1>6 DEF ReadByte, ReadDone, shared, locals, reader
<1>7. ASSUME NEW field \in {"eof", "max", "offset"}, Publish(field)
      PROVE  NeverAhead' /\ max_filepos <= max_filepos'
  BY <1>7 DEF Publish, locals, reader
<1>8. QED
  BY <1>1, <1>2, <1>3, <1>4, <1>5, <1>6, <1>7 DEF FillerNext

(* What a filler step leaves the reader: its claim on the window.          *)
LEMMA FillerKeepsClaim ==
    ASSUME TypeInv, ForwardInv, FillerNext
    PROVE  ForwardInv'
<1> USE Sizes DEF TypeInv, TypeOK, CountersOK
<1>1. UNCHANGED <<reader, read_filepos>>
  BY DEF FillerNext, FillStart, DropStore, DropSeek, PlanFull, PlanRead,
         ReadByte, ReadDone, Publish, FillEnd, shared
<1>2. UNCHANGED <<rpc, newb, cell, len, copied, got, pos, buf, read_filepos>>
  BY <1>1 DEF reader, call
<1>3. NeverAhead' /\ max_filepos <= max_filepos' /\ max_filepos' \in Nat
  BY FillerForward, FillerTypeStep
<1>4. Delivered'
  BY <1>2 DEF ForwardInv, Delivered
<1>5. rpc = "copy" => Slot(read_filepos, offset') = Slot(read_filepos, offset)
  <2> SUFFICES ASSUME rpc = "copy"
               PROVE  Slot(read_filepos, offset') = Slot(read_filepos, offset)
    OBVIOUS
  <2>1. /\ min_filepos <= read_filepos /\ read_filepos < max_filepos
        /\ fpc # "drop" /\ fpc # "dead"
    BY DEF ForwardInv, NeverAhead, Claim, Copying
  <2>2. CASE offset' = offset
    BY <2>2
  <2>3. CASE Publish("offset")
    <3>1. /\ fpc = "publish" /\ "offset" \in pending
          /\ offset' = offset + BufferSize
      BY <2>3 DEF Publish
    <3>2. 0 <= read_filepos - offset /\ read_filepos - offset < 2 * BufferSize
      BY <2>1, <3>1 DEF FillerInv, Publishing, OldMax, OldOffset, Wraps
    <3>3. QED BY <3>1, <3>2, SlotShift
  <2>4. offset' = offset \/ Publish("offset")
    BY <2>1 DEF FillerNext, FillStart, DropStore, DropSeek, PlanFull, PlanRead,
                ReadByte, ReadDone, Publish, FillEnd, shared
  <2>5. QED BY <2>2, <2>3, <2>4
<1>6. Claim'
  BY <1>2, <1>3, <1>5 DEF ForwardInv, Claim, Copying
<1>7. QED BY <1>3, <1>4, <1>6 DEF ForwardInv

(* What a reader that never seeks back does in a step of its own.          *)
LEMMA ReaderForwardStep ==
    ASSUME ~BackSeeks, ~Resets, TypeInv, WindowInv, ForwardInv,
           ReaderStep \/ ReaderCall
    PROVE  ForwardInv'
<1>0. UNCHANGED <<buffer, min_filepos, max_filepos, offset, f_read>>
  <2>1. CASE ReaderStep
    BY <2>1 DEF ReaderStep, PrefillDone, SeekClearEof, CheckMax, CheckMin,
       WaitEof, WaitRetry, CountNew, Locate, CopyByte, Advance, Return,
       shared, filler
  <2>2. CASE FillBuffer \/ Reset \/ Uninit \/ WaitInterrupt
    BY <2>2 DEF FillBuffer, Reset, Uninit, WaitInterrupt, shared, filler, locals
  <2>3. CASE \E t \in SeekTargets : SeekInBuf(t) \/ SeekLong(t)
    BY <2>3 DEF SeekInBuf, SeekLong, shared, filler
  <2>4. QED BY <2>1, <2>2, <2>3 DEF ReaderCall, NewCall
<1>types. /\ min_filepos \in Nat /\ max_filepos \in Nat /\ offset \in Nat
      /\ read_filepos \in Nat /\ f_read \in Nat /\ newb \in Int
      /\ cell \in Int /\ len \in Int /\ copied \in Nat /\ pos \in Nat
      /\ f_len \in Nat /\ got \in Seq(Bytes) /\ buf \in Seq(Bytes)
  BY DEF TypeInv, TypeOK, CountersOK, SectorsOK
<1>copying. rpc = "copy" => /\ len \in Nat /\ copied <= len
                      /\ cell \in Nat /\ cell + len <= BufferSize
  BY DEF TypeInv, Copying
<1>idle. rpc # "copy" => copied = 0
  BY DEF TypeInv, Copying
<1> USE Sizes, <1>types
<1>1. /\ rpc # "fault"
      /\ fpc = "dead" => rpc = "closed"
      /\ fpc # "dead" => f_read <= read_filepos /\ min_filepos <= read_filepos
      /\ fpc = "drop" => max_filepos <= f_read
  BY DEF ForwardInv, NeverAhead, Claim
<1>2. Len(got) \in Nat /\ Len(buf) \in Nat
  OBVIOUS
<1>3. CASE PrefillDone
  <2>1. /\ rpc = "prefill" /\ rpc' = "ready"
        /\ UNCHANGED <<read_filepos, pos, got, buf, fpc>>
    BY <1>3 DEF PrefillDone, shared, filler
  <2>2. NeverAhead' /\ Claim'
    BY <1>0, <1>1, <2>1 DEF NeverAhead, Claim
  <2>3. Delivered'
    BY <2>1 DEF ForwardInv, Delivered
  <2>4. QED BY <2>2, <2>3 DEF ForwardInv
<1>4. CASE SeekClearEof \/ FillBuffer
  <2>1. /\ rpc \in {"seek", "ready"} /\ rpc' = "check" /\ got' = <<>>
        /\ UNCHANGED <<read_filepos, pos, buf, fpc>>
    BY <1>4 DEF SeekClearEof, FillBuffer, shared, filler, call
  <2>2. got = <<>> /\ pos + Len(got) = read_filepos
    BY <2>1 DEF ForwardInv, Delivered
  <2>3. NeverAhead' /\ Claim'
    BY <1>0, <1>1, <2>1 DEF NeverAhead, Claim
  <2>4. Delivered'
    BY <2>1, <2>2 DEF Delivered
  <2>5. QED BY <2>3, <2>4 DEF ForwardInv
<1>5. CASE CheckMax \/ CheckMin \/ CountNew
  <2>1. /\ rpc \in {"check", "check_min", "newb"}
        /\ rpc' \in {"wait", "check_min", "newb", "locate"}
        /\ UNCHANGED <<read_filepos, pos, got, buf, fpc>>
    BY <1>5 DEF CheckMax, CheckMin, CountNew, shared, filler
  <2>2. NeverAhead'
    BY <1>0, <1>1, <2>1 DEF NeverAhead
  <2>3. Len(got) < SectorSize
    BY <2>1 DEF ForwardInv, Claim
  <2>4. rpc' # "wait" => 1 <= newb' /\ read_filepos + newb' <= max_filepos
    <3>1. CASE CheckMax
      BY <3>1 DEF CheckMax, NothingNew, Most
    <3>2. CASE CheckMin
      BY <3>2, <1>1 DEF CheckMin, ForwardInv, Claim
    <3>3. CASE CountNew
      <4>1. 1 <= newb /\ read_filepos + newb <= max_filepos
        BY <3>3 DEF CountNew, ForwardInv, Claim
      <4>2. newb' = newb \/ newb' = max_filepos - read_filepos
        BY <3>3 DEF CountNew
      <4>3. QED BY <4>1, <4>2
    <3>4. QED BY <1>5, <3>1, <3>2, <3>3
  <2>5. Claim'
    BY <1>0, <2>1, <2>3, <2>4 DEF Claim
  <2>6. Delivered'
    BY <2>1 DEF ForwardInv, Delivered
  <2>7. QED BY <2>2, <2>5, <2>6 DEF ForwardInv
<1>6. CASE WaitEof \/ WaitRetry \/ WaitInterrupt
  <2>1. /\ rpc = "wait" /\ rpc' \in {"check", "return"}
        /\ UNCHANGED <<read_filepos, pos, got, buf, fpc>>
    BY <1>6 DEF WaitEof, WaitRetry, WaitInterrupt, shared, filler
  <2>2. NeverAhead'
    BY <1>0, <1>1, <2>1 DEF NeverAhead
  <2>3. Claim'
    BY <1>0, <2>1 DEF ForwardInv, Claim
  <2>4. Delivered'
    BY <2>1 DEF ForwardInv, Delivered
  <2>5. QED BY <2>2, <2>3, <2>4 DEF ForwardInv
<1>7. CASE Locate
  <2> DEFINE c == Slot(read_filepos, offset)
  <2>1. /\ 1 <= newb /\ read_filepos + newb <= max_filepos
        /\ Len(got) < SectorSize /\ copied = 0
        /\ pos + Len(got) = read_filepos
    BY <1>7, <1>idle DEF Locate, ForwardInv, Claim, Delivered
  <2>2. rpc = "locate" /\ fpc \notin {"drop", "dead"}
    BY <1>1, <1>7, <2>1 DEF Locate
  <2>3. c \in Cells
    <3>1. min_filepos <= read_filepos /\ read_filepos < max_filepos
      BY <1>1, <2>1, <2>2
    <3>2. /\ -BufferSize <= read_filepos - offset
          /\ read_filepos - offset < 2 * BufferSize
      BY <2>2, <3>1, SlotInReach
    <3>3. QED BY <3>2, SlotInRing
  <2>4. c \in Nat /\ c < BufferSize
    BY <2>3 DEF Cells
  <2>5. /\ UNCHANGED <<read_filepos, pos, got, buf, fpc, copied>>
        /\ cell' = c
        /\ len' = Least(Least(newb, BufferSize - c), SectorSize - Len(got))
        /\ rpc' = IF len' < 0 \/ c \notin Cells THEN "fault" ELSE "copy"
    BY <1>7 DEF Locate, shared, filler
  <2>6. 1 <= len' /\ len' <= newb /\ Len(got) + len' <= SectorSize
    BY <2>1, <2>4, <2>5 DEF Least
  <2>7. rpc' = "copy"
    <3>1. len' \in Int
      BY <2>4, <2>5 DEF Least
    <3>2. QED BY <2>3, <2>5, <2>6, <3>1
  <2>8. NeverAhead'
    BY <1>0, <1>1, <2>2, <2>5 DEF NeverAhead
  <2>9. Claim'
    <3>1. /\ 1 <= len' /\ read_filepos' + len' <= max_filepos'
          /\ cell' = Slot(read_filepos', offset')
          /\ Len(got') - copied' + len' <= SectorSize
      BY <1>0, <1>2, <2>1, <2>4, <2>5, <2>6 DEF Least
    <3>2. QED BY <2>7, <3>1 DEF Claim
  <2>10. Delivered'
    BY <2>1, <2>5, <2>7 DEF ForwardInv, Delivered
  <2>11. QED BY <2>8, <2>9, <2>10 DEF ForwardInv
<1>8. CASE CopyByte
  <2> DEFINE b == buffer[cell + copied]
  <2>1. /\ rpc = "copy" /\ rpc' = "copy" /\ copied < len
        /\ got' = Append(got, b) /\ copied' = copied + 1
        /\ UNCHANGED <<read_filepos, pos, buf, fpc, cell, len>>
    BY <1>8 DEF CopyByte, shared, filler
  <2>2. /\ 1 <= len /\ read_filepos + len <= max_filepos
        /\ cell = Slot(read_filepos, offset) /\ cell + len <= BufferSize
        /\ Len(got) - copied + len <= SectorSize
        /\ pos + Len(got) = read_filepos + copied
    BY <2>1, <1>copying DEF ForwardInv, Claim, Delivered
  <2>3. fpc \notin {"drop", "dead"} /\ min_filepos <= read_filepos
    BY <1>1, <2>1, <2>2
  <2>4. /\ -BufferSize <= read_filepos - offset
        /\ read_filepos - offset < 2 * BufferSize
    <3>1. read_filepos < max_filepos
      BY <2>2
    <3>2. QED BY <2>3, <3>1, SlotInReach
  <2>5. cell + copied = Slot(read_filepos + copied, offset)
    BY <2>1, <2>2, <2>4, SlotRun
  <2>6. b = read_filepos + copied
    <3>1. max_filepos <= WindowEnd /\ WindowEnd \in Int
      BY DEF WindowEnd, OldMax
    <3>2. /\ read_filepos + copied \in Int
          /\ min_filepos <= read_filepos + copied
          /\ read_filepos + copied < WindowEnd
      BY <2>1, <2>2, <2>3, <3>1
    <3>3. QED BY <2>3, <2>5, <3>2 DEF WindowInv
  <2>7. NeverAhead'
    BY <1>0, <1>1, <2>1, <2>3 DEF NeverAhead
  <2>8. b \in Bytes
    BY <2>6 DEF Bytes
  <2>9. /\ Len(got') = Len(got) + 1 /\ got'[Len(got) + 1] = b
        /\ \A i \in 1 .. Len(got) : got'[i] = got[i]
    BY <2>1, <2>8
  <2>10. Claim'
    BY <1>0, <2>1, <2>2, <2>9 DEF Claim
  <2>11. \A i \in 1 .. Len(got') : got'[i] = pos + i - 1
    <3>1. \A i \in 1 .. Len(got) : got[i] = pos + i - 1
      BY DEF ForwardInv, Delivered
    <3>2. got'[Len(got) + 1] = pos + (Len(got) + 1) - 1
      BY <1>2, <2>2, <2>6, <2>9
    <3>3. SUFFICES ASSUME NEW i \in 1 .. Len(got) + 1
                   PROVE  got'[i] = pos + i - 1
      BY <2>9
    <3>4. CASE i = Len(got) + 1
      BY <3>2, <3>4
    <3>5. CASE i \in 1 .. Len(got)
      BY <2>9, <3>1, <3>5
    <3>6. QED BY <1>2, <3>4, <3>5
  <2>12. Delivered'
    <3>1. \A p, l, r, c \in Int : p + l = r + c => p + (l + 1) = r + (c + 1)
      OBVIOUS
    <3>2. pos + (Len(got) + 1) = read_filepos + (copied + 1)
      BY <1>2, <2>2, <3>1
    <3>3. pos + Len(got') = read_filepos + copied'
      BY <2>1, <2>9, <3>2, Zenon
    <3>4. QED BY <2>1, <2>11, <3>3 DEF Delivered
  <2>13. QED BY <2>7, <2>10, <2>12 DEF ForwardInv
<1>9. CASE Advance
  <2>1. /\ rpc = "copy" /\ copied = len /\ read_filepos' = read_filepos + len
        /\ rpc' = IF Len(got) = SectorSize THEN "return" ELSE "check"
        /\ UNCHANGED <<pos, got, buf, fpc>>
    BY <1>9 DEF Advance, filler
  <2>2. /\ Len(got) - copied + len <= SectorSize /\ len \in Nat
        /\ pos + Len(got) = read_filepos + copied
    BY <2>1, <1>copying DEF ForwardInv, Claim, Delivered
  <2>3. NeverAhead'
    BY <1>0, <1>1, <2>1, <2>2 DEF NeverAhead
  <2>4. Claim'
    BY <1>0, <2>1, <2>2 DEF Claim
  <2>5. Delivered'
    BY <2>1, <2>2 DEF ForwardInv, Delivered
  <2>6. QED BY <2>3, <2>4, <2>5 DEF ForwardInv
<1>10. CASE Return
  <2>1. /\ rpc = "return" /\ rpc' = "ready" /\ buf' = got /\ got' = <<>>
        /\ pos' = pos + Len(got) /\ UNCHANGED <<read_filepos, fpc>>
    BY <1>10 DEF Return, shared, filler
  <2>2. /\ pos + Len(got) = read_filepos
        /\ \A i \in 1 .. Len(got) : got[i] = pos + i - 1
    BY <2>1 DEF ForwardInv, Delivered
  <2>3. NeverAhead' /\ Claim'
    BY <1>0, <1>1, <2>1 DEF NeverAhead, Claim
  <2>4. \A i \in 1 .. Len(buf') : buf'[i] = pos' - Len(buf') + i - 1
    BY <1>2, <2>1, <2>2
  <2>5. Delivered'
    BY <1>2, <2>1, <2>2, <2>4 DEF Delivered
  <2>6. QED BY <2>3, <2>5 DEF ForwardInv
<1>11. CASE Uninit
  <2>1. /\ rpc \in {"prefill", "ready"} /\ rpc' = "closed" /\ fpc' = "dead"
        /\ UNCHANGED <<read_filepos, pos, got, buf>>
    BY <1>11 DEF Uninit, shared
  <2>2. NeverAhead' /\ Claim'
    BY <2>1 DEF NeverAhead, Claim
  <2>3. Delivered'
    BY <2>1 DEF ForwardInv, Delivered
  <2>4. QED BY <2>2, <2>3 DEF ForwardInv
<1>12. ASSUME NEW t \in SeekTargets, SeekInBuf(t)
       PROVE  ForwardInv'
  <2>1. /\ rpc = "ready" /\ rpc' = "ready"
        /\ UNCHANGED <<read_filepos, pos, got, buf, fpc>>
    BY <1>12 DEF SeekInBuf, shared, filler
  <2>2. NeverAhead' /\ Claim'
    BY <1>0, <1>1, <2>1 DEF NeverAhead, Claim
  <2>3. Delivered'
    BY <2>1 DEF ForwardInv, Delivered
  <2>4. QED BY <2>2, <2>3 DEF ForwardInv
<1>13. ASSUME NEW t \in SeekTargets, SeekLong(t)
       PROVE  ForwardInv'
  <2>1. /\ rpc = "ready" /\ rpc' = "seek" /\ pos' = read_filepos'
        /\ read_filepos <= read_filepos' /\ UNCHANGED <<got, fpc>>
    BY <1>13 DEF SeekLong, filler, call
  <2>2. read_filepos' \in Nat
    BY ReaderTypeStep DEF CountersOK
  <2>3. got = <<>>
    BY <2>1 DEF ForwardInv, Delivered
  <2>4. NeverAhead' /\ Claim'
    BY <1>0, <1>1, <2>1, <2>2 DEF NeverAhead, Claim
  <2>5. Delivered'
    <3>1. rpc' = "seek" /\ got' = <<>>
      BY <2>1, <2>3
    <3>2. \A n \in Nat : n + Len(<<>>) = n
      OBVIOUS
    <3>3. pos' + Len(got') = read_filepos'
      BY <2>1, <2>2, <3>1, <3>2, Zenon
    <3>4. QED BY <3>1, <3>3 DEF Delivered
  <2>6. QED BY <2>4, <2>5 DEF ForwardInv
<1>14. ~Reset
  BY DEF Reset
<1>15. QED
  BY <1>3, <1>4, <1>5, <1>6, <1>7, <1>8, <1>9, <1>10, <1>11, <1>12, <1>13,
     <1>14 DEF ReaderStep, ReaderCall, NewCall

LEMMA ForwardAlways ==
    ASSUME ~Pipe, ~BackSeeks, ~Resets
    PROVE  Spec => [](TypeInv /\ WindowInv /\ ForwardInv)
<1>1. Init => TypeInv /\ WindowInv /\ ForwardInv
  BY TypeInit, WindowInit, ForwardInit
<1>2. TypeInv /\ WindowInv /\ ForwardInv /\ [Next]_vars
          => (TypeInv /\ WindowInv /\ ForwardInv)'
  <2> SUFFICES ASSUME TypeInv, WindowInv, ForwardInv, [Next]_vars
               PROVE  ForwardInv'
    BY TypeStep, WindowStep
  <2>1. CASE FillerNext
    BY <2>1, FillerKeepsClaim
  <2>2. CASE ReaderStep \/ ReaderCall
    BY <2>2, ReaderForwardStep
  <2>3. CASE UNCHANGED vars
    <3> USE <2>3 DEF vars, shared, filler, reader, call, ForwardInv
    <3>1. NeverAhead' /\ Claim'
      BY DEF NeverAhead, Claim
    <3>2. Delivered'
      BY DEF Delivered
    <3>3. QED BY <3>1, <3>2
  <2>4. QED BY <2>1, <2>2, <2>3 DEF Next
<1>3. QED BY <1>1, <1>2, PTL DEF Spec

(* Without a lock, a reader that never seeks back is served the bytes of   *)
(* the file and nothing else, and never copies from outside of the ring,   *)
(* for every order of the filler's stores and every size.                  *)
THEOREM ForwardReaderSafe ==
    ASSUME ~Pipe, ~BackSeeks, ~Resets
    PROVE  Spec => [](DataRight /\ NoWildCopy)
<1>1. ForwardInv => DataRight /\ NoWildCopy
  BY DEF ForwardInv, Claim, Delivered, DataRight, NoWildCopy
<1>2. QED BY <1>1, ForwardAlways, PTL

(* ... and what it may seek back over is never taken: the filler lets go   *)
(* of nothing within back_size of it.                                      *)
THEOREM ForwardKeepsBack ==
    ASSUME ~Pipe, ~BackSeeks, ~Resets
    PROVE  Spec => BackBytesKept
<1>1. ASSUME TypeInv, ForwardInv, Next
      PROVE  min_filepos' > min_filepos /\ fpc # "drop"
                => min_filepos' + BackSize <= read_filepos
  <2>types. /\ min_filepos \in Nat /\ max_filepos \in Nat /\ offset \in Nat
        /\ f_read \in Nat /\ read_filepos \in Nat
    BY <1>1 DEF TypeInv, TypeOK, CountersOK
  <2>1. CASE PlanRead
    <3>1. fpc = "plan" /\ min_filepos' = NewMin /\ Free >= FillLimit
      BY <2>1 DEF PlanRead
    <3>2. offset <= max_filepos /\ max_filepos - offset < BufferSize
      BY <1>1, <3>1 DEF TypeInv, FillerInv, AtRest
    <3>3. NewMin \in Nat /\ (min_filepos < NewMin => NewMin + BackSize <= f_read)
      BY <2>types, <3>1, <3>2, SpaceFits
    <3>4. f_read <= read_filepos
      BY <1>1, <3>1 DEF ForwardInv, NeverAhead
    <3>5. QED BY <2>types, <3>1, <3>3, <3>4, Sizes
  <2>2. CASE fpc = "drop"
    BY <2>2
  <2>3. CASE \/ FillStart \/ DropSeek \/ PlanFull \/ ReadByte \/ ReadDone \/ FillEnd
             \/ \E field \in {"eof", "max", "offset"} : Publish(field)
    <3>1. min_filepos' = min_filepos
      BY <2>3 DEF FillStart, DropSeek, PlanFull, ReadByte, ReadDone, FillEnd,
                  Publish, shared
    <3>2. QED BY <2>types, <3>1
  <2>4. ASSUME NEW field \in {"offset", "min", "max"}, DropStore(field)
        PROVE  fpc = "drop"
    BY <2>4 DEF DropStore
  <2>5. CASE ReaderStep
    <3>1. min_filepos' = min_filepos
      BY <2>5 DEF ReaderStep, PrefillDone, SeekClearEof, CheckMax, CheckMin,
         WaitEof, WaitRetry, CountNew, Locate, CopyByte, Advance, Return, shared
    <3>2. QED BY <2>types, <3>1
  <2>6. CASE ReaderCall
    <3>1. min_filepos' = min_filepos
      BY <2>6 DEF ReaderCall, NewCall, FillBuffer, Reset, Uninit, WaitInterrupt,
                  SeekInBuf, SeekLong, shared
    <3>2. QED BY <2>types, <3>1
  <2>7. QED
    BY <1>1, <2>1, <2>2, <2>3, <2>4, <2>5, <2>6 DEF Next, FillerNext
<1>2. TypeInv /\ ForwardInv /\ [Next]_vars
         => [min_filepos' > min_filepos /\ fpc # "drop"
               => min_filepos' + BackSize <= read_filepos]_vars
  BY <1>1
<1>3. QED BY <1>2, ForwardAlways, PTL DEF Spec, BackBytesKept

-----------------------------------------------------------------------------
(* The cache in front of a file is the file.  What is still missing is the *)
(* end: that no bytes are delivered from past it.  The window ends with    *)
(* the file at the latest, unless it is empty after a seek past the end.   *)

EndOfWindow ==
    fpc \notin {"drop", "dead"} =>
        WindowEnd <= FileSize \/ WindowEnd <= min_filepos

GotInFile ==
    /\ got # <<>> => pos + Len(got) <= FileSize
    /\ rpc = "return" => Len(got) <= SectorSize

LEMMA EndStep ==
    ASSUME ~Pipe, TypeInv, WindowInv, EndOfWindow, [Next]_vars
    PROVE  EndOfWindow'
<1>0. FileSize \in Nat
  BY SizeAssumption
<1>types. /\ min_filepos \in Nat /\ max_filepos \in Nat /\ offset \in Nat
          /\ f_read \in Nat /\ f_len \in Nat /\ device \in Nat
  BY DEF TypeInv, TypeOK, CountersOK
<1> USE <1>0, <1>types
<1>1. CASE FillStart \/ PlanFull
  <2>1. /\ UNCHANGED <<min_filepos, max_filepos>>
        /\ fpc \in {"fill", "plan"} /\ fpc' \in {"fill", "plan", "drop"}
    BY <1>1 DEF FillStart, PlanFull, shared
  <2>2. QED BY <2>1 DEF EndOfWindow, WindowEnd
<1>2. ASSUME NEW field \in {"offset", "min", "max"}, DropStore(field)
      PROVE  EndOfWindow'
  BY <1>2 DEF DropStore, EndOfWindow
<1>3. CASE DropSeek
  <2>1. min_filepos' = f_read /\ max_filepos' = f_read /\ fpc' = "plan"
    BY <1>3 DEF DropSeek, TypeInv, FillerInv, Dropping, shared
  <2>2. QED BY <2>1 DEF EndOfWindow, WindowEnd
<1>4. CASE PlanRead
  <2>1. NewMin \in Nat /\ min_filepos <= NewMin
    BY <1>4, SpaceFits DEF PlanRead, TypeInv, FillerInv, AtRest
  <2>2. /\ max_filepos' = max_filepos /\ min_filepos' = NewMin /\ f_len' = 0
        /\ fpc = "plan" /\ fpc' = "read"
    BY <1>4 DEF PlanRead
  <2>3. QED BY <2>1, <2>2 DEF EndOfWindow, WindowEnd
<1>5. CASE ReadByte
  <2>1. /\ UNCHANGED <<min_filepos, max_filepos>> /\ f_len' = f_len + 1
        /\ fpc = "read" /\ fpc' = "read" /\ device < FileSize
    BY <1>5 DEF ReadByte
  <2>2. device = max_filepos + f_len
    BY <2>1 DEF WindowInv, WindowEnd
  <2>3. QED BY <2>1, <2>2 DEF EndOfWindow, WindowEnd
<1>6. CASE ReadDone
  <2>1. /\ UNCHANGED <<min_filepos, max_filepos, f_len>>
        /\ fpc = "read" /\ fpc' = "publish" /\ "max" \in pending'
    BY <1>6 DEF ReadDone, shared, locals
  <2>2. QED BY <2>1 DEF EndOfWindow, WindowEnd, OldMax
<1>7. ASSUME NEW field \in {"eof", "max", "offset"}, Publish(field)
      PROVE  EndOfWindow'
  <2>1. /\ UNCHANGED <<min_filepos, f_len>>
        /\ fpc = "publish" /\ fpc' = "publish"
        /\ field \in pending /\ pending' = pending \ {field}
        /\ max_filepos' = IF field = "max" THEN max_filepos + f_len
                          ELSE max_filepos
    BY <1>7 DEF Publish, locals
  <2>2. OldMax' = OldMax
    BY <2>1 DEF OldMax
  <2>3. QED BY <2>1, <2>2 DEF EndOfWindow, WindowEnd
<1>8. CASE FillEnd
  <2>1. /\ UNCHANGED <<min_filepos, max_filepos>>
        /\ fpc = "publish" /\ pending = {} /\ fpc' = "fill"
    BY <1>8 DEF FillEnd, shared
  <2>2. QED BY <2>1 DEF EndOfWindow, WindowEnd, OldMax
<1>9. CASE ReaderStep \/ ReaderCall \/ UNCHANGED vars
  <2>1. /\ UNCHANGED <<min_filepos, max_filepos, f_len, pending>>
        /\ fpc' = fpc \/ fpc' = "dead"
    <3>1. CASE ReaderStep
      BY <3>1 DEF ReaderStep, PrefillDone, SeekClearEof, CheckMax, CheckMin,
         WaitEof, WaitRetry, CountNew, Locate, CopyByte, Advance, Return,
         shared, filler
    <3>2. CASE FillBuffer \/ Reset \/ Uninit \/ WaitInterrupt
      BY <3>2 DEF FillBuffer, Reset, Uninit, WaitInterrupt, shared, filler,
                  locals
    <3>3. CASE \E t \in SeekTargets : SeekInBuf(t) \/ SeekLong(t)
      BY <3>3 DEF SeekInBuf, SeekLong, shared, filler
    <3>4. CASE UNCHANGED vars
      BY <3>4 DEF vars, shared, filler
    <3>5. QED BY <1>9, <3>1, <3>2, <3>3, <3>4 DEF ReaderCall, NewCall
  <2>2. QED BY <2>1 DEF EndOfWindow, WindowEnd, OldMax
<1>10. QED
  BY <1>1, <1>2, <1>3, <1>4, <1>5, <1>6, <1>7, <1>8, <1>9 DEF Next, FillerNext

LEMMA GotStep ==
    ASSUME TypeInv, WindowInv, ForwardInv, EndOfWindow, GotInFile, ~Resets,
           [Next]_vars
    PROVE  GotInFile'
<1>0. FileSize \in Nat /\ SectorSize \in Nat
  BY SizeAssumption
<1>types. /\ min_filepos \in Nat /\ max_filepos \in Nat
          /\ read_filepos \in Nat /\ f_read \in Nat /\ copied \in Nat /\ len \in Int
          /\ pos \in Nat /\ f_len \in Nat /\ got \in Seq(Bytes)
  BY DEF TypeInv, TypeOK, CountersOK, SectorsOK
<1>1. Len(got) \in Nat
  BY <1>types
<1>2. CASE UNCHANGED <<got, pos, rpc>>
  BY <1>2 DEF GotInFile
<1>3. CASE FillerNext \/ UNCHANGED vars
  BY <1>2, <1>3 DEF FillerNext, FillStart, DropStore, DropSeek, PlanFull,
       PlanRead, ReadByte, ReadDone, Publish, FillEnd, reader, vars
<1>4. CASE \/ PrefillDone \/ CheckMax \/ CheckMin \/ CountNew \/ WaitRetry
           \/ Uninit
  BY <1>4 DEF PrefillDone, CheckMax, CheckMin, CountNew, WaitRetry, Uninit,
              GotInFile
<1>5. CASE SeekClearEof \/ FillBuffer
  BY <1>5 DEF SeekClearEof, FillBuffer, GotInFile
<1>6. CASE WaitEof \/ WaitInterrupt
  <2>1. rpc = "wait" /\ UNCHANGED <<got, pos>>
    BY <1>6 DEF WaitEof, WaitInterrupt
  <2>2. Len(got) < SectorSize
    BY <2>1 DEF ForwardInv, Claim
  <2>3. QED BY <1>0, <1>1, <2>1, <2>2 DEF GotInFile
<1>7. CASE Locate
  BY <1>7 DEF Locate, GotInFile
<1>8. CASE CopyByte
  <2> DEFINE b == buffer[cell + copied]
  <2>1. /\ rpc = "copy" /\ rpc' = "copy" /\ copied < len
        /\ got' = Append(got, b) /\ pos' = pos
    BY <1>8 DEF CopyByte
  <2>2. /\ read_filepos + len <= max_filepos /\ 1 <= len
        /\ pos + Len(got) = read_filepos + copied
    BY <2>1 DEF ForwardInv, Claim, Delivered
  <2>3. fpc \notin {"drop", "dead"} /\ min_filepos <= read_filepos
    BY <1>types, <2>1, <2>2 DEF ForwardInv, NeverAhead
  <2>4. max_filepos <= WindowEnd /\ WindowEnd \in Int
    BY <1>types DEF WindowEnd, OldMax
  <2>5. WindowEnd <= FileSize
    BY <1>0, <1>types, <2>2, <2>3, <2>4 DEF EndOfWindow
  <2>6. pos + (Len(got) + 1) <= FileSize
    BY <1>0, <1>1, <1>types, <2>1, <2>2, <2>4, <2>5
  <2>7. Len(got') = Len(got) + 1
    <3>1. b \in Bytes
      <4>1. cell + copied \in Cells
        BY <1>types, <2>1, Sizes DEF TypeInv, Copying, Cells
      <4>2. QED BY <4>1 DEF TypeInv, TypeOK, CellsOK
    <3>2. QED BY <1>types, <2>1, <3>1
  <2>8. QED BY <2>1, <2>6, <2>7 DEF GotInFile
<1>9. CASE Advance
  BY <1>0, <1>9 DEF Advance, GotInFile
<1>10. CASE Return
  BY <1>10 DEF Return, GotInFile
<1>11. ASSUME NEW t \in SeekTargets, SeekInBuf(t)
       PROVE  GotInFile'
  BY <1>11 DEF SeekInBuf, GotInFile
<1>12. ASSUME NEW t \in SeekTargets, SeekLong(t)
       PROVE  GotInFile'
  <2>1. rpc = "ready" /\ rpc' = "seek" /\ got' = got
    BY <1>12 DEF SeekLong, call
  <2>2. got = <<>>
    BY <2>1 DEF ForwardInv, Delivered
  <2>3. QED BY <2>1, <2>2 DEF GotInFile
<1>13. ~Reset
  BY DEF Reset
<1>14. QED
  BY <1>3, <1>4, <1>5, <1>6, <1>7, <1>8, <1>9, <1>10, <1>11, <1>12, <1>13
     DEF Next, ReaderStep, ReaderCall, NewCall

(* Each step of the reader is one of ByteStream's, or none.                *)
LEMMA ReaderReads ==
    ASSUME TypeInv, ForwardInv, ForwardInv', GotInFile, ~Resets,
           ReaderStep \/ ReaderCall
    PROVE  [File!ByteNext]_(File!bvars)
<1> DEFINE held == IF rpc \in InCall THEN <<>> ELSE buf
<1>1. CASE /\ held' = held /\ UNCHANGED <<pos, s_eof>>
  BY <1>1 DEF File!bvars
<1>2. CASE \/ PrefillDone \/ SeekClearEof \/ CheckMax \/ CheckMin \/ WaitEof
           \/ WaitRetry \/ WaitInterrupt \/ CountNew \/ Locate \/ CopyByte
           \/ Advance \/ Uninit
  <2>1. UNCHANGED <<pos, s_eof, buf>>
    BY <1>2 DEF PrefillDone, SeekClearEof, CheckMax, CheckMin, WaitEof,
         WaitRetry, WaitInterrupt, CountNew, Locate, CopyByte, Advance, Uninit
  <2>2. CASE ~ Locate
    <3>1. rpc \in InCall <=> rpc' \in InCall
      BY <1>2, <2>2 DEF PrefillDone, SeekClearEof, CheckMax, CheckMin, WaitEof,
           WaitRetry, WaitInterrupt, CountNew, CopyByte, Advance, Uninit, InCall
    <3>2. QED BY <1>1, <2>1, <3>1
  <2>3. CASE Locate /\ rpc' = "copy"
    BY <1>1, <2>1, <2>3 DEF Locate, InCall
  <2>4. CASE Locate /\ rpc' # "copy"
    <3>1. FALSE
      BY <2>4 DEF Locate, ForwardInv, Claim
    <3>2. QED BY <3>1
  <2>5. QED BY <2>2, <2>3, <2>4
<1>3. CASE FillBuffer
  <2>1. rpc' \in InCall /\ UNCHANGED <<pos, s_eof>>
    BY <1>3 DEF FillBuffer, InCall
  <2>2. QED BY <2>1 DEF File!ByteNext, File!Consume
<1>4. ASSUME NEW t \in SeekTargets, SeekInBuf(t)
      PROVE  File!ByteNext
  <2>1. rpc' = rpc /\ buf' = buf /\ pos' = pos /\ s_eof' = FALSE
    BY <1>4 DEF SeekInBuf
  <2>2. QED BY <2>1 DEF File!ByteNext, File!SeekInSector
<1>5. ASSUME NEW t \in SeekTargets, SeekLong(t)
      PROVE  File!ByteNext
  <2>1. rpc' \in InCall /\ s_eof' = s_eof /\ pos' = (t \div SectorSize) * SectorSize
    BY <1>5 DEF SeekLong, InCall, Align
  <2>2. QED BY <2>1 DEF File!ByteNext, File!Seek
<1>6. CASE Return
  <2>1. /\ rpc \in InCall /\ rpc' \notin InCall
        /\ buf' = got /\ pos' = pos + Len(got) /\ s_eof' = (got = <<>>)
        /\ rpc = "return"
    BY <1>6 DEF Return, InCall
  <2>2. got \in Seq(Bytes) /\ pos \in Nat
    BY DEF TypeInv, TypeOK, SectorsOK, CountersOK
  <2>3. CASE got = <<>>
    <3>1. s_eof' = TRUE
      BY <2>1, <2>3, Zenon
    <3>2. pos' = pos
      <4>1. \A n \in Nat : n + Len(<<>>) = n
        OBVIOUS
      <4>2. pos' = pos + Len(<<>>)
        BY <2>1, <2>3, Zenon
      <4>3. QED BY <2>2, <4>1, <4>2, Zenon
    <3>3. QED BY <2>1, <2>3, <3>1, <3>2 DEF File!ByteNext, File!End
  <2>4. CASE got # <<>>
    <3> DEFINE n == Len(got)
    <3>1. n \in 1 .. SectorSize /\ pos + n <= FileSize
      BY <2>1, <2>2, <2>4, Sizes DEF GotInFile
    <3>2. got = [i \in 1 .. n |-> pos + i - 1]
      <4>1. \A i \in 1 .. n : got[i] = pos + i - 1
        BY DEF ForwardInv, Delivered
      <4>2. QED BY <2>2, <4>1
    <3>3. s_eof' = FALSE
      BY <2>1, <2>4
    <3>4. QED BY <2>1, <3>1, <3>2, <3>3 DEF File!ByteNext, File!Deliver
  <2>5. QED BY <2>3, <2>4
<1>7. ~Reset
  BY DEF Reset
<1>8. QED
  BY <1>2, <1>3, <1>4, <1>5, <1>6, <1>7 DEF ReaderStep, ReaderCall, NewCall

(* The cache implements the file: cache_fill, cache_read and               *)
(* cache_stream_seek_long between them show a reader that never seeks back *)
(* what it would see of the file alone, whatever the sizes and however     *)
(* their accesses to shared memory fall.                                   *)
THEOREM CacheImplementsFile ==
    ASSUME ~Pipe, ~BackSeeks, ~Resets
    PROVE  Spec => ReadsAsFile
<1>1. Init => EndOfWindow /\ GotInFile
  BY SizeAssumption DEF Init, EndOfWindow, GotInFile, WindowEnd
<1>2. TypeInv /\ WindowInv /\ ForwardInv /\ EndOfWindow /\ GotInFile
         /\ [Next]_vars => EndOfWindow' /\ GotInFile'
  BY EndStep, GotStep
<1>3. Init => File!ByteInit
  BY DEF Init, File!ByteInit, InCall
<1>4. TypeInv /\ WindowInv /\ ForwardInv /\ GotInFile /\ [Next]_vars
         => [File!ByteNext]_(File!bvars)
  <2> SUFFICES ASSUME TypeInv, WindowInv, ForwardInv, GotInFile, [Next]_vars
               PROVE  [File!ByteNext]_(File!bvars)
    OBVIOUS
  <2>1. CASE FillerNext \/ UNCHANGED vars
    <3>1. UNCHANGED <<rpc, pos, s_eof, buf>>
      BY <2>1 DEF FillerNext, FillStart, DropStore, DropSeek, PlanFull,
           PlanRead, ReadByte, ReadDone, Publish, FillEnd, reader, vars
    <3>2. QED BY <3>1 DEF File!bvars
  <2>2. CASE ReaderStep \/ ReaderCall
    BY <2>2, ReaderForwardStep, ReaderReads
  <2>3. QED BY <2>1, <2>2 DEF Next
<1>5. QED BY <1>1, <1>2, <1>3, <1>4, ForwardAlways, PTL
             DEF Spec, ReadsAsFile, File!ByteSpec
==============================================================================
