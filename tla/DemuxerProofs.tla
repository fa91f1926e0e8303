---------------------------- MODULE DemuxerProofs ----------------------------
(* Theorems about Demuxer, for every file, every limit on the queues and      *)
(* every number of seeks and switches.                                        *)
EXTENDS Demuxer, FiniteSetTheorems, WellFoundedInduction, TLAPS

-----------------------------------------------------------------------------
(* The packet in hand: there is none while ds_fill_buffer looks for one, and  *)
(* there is one wherever some of it is still to be given.                     *)

CountOK == \A s \in Streams : packs[s] = Len(queue[s])

FillOK ==
    /\ ~Idle /\ call.at = "fill" => current[call.s] = 0
    /\ ~Idle /\ call.at = "filled" => current[call.s] > 0 /\ pos[call.s] = 0

PosOK ==
    \A s \in Streams : pos[s] < size[s] =>
        current[s] > 0 \/ (~Idle /\ call.s = s /\ call.at = "fill")

BaseInv == TypeOK /\ CountOK /\ FillOK /\ PosOK

(* The queues: what is in them was read, in the order of the file, and the    *)
(* packet in hand comes before them.                                          *)

Ordered(q) == \A i, j \in 1 .. Len(q) : i < j => q[i] < q[j]

QueueOK(s) ==
    /\ Ordered(queue[s])
    /\ \A i \in 1 .. Len(queue[s]) : queue[s][i] < filepos /\ current[s] < queue[s][i]
    /\ current[s] < filepos

QueueInv == \A s \in Streams : QueueOK(s)

(* The reader: what it has still to be given of the packets read from the     *)
(* file is in the queue or in hand.                                           *)

\* The packet in hand is still to be given, or the rest of it.
Ready(s) ==
    /\ current[s] > 0
    /\ pos[s] < size[s] \/ (~Idle /\ call.s = s /\ call.at = "filled")

ReadyOK(s) ==
    /\ file[current[s]].track = sh[s]
    /\ size[s] = file[current[s]].len
    /\ current[s] >= nextU[s]
    /\ pos[s] = nextB[s]
    /\ nextB[s] > 0 => current[s] = nextU[s]

QueuedOK(s) ==
    \A i \in 1 .. Len(queue[s]) :
        file[queue[s][i]].track = sh[s] /\ queue[s][i] >= nextU[s]

\* A packet that was read once the track was turned off, and all before it.
After(s, p) ==
    /\ id[s] # sh[s]
    /\ \A q \in Elems(queue[s]) : q < p
    /\ Ready(s) => current[s] < p

NoneLost(s) ==
    \A p \in nextU[s] .. filepos - 1 : file[p].track = sh[s] =>
        p \in Elems(queue[s]) \/ (Ready(s) /\ p = current[s]) \/ After(s, p)

ReaderOK(s) ==
    /\ nextU[s] <= filepos /\ id[s] \in {sh[s], NoTrack}
    /\ s \in Whole /\ Ready(s) => ~Idle /\ call.s = s /\ call.at = "filled"
    /\ sh[s] # NoTrack =>
        /\ QueuedOK(s)
        /\ NoneLost(s)
        /\ Ready(s) => ReadyOK(s)
        /\ ~Ready(s) => nextB[s] = 0

\* Which calls are made on which stream.
CallInv ==
    /\ nextB["sub"] = 0
    /\ ~Idle =>
        /\ sh[call.s] # NoTrack
        /\ call.op = "get2" => call.s \in Whole
        /\ call.op = "fill" => call.s \in Filled
        /\ call.op \in {"data", "pattern"} => call.s # "sub"
        /\ call.s \in Whole => call.op \in {"get2", "fill", "peek"} \/ call.s = "sub"

ReaderInv == CallInv /\ \A s \in Streams : ReaderOK(s)

-----------------------------------------------------------------------------
(* Types.                                                                     *)

LEMMA StreamsFinite ==
    ASSUME NEW S \in SUBSET Streams
    PROVE  IsFiniteSet(S) /\ Cardinality(S) \in Nat
<1>1. IsFiniteSet({})
  BY FS_EmptySet
<1>2. IsFiniteSet({"audio"}) /\ IsFiniteSet({"audio", "video"})
  <2>1. IsFiniteSet({} \cup {"audio"}) BY <1>1, FS_AddElement
  <2>2. IsFiniteSet({"audio"}) BY <2>1
  <2>3. IsFiniteSet({"audio"} \cup {"video"}) BY <2>2, FS_AddElement
  <2>4. {"audio"} \cup {"video"} = {"audio", "video"} OBVIOUS
  <2>5. QED BY <2>2, <2>3, <2>4
<1>3. IsFiniteSet(Streams)
  <2>1. IsFiniteSet({"audio", "video"} \cup {"sub"}) BY <1>2, FS_AddElement
  <2>2. {"audio", "video"} \cup {"sub"} = Streams BY DEF Streams
  <2>3. QED BY <2>1, <2>2
<1>4. IsFiniteSet(S)
  BY <1>3, FS_Subset
<1>5. QED BY <1>4, FS_CardinalityType

LEMMA TypeInit == Init => TypeOK
<1> SUFFICES ASSUME Init PROVE TypeOK
  OBVIOUS
<1> USE SizeAssumption
<1>1. CallOK
  BY DEF Init, CallOK, Streams
<1>2. file \in Files /\ filepos \in 1 .. Size + 1 /\ id \in [Streams -> Tracks \union {NoTrack}]
  BY DEF Init
<1>3. queue \in [Streams -> Seq(Units)]
  BY DEF Init
<1>4. QED BY <1>1, <1>2, <1>3 DEF Init, TypeOK, Streams

LEMMA FileTypes ==
    ASSUME TypeOK, NEW p \in Units
    PROVE  file[p].track \in Tracks /\ file[p].len \in Nat
BY FileAssumption DEF TypeOK

LEMMA DemuxTypes ==
    ASSUME TypeOK, DemuxOne
    PROVE  /\ filepos \in Units /\ filepos' = filepos + 1 /\ filepos' \in 1 .. Size + 1
           /\ queue' \in [Streams -> Seq(Units)]
           /\ packs' \in [Streams -> Nat] /\ bytes' \in [Streams -> Int]
           /\ refs' \in [Units -> Int] /\ file' = file
<1> USE SizeAssumption
<1>1. filepos \in Units /\ filepos' = filepos + 1 /\ filepos' \in 1 .. Size + 1 /\ file' = file
  BY DEF DemuxOne, TypeOK, Units
<1>2. file[filepos].len \in Nat
  BY <1>1, FileTypes
<1>3. Receivers(filepos) \in SUBSET Streams
  BY DEF Receivers
<1>4. Cardinality(Receivers(filepos)) \in Nat
  BY <1>3, StreamsFinite
<1>5. refs' \in [Units -> Int]
  <2>1. refs \in [Units -> Int]
    BY DEF TypeOK
  <2>2. refs' = [refs EXCEPT ![filepos] = Cardinality(Receivers(filepos))]
    BY DEF DemuxOne
  <2>3. Cardinality(Receivers(filepos)) \in Int
    BY <1>4
  <2>4. \A c \in Int : [refs EXCEPT ![filepos] = c] \in [Units -> Int]
    BY <2>1
  <2>5. QED BY <2>2, <2>3, <2>4 
<1>6. queue' \in [Streams -> Seq(Units)]
  <2>1. \A s \in Streams : queue[s] \in Seq(Units) /\ Append(queue[s], filepos) \in Seq(Units)
    BY <1>1 DEF TypeOK
  <2>2. QED BY <2>1 DEF DemuxOne
<1>7. packs' \in [Streams -> Nat]
  BY DEF DemuxOne, TypeOK
<1>8. bytes' \in [Streams -> Int]
  BY <1>2 DEF DemuxOne, TypeOK
<1>9. QED BY <1>1, <1>5, <1>6, <1>7, <1>8

LEMMA FreeTypes ==
    ASSUME TypeOK, NEW S \in SUBSET Streams, FreePacks(S)
    PROVE  /\ queue' \in [Streams -> Seq(Units)]
           /\ packs' \in [Streams -> Nat] /\ bytes' \in [Streams -> Int]
           /\ current' \in [Streams -> 0 .. Size]
           /\ pos' \in [Streams -> Nat] /\ size' = size
           /\ \A s \in Streams : pos'[s] <= size[s]
           /\ refs' \in [Units -> Int]
           /\ told' \in [Streams -> 0 .. Size]
<1> USE SizeAssumption
<1>1. queue' \in [Streams -> Seq(Units)]
  BY DEF FreePacks, TypeOK
<1>2. packs' \in [Streams -> Nat] /\ bytes' \in [Streams -> Int]
  BY DEF FreePacks, TypeOK
<1>3. current' \in [Streams -> 0 .. Size] /\ told' \in [Streams -> 0 .. Size]
  BY DEF FreePacks, TypeOK
<1>4. pos' \in [Streams -> Nat] /\ size' = size /\ \A s \in Streams : pos'[s] <= size[s]
  BY DEF FreePacks, TypeOK
<1>5. refs' \in [Units -> Int]
  <2>1. \A p \in Units : S \cap Holders(p) \in SUBSET Streams
    OBVIOUS
  <2>2. \A p \in Units : Cardinality(S \cap Holders(p)) \in Int
    BY <2>1, StreamsFinite
  <2>3. refs \in [Units -> Int]
    BY DEF TypeOK
  <2>4. refs' = [p \in Units |-> refs[p] - Cardinality(S \cap Holders(p))]
    BY DEF FreePacks
  <2>5. QED BY <2>2, <2>3, <2>4
<1>6. QED BY <1>1, <1>2, <1>3, <1>4, <1>5

LEMMA ReturnType ==
    ASSUME NEW s \in Streams, NEW p \in -1 .. Size, NEW said \in 0 .. Size,
           Return(s, p, said)
    PROVE  CallOK'
BY DEF Return, CallOK

LEMMA BeginTypes ==
    ASSUME TypeOK, NEW op \in Calls, NEW s \in Streams, NEW want \in Nat, Begin(op, s, want)
    PROVE  TypeOK'
<1>1. CallOK'
  BY DEF Begin, CallOK, Running
<1>2. QED BY <1>1 DEF Begin, TypeOK, fileVars, dsVars, readerVars

LEMMA ReadTypes ==
    ASSUME TypeOK, (\E s \in Streams : Read(s)) \/ GetPacketSub
    PROVE  TypeOK'
<1> USE ReaderAssumption, SizeAssumption
<1>1. ASSUME NEW s \in Streams, RepeatLast(s)
      PROVE  TypeOK'
  <2>1. pos' \in [Streams -> Nat] /\ \A r \in Streams : pos'[r] <= size[r]
    BY <1>1 DEF RepeatLast, TypeOK
  <2>2. current[s] \in -1 .. Size
    BY DEF TypeOK
  <2>3. CallOK'
    BY <1>1, <2>2, ReturnType DEF RepeatLast
  <2>4. QED BY <1>1, <2>1, <2>3 DEF RepeatLast, TypeOK, fileVars, readerVars
<1>2. ASSUME NEW s \in Streams, Read(s), ~RepeatLast(s)
      PROVE  TypeOK'
  <2>1. PICK op \in Calls, want \in Nat : Begin(op, s, want)
    BY <1>2 DEF Read, GetPacket, GetPacket2, ReadData, Pattern3, FillDirectly,
                GetNextPts, Calls
  <2>2. QED BY <2>1, BeginTypes
<1>3. CASE GetPacketSub
  <2>1. "sub" \in Streams /\ -1 \in -1 .. Size /\ 0 \in 0 .. Size
    BY DEF Streams
  <2>2. CASE pos["sub"] >= size["sub"] /\ packs["sub"] = 0
    <3>1. CallOK'
      BY <1>3, <2>1, <2>2, ReturnType DEF GetPacketSub
    <3>2. QED BY <1>3, <2>2, <3>1 DEF GetPacketSub, TypeOK, fileVars, dsVars, readerVars
  <2>3. CASE ~(pos["sub"] >= size["sub"] /\ packs["sub"] = 0)
    BY <1>3, <2>1, <2>3, BeginTypes DEF GetPacketSub, Calls
  <2>4. QED BY <2>2, <2>3
<1>4. QED BY <1>1, <1>2, <1>3

LEMMA TakeTypes ==
    ASSUME TypeOK, CountOK, FillTake
    PROVE  TypeOK'
<1> DEFINE s == call.s
           p == Head(queue[s])
<1>1. s \in Streams /\ call.op \in Calls /\ call.at = "fill" /\ call.want \in Nat
  BY DEF TypeOK, CallOK, FillTake, Idle
<1>2. queue[s] \in Seq(Units) /\ Len(queue[s]) > 0
  BY <1>1 DEF FillTake, CountOK, TypeOK
<1>3. p \in Units /\ Tail(queue[s]) \in Seq(Units)
  BY <1>2
<1>4. file[p].len \in Nat
  BY <1>3, FileTypes
<1>5. p \in 0 .. Size /\ p + 1 \in 1 .. Size + 1
  BY <1>3, SizeAssumption DEF Units
<1>6. UNCHANGED <<file, filepos, refs, id, sh, told, nextB, turns>>
  BY DEF FillTake, fileVars
<1> HIDE DEF s, p
<1>7. /\ current' = [current EXCEPT ![s] = p]
      /\ pos' = [pos EXCEPT ![s] = 0]
      /\ size' = [size EXCEPT ![s] = file[p].len]
      /\ queue' = [queue EXCEPT ![s] = Tail(queue[s])]
      /\ packs' = [packs EXCEPT ![s] = packs[s] - 1]
      /\ bytes' = [bytes EXCEPT ![s] = bytes[s] - file[p].len]
      /\ eof' = [eof EXCEPT ![s] = FALSE]
      /\ nextU' \in {nextU, [nextU EXCEPT ![s] = p + 1]}
      /\ \/ call.op = "fill" /\ Return(s, -1, 0)
         \/ call.op # "fill" /\ call' = [call EXCEPT !.at = "filled"]
      /\ packs[s] > 0
  <2>1. nextU' \in {nextU, [nextU EXCEPT ![s] = p + 1]}
    BY DEF FillTake, TypeOK, s, p
  <2>2. QED BY <2>1 DEF FillTake, s, p
<1>8. current' \in [Streams -> 0 .. Size] /\ nextU' \in [Streams -> 1 .. Size + 1]
  BY <1>1, <1>5, <1>7 DEF TypeOK
<1>9. pos' \in [Streams -> Nat] /\ size' \in [Streams -> Nat] /\ \A r \in Streams : pos'[r] <= size'[r]
  BY <1>1, <1>4, <1>7 DEF TypeOK
<1>10. queue' \in [Streams -> Seq(Units)]
  BY <1>1, <1>3, <1>7 DEF TypeOK
<1>11. packs' \in [Streams -> Nat] /\ bytes' \in [Streams -> Int]
  <2>1. packs \in [Streams -> Nat] /\ bytes \in [Streams -> Int]
    BY DEF TypeOK
  <2>2. packs[s] - 1 \in Nat /\ bytes[s] - file[p].len \in Int
    BY <1>1, <1>4, <1>7, <2>1
  <2>3. QED BY <1>1, <1>7, <2>1, <2>2
<1>12. eof' \in [Streams -> BOOLEAN]
  BY <1>1, <1>7 DEF TypeOK
<1>13. CallOK'
  <2>1. CASE call.op = "fill" /\ Return(s, -1, 0)
    <3>1. -1 \in -1 .. Size /\ 0 \in 0 .. Size
      BY SizeAssumption
    <3>2. QED BY <1>1, <2>1, <3>1, ReturnType
  <2>2. CASE call.op # "fill" /\ call' = [call EXCEPT !.at = "filled"]
    <3>1. /\ call \in [op : Calls, s : Streams, at : {"start", "fill", "filled"}, want : Nat]
          /\ call.op # "peek"
      BY <1>1 DEF TypeOK, CallOK, FillTake, Idle
    <3>2. QED BY <2>2, <3>1 DEF CallOK
  <2>3. QED BY <1>7, <2>1, <2>2
<1>14. QED BY <1>6, <1>8, <1>9, <1>10, <1>11, <1>12, <1>13 DEF TypeOK

LEMMA RunningType ==
    ASSUME TypeOK, ~Idle
    PROVE  /\ call \in [op : Calls, s : Streams, at : {"start", "fill", "filled"}, want : Nat]
           /\ call.s \in Streams /\ call.op \in Calls /\ call.want \in Nat
BY DEF TypeOK, CallOK, Idle

LEMMA FillTypes ==
    ASSUME TypeOK, StartFill \/ FillDemux \/ FillEof
    PROVE  TypeOK'
<1> USE SizeAssumption
<1> DEFINE s == call.s
<1>1. s \in Streams /\ call.op \in Calls
  BY RunningType DEF StartFill, FillDemux, FillEof, Hungry, NoMore
<1> HIDE DEF s
<1>2. CASE StartFill
  <2>1. current[s] \in 0 .. Size
    BY <1>1 DEF TypeOK
  <2>2. current' = [current EXCEPT ![s] = 0] /\ current' \in [Streams -> 0 .. Size]
    BY <1>1, <1>2 DEF StartFill, TypeOK, s
  <2>3. refs' \in [Units -> Int]
    <3>1. refs' = [p \in Units |-> IF p = current[s] THEN refs[p] - 1 ELSE refs[p]]
      BY <1>2 DEF StartFill, s
    <3>2. QED BY <3>1 DEF TypeOK
  <2>4. current[s] + 1 \in 1 .. Size + 1 /\ 0 \in 0 .. Size
    BY <2>1
  <2>5. nextU' \in [Streams -> 1 .. Size + 1]
    BY <1>1, <1>2, <2>4 DEF StartFill, TypeOK, s
  <2>6. nextB' \in [Streams -> Nat] /\ told' \in [Streams -> 0 .. Size]
    BY <1>1, <1>2, <2>4 DEF StartFill, TypeOK, s
  <2>7. CallOK'
    <3>1. ~Idle /\ call.op # "peek" /\ call' = [call EXCEPT !.at = "fill"]
      BY <1>2 DEF StartFill
    <3>2. QED BY <3>1, RunningType DEF CallOK
  <2>8. UNCHANGED <<file, filepos, id, sh, queue, packs, bytes, pos, size, eof, turns>>
    BY <1>2 DEF StartFill
  <2>9. QED BY <2>2, <2>3, <2>5, <2>6, <2>7, <2>8 DEF TypeOK
<1>3. CASE FillDemux
  <2>1. UNCHANGED <<id, sh, current, pos, size, eof, call, told, nextU, nextB, turns>>
    BY <1>3 DEF FillDemux, readerVars
  <2>2. DemuxOne
    BY <1>3 DEF FillDemux
  <2>3. CallOK'
    BY <2>1 DEF TypeOK, CallOK
  <2>4. QED BY <2>1, <2>2, <2>3, DemuxTypes DEF TypeOK
<1>4. CASE FillEof
  <2>1. UNCHANGED <<file, filepos, refs, id, sh, queue, packs, bytes, current, told,
                    nextU, nextB, turns>>
    BY <1>4 DEF FillEof, fileVars, readerVars
  <2>2. /\ pos' = [pos EXCEPT ![s] = 0] /\ size' = [size EXCEPT ![s] = 0]
        /\ eof' = [eof EXCEPT ![s] = TRUE] /\ Return(s, 0, 0)
    BY <1>4 DEF FillEof, s
  <2>3. pos' \in [Streams -> Nat] /\ size' \in [Streams -> Nat] /\ \A r \in Streams : pos'[r] <= size'[r]
    BY <1>1, <2>2 DEF TypeOK
  <2>4. eof' \in [Streams -> BOOLEAN]
    BY <2>2 DEF TypeOK
  <2>5. CallOK'
    <3>1. 0 \in -1 .. Size /\ 0 \in 0 .. Size
      OBVIOUS
    <3>2. QED BY <1>1, <2>2, <3>1, ReturnType
  <2>6. QED BY <2>1, <2>3, <2>4, <2>5 DEF TypeOK
<1>5. QED BY <1>2, <1>3, <1>4

\* A packet in hand has bytes to give, or was just put there.
InHandNow(s) == pos[s] < size[s] \/ call.at = "filled"

LEMMA GivenTypes ==
    ASSUME BaseInv, ~Idle, call.at # "fill", NEW b \in Nat, b <= size[call.s],
           InHandNow(call.s), Give(call.s, b), Forget(call.s),
           UNCHANGED <<fileVars, id, sh, queue, packs, bytes, current, size, eof, turns>>,
           CallOK'
    PROVE  TypeOK'
<1> DEFINE s == call.s
<1>1. s \in Streams /\ current[s] \in Units
  BY RunningType DEF BaseInv, FillOK, PosOK, InHandNow, TypeOK, Units
<1>2. current[s] \in 1 .. Size + 1 /\ current[s] + 1 \in 1 .. Size + 1
  BY <1>1, SizeAssumption DEF Units
<1>3. current[s] \in Units
  BY <1>1
<1> HIDE DEF s
<1>4. /\ pos' = [pos EXCEPT ![s] = b]
      /\ nextU' = [nextU EXCEPT ![s] = IF b = size[s] THEN current[s] + 1 ELSE current[s]]
      /\ nextB' = [nextB EXCEPT ![s] = IF b = size[s] THEN 0 ELSE b]
      /\ told' = [told EXCEPT ![s] = IF pos[s] = 0 THEN 0 ELSE told[s]]
      /\ UNCHANGED <<file, filepos, refs, id, sh, queue, packs, bytes, current, size, eof, turns>>
      /\ b <= size[s]
  BY DEF Give, Forget, fileVars, s
<1>5. TypeOK
  BY DEF BaseInv
<1>6. pos' \in [Streams -> Nat] /\ \A r \in Streams : pos'[r] <= size'[r]
  BY <1>1, <1>4, <1>5 DEF TypeOK
<1>7. nextU' \in [Streams -> 1 .. Size + 1]
  BY <1>1, <1>2, <1>4, <1>5 DEF TypeOK
<1>8. nextB' \in [Streams -> Nat]
  BY <1>1, <1>4, <1>5 DEF TypeOK
<1>9. told' \in [Streams -> 0 .. Size]
  BY <1>1, <1>4, <1>5, SizeAssumption DEF TypeOK
<1>10. QED BY <1>4, <1>5, <1>6, <1>7, <1>8, <1>9 DEF TypeOK

LEMMA GiveTypes ==
    ASSUME BaseInv, GiveRest \/ GiveData \/ GivePattern
    PROVE  TypeOK' /\ ~Idle /\ call.at # "fill" /\ InHandNow(call.s)
<1> DEFINE s == call.s
<1>1. TypeOK /\ ~Idle
  BY DEF BaseInv, GiveRest, GiveData, GivePattern
<1>2. /\ s \in Streams /\ call.want \in Nat
      /\ call \in [op : Calls, s : Streams, at : {"start", "fill", "filled"}, want : Nat]
  BY <1>1, RunningType
<1>3. /\ current[s] \in -1 .. Size /\ Said(s) \in 0 .. Size
      /\ size[s] \in Nat /\ pos[s] \in Nat /\ pos[s] <= size[s]
  <2>1. current[s] \in 0 .. Size /\ told[s] \in 0 .. Size
    BY <1>1, <1>2 DEF TypeOK
  <2>2. QED BY <1>1, <1>2, <2>1, SizeAssumption DEF TypeOK, Said
<1>4. call.at # "fill" /\ InHandNow(s)
  BY DEF GiveRest, GiveData, GivePattern, InHandNow, InHand
<1>5. UNCHANGED <<fileVars, id, sh, queue, packs, bytes, current, size, eof, turns>>
  BY DEF GiveRest, GiveData, GivePattern
<1>6. CASE GiveRest
  <2>1. Give(s, size[s]) /\ Forget(s) /\ Return(s, current[s], Said(s))
    BY <1>6 DEF GiveRest
  <2>2. CallOK'
    BY <1>2, <1>3, <2>1, ReturnType
  <2>3. size[s] <= size[s]
    BY <1>3
  <2>4. QED BY <1>1, <1>3, <1>4, <1>5, <2>1, <2>2, <2>3, GivenTypes
<1>7. ASSUME NEW op \in {"data", "pattern"}, NEW n \in Nat,
             n <= call.want, n <= size[s] - pos[s],
             Give(s, pos[s] + n), Forget(s),
             Return(s, current[s], Said(s)) \/ call' = Running(op, s, "start", call.want - n)
      PROVE  TypeOK'
  <2>1. CallOK'
    <3>1. CASE Return(s, current[s], Said(s))
      BY <1>2, <1>3, <3>1, ReturnType
    <3>2. CASE call' = Running(op, s, "start", call.want - n)
      <4>1. call.want - n \in Nat
        BY <1>2, <1>7
      <4>2. QED BY <1>2, <1>7, <3>2, <4>1 DEF Running, CallOK, Calls
    <3>3. QED BY <1>7, <3>1, <3>2
  <2>2. pos[s] + n \in Nat /\ pos[s] + n <= size[s]
    BY <1>3, <1>7
  <2>3. QED BY <1>1, <1>4, <1>5, <1>7, <2>1, <2>2, GivenTypes
<1>8. CASE GiveData
  <2> DEFINE n == IF size[s] - pos[s] < call.want THEN size[s] - pos[s] ELSE call.want
  <2>1. n \in Nat /\ n <= call.want /\ n <= size[s] - pos[s]
    BY <1>2, <1>3
  <2>2. /\ Give(s, pos[s] + n) /\ Forget(s)
        /\ Return(s, current[s], Said(s)) \/ call' = Running("data", s, "start", call.want - n)
    BY <1>8 DEF GiveData
  <2> HIDE DEF n
  <2>3. TypeOK'
    BY <1>7, <2>1, <2>2
  <2>4. QED BY <1>1, <1>4, <2>3
<1>9. CASE GivePattern
  <2> DEFINE most == IF size[s] - pos[s] < call.want THEN size[s] - pos[s] ELSE call.want
  <2>1. most \in Nat /\ most <= call.want /\ most <= size[s] - pos[s]
    BY <1>2, <1>3
  <2>2. PICK n \in 0 .. most :
        /\ Give(s, pos[s] + n) /\ Forget(s)
        /\ Return(s, current[s], Said(s)) \/ call' = Running("pattern", s, "start", call.want - n)
    BY <1>9 DEF GivePattern
  <2> HIDE DEF most
  <2>3. n \in Nat /\ n <= call.want /\ n <= size[s] - pos[s]
    BY <1>2, <1>3, <2>1
  <2>4. TypeOK'
    BY <1>7, <2>2, <2>3
  <2>5. QED BY <1>1, <1>4, <2>4
<1>10. TypeOK'
  BY <1>6, <1>8, <1>9
<1>11. QED BY <1>1, <1>4, <1>10

LEMMA TurnTypes ==
    ASSUME TypeOK, Turn
    PROVE  turns' \in Nat
BY DEF TypeOK, Turn

LEMMA SwitchTypes ==
    ASSUME TypeOK, NEW s \in Streams, NEW t \in Selectable(s),
           FreePacks({s}), id' = [id EXCEPT ![s] = t], sh' = [sh EXCEPT ![s] = t],
           nextU' = [nextU EXCEPT ![s] = filepos], nextB' = [nextB EXCEPT ![s] = 0],
           Return(s, -1, 0), UNCHANGED <<file, filepos, eof>>, turns' \in Nat
    PROVE  TypeOK'
<1> USE SizeAssumption
<1>1. {s} \in SUBSET Streams /\ -1 \in -1 .. Size /\ 0 \in 0 .. Size
  OBVIOUS
<1>2. CallOK'
  BY <1>1, ReturnType
<1>3. t \in Tracks \union {NoTrack}
  BY TrackAssumption DEF Selectable, Present
<1>4. id' \in [Streams -> Tracks \union {NoTrack}] /\ sh' \in [Streams -> Tracks \union {NoTrack}]
  BY <1>3 DEF TypeOK
<1>5. nextU' \in [Streams -> 1 .. Size + 1] /\ nextB' \in [Streams -> Nat]
  BY DEF TypeOK
<1>6. QED BY <1>1, <1>2, <1>4, <1>5, FreeTypes DEF TypeOK

LEMMA SeekTypes ==
    ASSUME TypeOK, FreePacks(Streams), NEW p \in 1 .. Size + 1, MoveTo(p),
           eof' \in [Streams -> BOOLEAN],
           Return("video", -1, 0), UNCHANGED <<file, id, sh>>, turns' \in Nat
    PROVE  TypeOK'
<1> USE SizeAssumption
<1>1. /\ Streams \in SUBSET Streams /\ -1 \in -1 .. Size /\ 0 \in 0 .. Size
      /\ "video" \in Streams
  BY DEF Streams
<1>2. CallOK'
  BY <1>1, ReturnType
<1>3. /\ filepos' \in 1 .. Size + 1
      /\ nextU' \in [Streams -> 1 .. Size + 1] /\ nextB' \in [Streams -> Nat]
  BY DEF MoveTo
<1>4. QED BY <1>1, <1>2, <1>3, FreeTypes DEF TypeOK

LEMMA PeekTypes ==
    ASSUME BaseInv, PeekDone
    PROVE  TypeOK'
<1> DEFINE s == call.s
<1>1. TypeOK /\ ~Idle /\ call.op = "peek"
  BY DEF BaseInv, PeekDone
<1>2. s \in Streams
  BY <1>1, RunningType
<1>3. CallOK'
  <2>1. -1 \in -1 .. Size /\ 0 \in 0 .. Size
    BY SizeAssumption
  <2>2. Return(s, -1, 0)
    BY DEF PeekDone
  <2>3. QED BY <1>2, <2>1, <2>2, ReturnType
<1>4. told' \in [Streams -> 0 .. Size]
  <2>1. CASE UNCHANGED told
    BY <1>1, <2>1 DEF TypeOK
  <2>2. CASE ~Hungry /\ told' = [told EXCEPT ![s] = IF current[s] > 0 /\ pos[s] = 0
                                             THEN current[s] ELSE Head(queue[s])]
    <3>1. current[s] \in 0 .. Size
      BY <1>1, <1>2 DEF TypeOK
    <3>2. CASE current[s] > 0 /\ pos[s] = 0
      <4>1. told' = [told EXCEPT ![s] = current[s]]
        BY <2>2, <3>2
      <4>2. QED BY <1>1, <1>2, <3>1, <4>1 DEF TypeOK
    <3>3. CASE ~(current[s] > 0 /\ pos[s] = 0)
      <4>1. current[s] = 0 \/ pos[s] # 0
        BY <3>1, <3>3
      <4>2. packs[s] # 0
        BY <1>1, <2>2, <4>1 DEF Hungry
      <4>3. queue[s] \in Seq(Units) /\ Len(queue[s]) > 0
        BY <1>2, <4>2 DEF BaseInv, CountOK, TypeOK
      <4>4. Head(queue[s]) \in 0 .. Size
        <5>1. Head(queue[s]) \in Units
          BY <4>3
        <5>2. QED BY <5>1, SizeAssumption DEF Units
      <4>5. told' = [told EXCEPT ![s] = Head(queue[s])]
        BY <2>2, <3>3
      <4>6. QED BY <1>1, <1>2, <4>4, <4>5 DEF TypeOK
    <3>4. QED BY <3>2, <3>3
  <2>3. QED BY <2>1, <2>2 DEF PeekDone
<1>5. UNCHANGED <<file, filepos, refs, id, sh, queue, packs, bytes, current, pos, size, eof,
                  nextU, nextB, turns>>
  BY DEF PeekDone, fileVars, dsVars
<1>6. QED BY <1>1, <1>3, <1>4, <1>5 DEF TypeOK

Selects == (\E s \in {"audio", "video"} : Switch(s)) \/ SubOn
Seeks == Seek \/ SeekChapter

LEMMA SelectFacts ==
    ASSUME TypeOK, Selects
    PROVE  \E s \in Streams : \E t \in Selectable(s) :
              /\ FreePacks({s})
              /\ id' = [id EXCEPT ![s] = t] /\ sh' = [sh EXCEPT ![s] = t]
              /\ nextU' = [nextU EXCEPT ![s] = filepos] /\ nextB' = [nextB EXCEPT ![s] = 0]
              /\ Return(s, -1, 0) /\ UNCHANGED <<file, filepos, eof>> /\ turns' \in Nat
              /\ Idle
<1>1. Turn /\ turns' \in Nat
  BY TurnTypes DEF Selects, Switch, SubOn
<1>2. CASE SubOn
  BY <1>1, <1>2 DEF SubOn, Streams, Turn
<1>3. CASE \E s \in {"audio", "video"} : Switch(s)
  BY <1>1, <1>3 DEF Switch, Streams, Turn
<1>4. QED BY <1>2, <1>3 DEF Selects

LEMMA SeekFacts ==
    ASSUME TypeOK, Seeks
    PROVE  /\ \E p \in 1 .. Size + 1 : MoveTo(p)
           /\ FreePacks(Streams) /\ eof' \in [Streams -> BOOLEAN]
           /\ Return("video", -1, 0) /\ UNCHANGED <<file, id, sh>> /\ turns' \in Nat
           /\ Idle
<1>1. Turn /\ turns' \in Nat /\ Idle
  BY TurnTypes DEF Seeks, Seek, SeekChapter, Turn
<1>2. eof' \in [Streams -> BOOLEAN]
  BY DEF Seeks, Seek, SeekChapter, TypeOK
<1>3. QED BY <1>1, <1>2 DEF Seeks, Seek, SeekChapter

LEMMA SubOffTypes ==
    ASSUME TypeOK, SubOff
    PROVE  TypeOK'
<1>1. turns' \in Nat
  BY TurnTypes DEF SubOff
<1>2. CallOK'
  <2>1. "sub" \in Streams /\ -1 \in -1 .. Size /\ 0 \in 0 .. Size
    BY SizeAssumption DEF Streams
  <2>2. QED BY <2>1, ReturnType DEF SubOff
<1>3. id' \in [Streams -> Tracks \union {NoTrack}]
  BY DEF SubOff, TypeOK
<1>4. UNCHANGED <<file, filepos, sh, refs, queue, packs, bytes, current, pos, size, eof,
                  told, nextU, nextB>>
  BY DEF SubOff, fileVars, dsVars, readerVars
<1>5. QED BY <1>1, <1>2, <1>3, <1>4 DEF TypeOK

LEMMA TypeStep ==
    ASSUME BaseInv, [Next]_vars
    PROVE  TypeOK'
<1>1. TypeOK /\ CountOK
  BY DEF BaseInv
<1>2. CASE (\E s \in Streams : Read(s)) \/ GetPacketSub
  BY <1>1, <1>2, ReadTypes
<1>3. CASE StartFill \/ FillDemux \/ FillEof
  BY <1>1, <1>3, FillTypes
<1>4. CASE FillTake
  BY <1>1, <1>4, TakeTypes
<1>5. CASE GiveRest \/ GiveData \/ GivePattern
  BY <1>5, GiveTypes
<1>6. CASE PeekDone
  BY <1>6, PeekTypes
<1>7. CASE Selects
  BY <1>1, <1>7, SelectFacts, SwitchTypes
<1>8. CASE Seeks
  BY <1>1, <1>8, SeekFacts, SeekTypes
<1>9. CASE SubOff
  BY <1>1, <1>9, SubOffTypes
<1>10. CASE UNCHANGED vars
  BY <1>1, <1>10 DEF vars, TypeOK, CallOK
<1>11. QED
  BY <1>2, <1>3, <1>4, <1>5, <1>6, <1>7, <1>8, <1>9, <1>10 DEF Next, Continue, Selects, Seeks

-----------------------------------------------------------------------------
(* What the actions do, in the form the later proofs use.                     *)

LEMMA ReadFacts ==
    ASSUME TypeOK, (\E s \in Streams : Read(s)) \/ GetPacketSub
    PROVE  /\ Idle
           /\ UNCHANGED <<file, filepos, refs, id, sh, queue, packs, bytes, current, size, eof,
                          told, nextU, nextB, turns>>
           /\ \/ /\ UNCHANGED pos
                 /\ Idle' \/ (~Idle' /\ call'.at = "start")
              \/ \E s \in Streams : RepeatLast(s) /\ Idle' /\ sh[s] # NoTrack
<1>1. ASSUME NEW op \in Calls, NEW s \in Streams, NEW want \in Nat, Begin(op, s, want)
      PROVE  /\ Idle /\ ~Idle' /\ call'.at = "start" /\ UNCHANGED pos
             /\ UNCHANGED <<file, filepos, refs, id, sh, queue, packs, bytes, current, size, eof,
                            told, nextU, nextB, turns>>
  BY <1>1 DEF Begin, Running, Idle, Calls, fileVars, dsVars, readerVars
<1>2. ASSUME NEW s \in Streams, Read(s), ~RepeatLast(s)
      PROVE  \E op \in Calls, want \in Nat : Begin(op, s, want)
  BY <1>2, ReaderAssumption
     DEF Read, GetPacket, GetPacket2, ReadData, Pattern3, FillDirectly, GetNextPts, Calls
<1>3. ASSUME NEW s \in Streams, RepeatLast(s)
      PROVE  /\ Idle /\ Idle'
             /\ UNCHANGED <<file, filepos, refs, id, sh, queue, packs, bytes, current, size, eof,
                            told, nextU, nextB, turns>>
  BY <1>3 DEF RepeatLast, Idle, Return, fileVars, readerVars
<1>4. CASE GetPacketSub
  <2>1. CASE pos["sub"] >= size["sub"] /\ packs["sub"] = 0
    BY <1>4, <2>1 DEF GetPacketSub, Idle, Return, fileVars, dsVars, readerVars
  <2>2. CASE ~(pos["sub"] >= size["sub"] /\ packs["sub"] = 0)
    <3>1. "get" \in Calls /\ "sub" \in Streams /\ 0 \in Nat
      BY DEF Calls, Streams
    <3>2. QED BY <1>1, <1>4, <2>2, <3>1 DEF GetPacketSub
  <2>3. QED BY <2>1, <2>2
<1>5. CASE \E s \in Streams : Read(s)
  <2>1. PICK s \in Streams : Read(s)
    BY <1>5
  <2>2. CASE RepeatLast(s)
    BY <1>3, <2>1, <2>2 DEF Read
  <2>3. CASE ~RepeatLast(s)
    BY <1>1, <1>2, <2>1, <2>3
  <2>4. QED BY <2>2, <2>3
<1>6. QED BY <1>4, <1>5

LEMMA TakeFacts ==
    ASSUME TypeOK, CountOK, FillTake
    PROVE  /\ ~Idle /\ call.at = "fill" /\ call.s \in Streams
           /\ Len(queue[call.s]) > 0 /\ Head(queue[call.s]) \in Units
           /\ Head(queue[call.s]) = queue[call.s][1]
           /\ current' = [current EXCEPT ![call.s] = Head(queue[call.s])]
           /\ pos' = [pos EXCEPT ![call.s] = 0]
           /\ size' = [size EXCEPT ![call.s] = file[Head(queue[call.s])].len]
           /\ queue' = [queue EXCEPT ![call.s] = Tail(queue[call.s])]
           /\ packs' = [packs EXCEPT ![call.s] = packs[call.s] - 1]
           /\ \/ call.op = "fill" /\ Idle'
              \/ /\ call.op # "fill" /\ ~Idle' /\ call'.at = "filled"
                 /\ call'.s = call.s /\ call'.op = call.op
           /\ UNCHANGED <<file, filepos, refs, id, sh, told, nextB, turns>>
<1>1. ~Idle /\ call.at = "fill" /\ call.s \in Streams /\ packs[call.s] > 0
  BY RunningType DEF FillTake
<1>2. queue[call.s] \in Seq(Units) /\ Len(queue[call.s]) > 0
  BY <1>1 DEF CountOK, TypeOK
<1>3. Head(queue[call.s]) \in Units /\ Head(queue[call.s]) = queue[call.s][1]
  BY <1>2
<1>4. /\ current' = [current EXCEPT ![call.s] = Head(queue[call.s])]
      /\ pos' = [pos EXCEPT ![call.s] = 0]
      /\ size' = [size EXCEPT ![call.s] = file[Head(queue[call.s])].len]
      /\ queue' = [queue EXCEPT ![call.s] = Tail(queue[call.s])]
      /\ packs' = [packs EXCEPT ![call.s] = packs[call.s] - 1]
      /\ UNCHANGED <<file, filepos, refs, id, sh, told, nextB, turns>>
  BY DEF FillTake, fileVars
<1>5. CASE call.op = "fill"
  <2>1. Idle'
    BY <1>5 DEF FillTake, Return, Idle
  <2>2. QED BY <1>1, <1>2, <1>3, <1>4, <1>5, <2>1
<1>6. CASE call.op # "fill"
  <2>1. call' = [call EXCEPT !.at = "filled"]
    BY <1>6 DEF FillTake
  <2>2. ~Idle' /\ call'.at = "filled" /\ call'.s = call.s /\ call'.op = call.op
    <3>1. call \in [op : Calls, s : Streams, at : {"start", "fill", "filled"}, want : Nat]
      BY <1>1, RunningType
    <3>2. call'.at = "filled" /\ call'.s = call.s /\ call'.op = call.op
      BY <2>1, <3>1
    <3>3. QED BY <1>1, <3>2 DEF Idle
  <2>3. QED BY <1>1, <1>2, <1>3, <1>4, <1>6, <2>2
<1>7. QED BY <1>5, <1>6

LEMMA StartFacts ==
    ASSUME TypeOK, StartFill
    PROVE  /\ ~Idle /\ call.at = "start" /\ call.s \in Streams /\ call.op # "peek"
           /\ call.op # "get2" => call.op = "fill" \/ pos[call.s] >= size[call.s]
           /\ ~Idle' /\ call'.at = "fill" /\ call'.s = call.s /\ call'.op = call.op
           /\ current' = [current EXCEPT ![call.s] = 0]
           /\ UNCHANGED <<file, filepos, id, sh, queue, packs, bytes, pos, size, eof, turns>>
<1>1. ~Idle /\ call.at = "start" /\ call.op # "peek" /\ ~InHand(call.s)
  BY DEF StartFill
<1>2. call \in [op : Calls, s : Streams, at : {"start", "fill", "filled"}, want : Nat]
  BY <1>1, RunningType
<1>3. call.op # "get2" => call.op = "fill" \/ pos[call.s] >= size[call.s]
  BY <1>1, <1>2 DEF InHand, Calls, TypeOK
<1>4. call' = [call EXCEPT !.at = "fill"]
  BY DEF StartFill
<1>5. ~Idle' /\ call'.at = "fill" /\ call'.s = call.s /\ call'.op = call.op
  BY <1>1, <1>2, <1>4 DEF Idle
<1>6. /\ current' = [current EXCEPT ![call.s] = 0]
      /\ UNCHANGED <<file, filepos, id, sh, queue, packs, bytes, pos, size, eof, turns>>
  BY DEF StartFill
<1>7. QED BY <1>1, <1>2, <1>3, <1>5, <1>6

LEMMA GiveFacts ==
    ASSUME BaseInv, GiveRest \/ GiveData \/ GivePattern
    PROVE  /\ ~Idle /\ call.s \in Streams /\ call.at # "fill" /\ InHandNow(call.s)
           /\ current[call.s] \in Units
           /\ call.op \in {"get", "get2", "data", "pattern"}
           /\ \E b \in Nat : /\ pos[call.s] <= b /\ b <= size[call.s] /\ Give(call.s, b)
                             /\ call.op \in {"get", "get2"} => b = size[call.s]
           /\ Forget(call.s)
           /\ UNCHANGED <<file, filepos, refs, id, sh, queue, packs, bytes, current, size, eof, turns>>
           /\ \/ Return(call.s, current[call.s], Said(call.s))
              \/ \E w : call' = Running(call.op, call.s, "start", w)
<1> DEFINE s == call.s
<1>1. TypeOK /\ ~Idle /\ call.at # "fill" /\ InHandNow(s)
  BY GiveTypes DEF BaseInv
<1>2. s \in Streams /\ call.want \in Nat
  BY <1>1, RunningType
<1>3. size[s] \in Nat /\ pos[s] \in Nat /\ pos[s] <= size[s]
  BY <1>1, <1>2 DEF TypeOK
<1>4. current[s] \in Units
  BY <1>1, <1>2 DEF BaseInv, FillOK, PosOK, InHandNow, TypeOK, Units
<1>5. /\ UNCHANGED <<file, filepos, refs, id, sh, queue, packs, bytes, current, size, eof, turns>>
      /\ Forget(s)
  BY DEF GiveRest, GiveData, GivePattern, fileVars
<1>6. call.op \in {"get", "get2", "data", "pattern"}
  BY DEF GiveRest, GiveData, GivePattern
<1>7. CASE GiveRest
  BY <1>1, <1>2, <1>3, <1>4, <1>5, <1>6, <1>7 DEF GiveRest
<1>8. ASSUME NEW op \in {"data", "pattern"}, op = call.op, NEW n \in Nat, n <= size[s] - pos[s],
             Give(s, pos[s] + n),
             Return(s, current[s], Said(s)) \/ call' = Running(op, s, "start", call.want - n)
      PROVE  /\ \E b \in Nat : /\ pos[s] <= b /\ b <= size[s] /\ Give(s, b)
                               /\ call.op \in {"get", "get2"} => b = size[s]
             /\ \/ Return(s, current[s], Said(s))
                \/ \E w : call' = Running(call.op, s, "start", w)
  <2>1. pos[s] + n \in Nat /\ pos[s] <= pos[s] + n /\ pos[s] + n <= size[s]
    BY <1>3, <1>8
  <2>2. QED BY <1>8, <2>1
<1>9. CASE GiveData
  <2> DEFINE n == IF size[s] - pos[s] < call.want THEN size[s] - pos[s] ELSE call.want
  <2>1. n \in Nat /\ n <= size[s] - pos[s]
    BY <1>2, <1>3
  <2>2. /\ call.op = "data" /\ Give(s, pos[s] + n)
        /\ Return(s, current[s], Said(s)) \/ call' = Running("data", s, "start", call.want - n)
    BY <1>9 DEF GiveData
  <2> HIDE DEF n
  <2>3. QED BY <1>1, <1>2, <1>4, <1>5, <1>6, <1>8, <2>1, <2>2
<1>10. CASE GivePattern
  <2> DEFINE most == IF size[s] - pos[s] < call.want THEN size[s] - pos[s] ELSE call.want
  <2>1. most \in Nat /\ most <= size[s] - pos[s]
    BY <1>2, <1>3
  <2>2. PICK n \in 0 .. most :
        /\ Give(s, pos[s] + n)
        /\ Return(s, current[s], Said(s)) \/ call' = Running("pattern", s, "start", call.want - n)
    BY <1>10 DEF GivePattern
  <2>3. call.op = "pattern"
    BY <1>10 DEF GivePattern
  <2> HIDE DEF most
  <2>4. n \in Nat /\ n <= size[s] - pos[s]
    BY <1>3, <2>1
  <2>5. QED BY <1>1, <1>2, <1>4, <1>5, <1>6, <1>8, <2>2, <2>3, <2>4
<1>11. QED BY <1>7, <1>9, <1>10

\* A call begins at its start, and its packet is looked for in between.
LEMMA CallStep ==
    ASSUME BaseInv, [Next]_vars
    PROVE  \/ StartFill \/ FillTake \/ FillDemux
           \/ UNCHANGED call
           \/ Idle'
           \/ ~Idle' /\ call'.at = "start"
<1>1. CASE (\E s \in Streams : Read(s)) \/ GetPacketSub
  BY <1>1, ReadFacts DEF BaseInv
<1>2. CASE FillEof \/ PeekDone \/ SubOff
  BY <1>2 DEF FillEof, PeekDone, SubOff, Return, Idle
<1>3. CASE GiveRest \/ GiveData \/ GivePattern
  <2>1. \/ Return(call.s, current[call.s], Said(call.s))
        \/ \E w : call' = Running(call.op, call.s, "start", w)
    BY <1>3, GiveFacts
  <2>2. ~Idle
    BY <1>3, GiveFacts
  <2>3. QED BY <2>1, <2>2 DEF Return, Running, Idle
<1>4. CASE Selects
  BY <1>4 DEF Selects, Switch, SubOn, Return, Idle
<1>5. CASE Seeks
  BY <1>5 DEF Seeks, Seek, SeekChapter, Return, Idle
<1>6. CASE UNCHANGED vars
  BY <1>6 DEF vars
<1>7. QED
  BY <1>1, <1>2, <1>3, <1>4, <1>5, <1>6 DEF Next, Continue, Selects, Seeks

LEMMA Frames ==
    ASSUME BaseInv, [Next]_vars
    PROVE  \/ FillTake \/ FillDemux \/ Selects \/ Seeks
           \/ UNCHANGED <<file, filepos, queue, packs, bytes>>
<1>1. CASE (\E s \in Streams : Read(s)) \/ GetPacketSub
  BY <1>1, ReadFacts DEF BaseInv
<1>2. CASE StartFill \/ FillEof \/ PeekDone \/ SubOff
  BY <1>2 DEF StartFill, FillEof, PeekDone, SubOff, fileVars, dsVars
<1>3. CASE GiveRest \/ GiveData \/ GivePattern
  BY <1>3, GiveFacts
<1>4. CASE UNCHANGED vars
  BY <1>4 DEF vars
<1>5. QED
  BY <1>1, <1>2, <1>3, <1>4 DEF Next, Continue, Selects, Seeks

LEMMA CountStep ==
    ASSUME BaseInv, [Next]_vars
    PROVE  CountOK'
<1>1. TypeOK /\ CountOK
  BY DEF BaseInv
<1>2. CASE FillTake
  <2>1. \A s \in Streams : Len(queue'[s]) = IF s = call.s THEN Len(queue[s]) - 1 ELSE Len(queue[s])
    <3>1. \A s \in Streams : queue[s] \in Seq(Units)
      BY <1>1 DEF TypeOK
    <3>2. Len(Tail(queue[call.s])) = Len(queue[call.s]) - 1
      BY <1>1, <1>2, <3>1, TakeFacts
    <3>3. queue' = [queue EXCEPT ![call.s] = Tail(queue[call.s])]
      BY <1>1, <1>2, TakeFacts
    <3>4. QED BY <1>1, <3>2, <3>3 DEF TypeOK
  <2>2. packs' = [packs EXCEPT ![call.s] = packs[call.s] - 1]
    BY <1>1, <1>2, TakeFacts
  <2>3. QED BY <1>1, <2>1, <2>2 DEF CountOK, TypeOK
<1>3. CASE FillDemux
  <2>1. DemuxOne /\ filepos \in Units
    BY <1>1, <1>3, DemuxTypes DEF FillDemux
  <2>2. \A s \in Streams : queue[s] \in Seq(Units) /\ Len(Append(queue[s], filepos)) = Len(queue[s]) + 1
    BY <1>1, <2>1 DEF TypeOK
  <2>3. QED BY <1>1, <2>1, <2>2 DEF DemuxOne, CountOK
<1>4. CASE Selects
  <2>1. PICK s \in Streams : FreePacks({s})
    BY <1>1, <1>4, SelectFacts
  <2>2. QED BY <1>1, <2>1 DEF FreePacks, CountOK
<1>5. CASE Seeks
  <2>1. FreePacks(Streams)
    BY <1>1, <1>5, SeekFacts
  <2>2. QED BY <1>1, <2>1 DEF FreePacks, CountOK
<1>6. CASE UNCHANGED <<file, filepos, queue, packs, bytes>>
  BY <1>1, <1>6 DEF CountOK
<1>7. QED BY <1>2, <1>3, <1>4, <1>5, <1>6, Frames

LEMMA FillStep ==
    ASSUME BaseInv, [Next]_vars
    PROVE  FillOK'
<1>1. TypeOK /\ CountOK /\ FillOK
  BY DEF BaseInv
<1>2. CASE StartFill
  <2>1. /\ call'.at = "fill" /\ call'.s = call.s /\ call.s \in Streams
        /\ current' = [current EXCEPT ![call.s] = 0]
    BY <1>1, <1>2, StartFacts
  <2>2. current'[call'.s] = 0
    BY <1>1, <2>1 DEF TypeOK
  <2>3. QED BY <2>1, <2>2 DEF FillOK
<1>3. CASE FillTake
  <2>1. CASE Idle'
    BY <2>1 DEF FillOK, Idle
  <2>2. CASE call'.at = "filled" /\ call'.s = call.s
    <3>1. /\ Head(queue[call.s]) > 0 /\ call.s \in Streams
          /\ current' = [current EXCEPT ![call.s] = Head(queue[call.s])]
          /\ pos' = [pos EXCEPT ![call.s] = 0]
      BY <1>1, <1>3, TakeFacts DEF Units
    <3>2. current'[call.s] > 0 /\ pos'[call.s] = 0
      BY <1>1, <3>1 DEF TypeOK
    <3>3. QED BY <2>2, <3>2 DEF FillOK
  <2>3. QED BY <1>1, <1>3, <2>1, <2>2, TakeFacts
<1>4. CASE FillDemux
  <2>1. UNCHANGED <<call, current, pos>>
    BY <1>4 DEF FillDemux
  <2>2. QED BY <1>1, <2>1 DEF FillOK, Idle
<1>5. CASE Idle' \/ (~Idle' /\ call'.at = "start")
  BY <1>5 DEF FillOK, Idle
<1>6. CASE UNCHANGED call /\ ~StartFill /\ ~FillTake /\ ~FillDemux
  <2>1. CASE Idle \/ call.at = "start"
    BY <1>6, <2>1 DEF FillOK, Idle
  <2>2. CASE ~Idle /\ call.at # "start"
    <3>1. UNCHANGED <<current, pos>>
      <4>1. ~Idle' /\ call'.at # "start"
        BY <1>6, <2>2 DEF Idle
      <4>2. CASE (\E s \in Streams : Read(s)) \/ GetPacketSub
        BY <2>2, <4>2, <1>1, ReadFacts
      <4>3. CASE FillEof \/ PeekDone \/ SubOff
        BY <4>1, <4>3 DEF FillEof, PeekDone, SubOff, Return, Idle
      <4>4. CASE GiveRest \/ GiveData \/ GivePattern
        BY <4>1, <4>4, GiveFacts DEF Return, Running, Idle
      <4>5. CASE Selects
        BY <2>2, <4>5, <1>1, SelectFacts
      <4>6. CASE Seeks
        BY <2>2, <4>6, <1>1, SeekFacts
      <4>7. CASE UNCHANGED vars
        BY <4>7 DEF vars
      <4>8. QED
        BY <1>6, <4>2, <4>3, <4>4, <4>5, <4>6, <4>7 DEF Next, Continue, Selects, Seeks
    <3>2. QED BY <1>1, <1>6, <3>1 DEF FillOK, Idle
  <2>3. QED BY <2>1, <2>2
<1>7. QED BY <1>2, <1>3, <1>4, <1>5, <1>6, CallStep

LEMMA PosStep ==
    ASSUME BaseInv, [Next]_vars
    PROVE  PosOK'
<1>1. TypeOK /\ CountOK /\ FillOK /\ PosOK
  BY DEF BaseInv
<1>2. CASE (\E s \in Streams : Read(s)) \/ GetPacketSub
  <2>1. \A s \in Streams : pos[s] <= pos'[s] \/ pos'[s] = size[s]
    <3>1. CASE UNCHANGED pos
      BY <1>1, <3>1 DEF TypeOK
    <3>2. CASE \E s \in Streams : RepeatLast(s)
      BY <1>1, <3>2 DEF TypeOK, RepeatLast
    <3>3. QED BY <1>1, <1>2, <3>1, <3>2, ReadFacts
  <2>2. Idle /\ UNCHANGED <<size, current>>
    BY <1>1, <1>2, ReadFacts
  <2>3. \A s \in Streams : pos[s] < size[s] => current[s] > 0
    BY <1>1, <2>2 DEF PosOK
  <2>4. \A s \in Streams : pos[s] \in Nat /\ size[s] \in Nat /\ pos'[s] \in Nat
    <3>1. TypeOK'
      BY TypeStep
    <3>2. QED BY <1>1, <3>1 DEF TypeOK
  <2>5. \A s \in Streams : pos'[s] < size[s] => pos[s] < size[s]
    BY <2>1, <2>4
  <2>6. QED BY <2>2, <2>3, <2>5 DEF PosOK
<1>3. CASE StartFill
  <2>1. /\ ~Idle' /\ call'.s = call.s /\ call'.at = "fill" /\ call.at # "fill"
        /\ current' = [current EXCEPT ![call.s] = 0] /\ UNCHANGED <<pos, size>>
    BY <1>1, <1>3, StartFacts
  <2>2. QED BY <1>1, <2>1 DEF PosOK, TypeOK
<1>4. CASE FillTake
  <2>1. \A s \in Streams \ {call.s} :
          pos'[s] = pos[s] /\ size'[s] = size[s] /\ current'[s] = current[s]
    BY <1>1, <1>4, TakeFacts DEF TypeOK
  <2>2. current' = [current EXCEPT ![call.s] = Head(queue[call.s])] /\ call.s \in Streams
    BY <1>1, <1>4, TakeFacts
  <2>3. Head(queue[call.s]) > 0
    BY <1>1, <1>4, TakeFacts DEF Units
  <2>4. current'[call.s] > 0
    BY <1>1, <2>2, <2>3 DEF TypeOK
  <2>5. QED BY <1>1, <2>1, <2>4 DEF PosOK
<1>5. CASE FillDemux
  BY <1>1, <1>5 DEF FillDemux, PosOK, Idle
<1>6. CASE FillEof
  <2>1. /\ pos' = [pos EXCEPT ![call.s] = 0] /\ size' = [size EXCEPT ![call.s] = 0]
        /\ UNCHANGED current
    BY <1>6 DEF FillEof
  <2>2. call.s \in Streams
    BY <1>1, <1>6, RunningType DEF FillEof, NoMore, Hungry
  <2>3. QED BY <1>1, <2>1, <2>2 DEF PosOK, TypeOK
<1>7. CASE GiveRest \/ GiveData \/ GivePattern
  <2>1. PICK b \in Nat : Give(call.s, b)
    BY <1>7, GiveFacts
  <2>2. /\ pos' = [pos EXCEPT ![call.s] = b] /\ UNCHANGED <<size, current>>
        /\ current[call.s] > 0 /\ call.at # "fill"
    BY <1>7, <2>1, GiveFacts DEF Give, Units
  <2>3. QED BY <1>1, <2>2 DEF PosOK, TypeOK
<1>8. CASE PeekDone
  <2>1. UNCHANGED <<pos, size, current>> /\ call.at # "fill"
    BY <1>1, <1>8 DEF PeekDone, dsVars, TypeOK, CallOK, Idle
  <2>2. QED BY <1>1, <2>1 DEF PosOK
<1>9. CASE Selects
  <2>1. PICK s \in Streams : FreePacks({s})
    BY <1>1, <1>9, SelectFacts
  <2>2. Idle
    BY <1>1, <1>9, SelectFacts
  <2>3. QED BY <1>1, <2>1, <2>2 DEF FreePacks, PosOK, TypeOK
<1>10. CASE Seeks
  <2>1. FreePacks(Streams)
    BY <1>1, <1>10, SeekFacts
  <2>2. QED BY <1>1, <2>1 DEF FreePacks, PosOK, TypeOK
<1>11. CASE SubOff
  BY <1>1, <1>11 DEF SubOff, Turn, dsVars, PosOK
<1>12. CASE UNCHANGED vars
  BY <1>1, <1>12 DEF vars, PosOK, Idle
<1>13. QED
  BY <1>2, <1>3, <1>4, <1>5, <1>6, <1>7, <1>8, <1>9, <1>10, <1>11, <1>12
     DEF Next, Continue, Selects, Seeks

LEMMA BaseInductive ==
    /\ Init => BaseInv
    /\ BaseInv /\ [Next]_vars => BaseInv'
<1>1. Init => BaseInv
  BY TypeInit DEF Init, BaseInv, CountOK, FillOK, PosOK, Idle, Streams
<1>2. BaseInv /\ [Next]_vars => BaseInv'
  BY TypeStep, CountStep, FillStep, PosStep DEF BaseInv
<1>3. QED BY <1>1, <1>2

\* Each variable keeps its type, whatever the calls, seeks and switches.
THEOREM TypeCorrect == Spec => []TypeOK
<1>1. BaseInv => TypeOK
  BY DEF BaseInv
<1>2. QED BY <1>1, BaseInductive, PTL DEF Spec

-----------------------------------------------------------------------------
(* The order of the queues, and how long they grow.                           *)

LEMMA OrderedTail ==
    ASSUME NEW q \in Seq(Units), Len(q) > 0, Ordered(q)
    PROVE  /\ Ordered(Tail(q)) /\ Tail(q) \in Seq(Units) /\ Len(Tail(q)) = Len(q) - 1
           /\ \A i \in 1 .. Len(Tail(q)) : i + 1 \in 1 .. Len(q) /\ Tail(q)[i] = q[i + 1]
           /\ \A i \in 1 .. Len(Tail(q)) : Head(q) < Tail(q)[i]
<1>1. Tail(q) \in Seq(Units) /\ Len(Tail(q)) = Len(q) - 1 /\ Len(q) \in Nat
  OBVIOUS
<1>2. \A i \in 1 .. Len(Tail(q)) : i + 1 \in 1 .. Len(q) /\ Tail(q)[i] = q[i + 1]
  BY <1>1
<1>3. Head(q) = q[1] /\ 1 \in 1 .. Len(q)
  BY <1>1
<1>4. Ordered(Tail(q))
  <2>1. ASSUME NEW i \in 1 .. Len(Tail(q)), NEW j \in 1 .. Len(Tail(q)), i < j
        PROVE  Tail(q)[i] < Tail(q)[j]
    <3>1. i + 1 < j + 1
      BY <2>1
    <3>2. q[i + 1] < q[j + 1]
      BY <1>2, <3>1 DEF Ordered
    <3>3. QED BY <1>2, <3>2
  <2>2. QED BY <2>1 DEF Ordered
<1>5. ASSUME NEW i \in 1 .. Len(Tail(q))
      PROVE  Head(q) < Tail(q)[i]
  <2>1. 1 < i + 1
    OBVIOUS
  <2>2. q[1] < q[i + 1]
    BY <1>2, <1>3, <2>1 DEF Ordered
  <2>3. QED BY <1>2, <1>3, <2>2
<1>6. QED BY <1>1, <1>2, <1>4, <1>5

LEMMA OrderedAppend ==
    ASSUME NEW q \in Seq(Units), NEW p \in Units, Ordered(q),
           \A i \in 1 .. Len(q) : q[i] < p
    PROVE  /\ Ordered(Append(q, p)) /\ Len(Append(q, p)) = Len(q) + 1
           /\ \A i \in 1 .. Len(q) : Append(q, p)[i] = q[i]
           /\ Append(q, p)[Len(q) + 1] = p
<1>1. /\ Len(Append(q, p)) = Len(q) + 1 /\ Len(q) \in Nat
      /\ \A i \in 1 .. Len(q) : Append(q, p)[i] = q[i]
      /\ Append(q, p)[Len(q) + 1] = p
  OBVIOUS
<1>2. Ordered(Append(q, p))
  <2>1. ASSUME NEW i \in 1 .. Len(q) + 1, NEW j \in 1 .. Len(q) + 1, i < j
        PROVE  Append(q, p)[i] < Append(q, p)[j]
    <3>1. i \in 1 .. Len(q)
      BY <1>1, <2>1
    <3>2. CASE j = Len(q) + 1
      BY <1>1, <3>1, <3>2
    <3>3. CASE j \in 1 .. Len(q)
      BY <1>1, <2>1, <3>1, <3>3 DEF Ordered
    <3>4. QED BY <1>1, <3>2, <3>3
  <2>2. QED BY <1>1, <2>1 DEF Ordered
<1>3. QED BY <1>1, <1>2

LEMMA EmptyOK ==
    ASSUME NEW s \in Streams, queue'[s] = <<>>, current'[s] = 0, filepos' \in 1 .. Size + 1
    PROVE  QueueOK(s)'
BY SizeAssumption DEF QueueOK, Ordered

LEMMA QueueElems ==
    ASSUME TypeOK, NEW s \in Streams, NEW i \in 1 .. Len(queue[s])
    PROVE  queue[s][i] \in Units /\ queue[s][i] \in Nat /\ 0 < queue[s][i] /\ queue[s][i] <= Size
<1>1. queue[s] \in Seq(Units)
  BY DEF TypeOK
<1>2. queue[s][i] \in Units
  BY <1>1
<1>3. QED BY <1>2, SizeAssumption DEF Units

LEMMA QueueTake ==
    ASSUME BaseInv, QueueInv, FillTake
    PROVE  QueueInv'
<1>1. TypeOK /\ CountOK
  BY DEF BaseInv
<1>2. PICK r \in Streams :
         /\ Len(queue[r]) > 0 /\ UNCHANGED filepos
         /\ queue' = [queue EXCEPT ![r] = Tail(queue[r])]
         /\ current' = [current EXCEPT ![r] = Head(queue[r])]
         /\ Head(queue[r]) = queue[r][1]
  BY <1>1, TakeFacts
<1>3. queue[r] \in Seq(Units) /\ QueueOK(r) /\ Ordered(queue[r])
  BY <1>1, <1>2 DEF TypeOK, QueueInv, QueueOK
<1>4. queue'[r] = Tail(queue[r]) /\ current'[r] = Head(queue[r])
  BY <1>1, <1>2 DEF TypeOK
<1>5. QueueOK(r)'
  <2>1. \A i \in 1 .. Len(Tail(queue[r])) : Tail(queue[r])[i] < filepos
    BY <1>3, <1>2, OrderedTail DEF QueueOK
  <2>2. 1 \in 1 .. Len(queue[r])
    BY <1>2, <1>3
  <2>3. Head(queue[r]) < filepos
    BY <1>2, <1>3, <2>2 DEF QueueOK
  <2>4. Ordered(Tail(queue[r])) /\ \A i \in 1 .. Len(Tail(queue[r])) : Head(queue[r]) < Tail(queue[r])[i]
    BY <1>2, <1>3, OrderedTail
  <2>5. QED BY <1>2, <1>4, <2>1, <2>3, <2>4 DEF QueueOK
<1>6. \A s \in Streams \ {r} : queue'[s] = queue[s] /\ current'[s] = current[s]
  BY <1>1, <1>2 DEF TypeOK
<1>7. \A s \in Streams \ {r} : QueueOK(s)'
  BY <1>2, <1>6 DEF QueueOK, QueueInv
<1>8. QED BY <1>5, <1>7 DEF QueueInv

LEMMA QueueDemux ==
    ASSUME BaseInv, QueueInv, FillDemux
    PROVE  QueueInv'
<1>1. TypeOK
  BY DEF BaseInv
<1>2. /\ DemuxOne /\ filepos \in Units /\ filepos' = filepos + 1
      /\ UNCHANGED current
  BY <1>1, DemuxTypes DEF FillDemux
<1>3. \A s \in Streams : current[s] \in Nat /\ queue[s] \in Seq(Units)
  BY <1>1, SizeAssumption DEF TypeOK
<1>4. ASSUME NEW s \in Streams, queue'[s] = queue[s]
      PROVE  QueueOK(s)'
  <2>1. QueueOK(s) /\ filepos \in Nat
    BY <1>2 DEF QueueInv, Units
  <2>2. \A i \in 1 .. Len(queue[s]) : queue[s][i] \in Nat
    BY <1>1, QueueElems
  <2>3. current[s] < filepos + 1 /\ \A i \in 1 .. Len(queue[s]) : queue[s][i] < filepos + 1
    BY <1>3, <2>1, <2>2 DEF QueueOK
  <2>4. QED BY <1>2, <1>4, <2>1, <2>3 DEF QueueOK
<1>5. ASSUME NEW s \in Streams, queue'[s] = Append(queue[s], filepos)
      PROVE  QueueOK(s)'
  <2>1. QueueOK(s) /\ filepos \in Nat
    BY <1>2 DEF QueueInv, Units
  <2>2. Ordered(queue[s]) /\ \A i \in 1 .. Len(queue[s]) : queue[s][i] < filepos
    BY <2>1 DEF QueueOK
  <2>3. Ordered(Append(queue[s], filepos))
    BY <1>2, <1>3, <2>2, OrderedAppend
  <2>4. ASSUME NEW i \in 1 .. Len(queue[s]) + 1
        PROVE  Append(queue[s], filepos)[i] < filepos + 1 /\ current[s] < Append(queue[s], filepos)[i]
    <3>1. CASE i \in 1 .. Len(queue[s])
      <4>1. Append(queue[s], filepos)[i] = queue[s][i] /\ queue[s][i] \in Nat
        BY <1>1, <1>3, <3>1, QueueElems
      <4>2. queue[s][i] < filepos /\ current[s] < queue[s][i]
        BY <2>1, <3>1 DEF QueueOK
      <4>3. QED BY <2>1, <4>1, <4>2
    <3>2. CASE i = Len(queue[s]) + 1
      <4>1. Append(queue[s], filepos)[i] = filepos
        BY <1>3, <3>2
      <4>2. current[s] < filepos
        BY <2>1 DEF QueueOK
      <4>3. QED BY <2>1, <4>1, <4>2
    <3>3. QED BY <1>3, <3>1, <3>2
  <2>5. Len(Append(queue[s], filepos)) = Len(queue[s]) + 1
    BY <1>3
  <2>6. current[s] < filepos + 1
    BY <1>3, <2>1 DEF QueueOK
  <2>7. QED BY <1>2, <1>5, <2>3, <2>4, <2>5, <2>6 DEF QueueOK
<1>6. \A s \in Streams : queue'[s] = queue[s] \/ queue'[s] = Append(queue[s], filepos)
  BY <1>2 DEF DemuxOne
<1>7. QED BY <1>4, <1>5, <1>6 DEF QueueInv

LEMMA QueueFree ==
    ASSUME TypeOK, QueueInv, NEW S \in SUBSET Streams, FreePacks(S), filepos' \in 1 .. Size + 1,
           S = Streams \/ UNCHANGED filepos
    PROVE  QueueInv'
<1>1. \A s \in S : QueueOK(s)'
  <2>1. \A s \in S : s \in Streams /\ queue'[s] = <<>> /\ current'[s] = 0
    BY DEF FreePacks
  <2>2. QED BY <2>1, EmptyOK
<1>2. \A s \in Streams \ S : QueueOK(s)'
  <2>1. \A s \in Streams \ S : queue'[s] = queue[s] /\ current'[s] = current[s] /\ UNCHANGED filepos
    BY DEF FreePacks
  <2>2. QED BY <2>1 DEF QueueInv, QueueOK
<1>3. QED BY <1>1, <1>2 DEF QueueInv

LEMMA QueueStep ==
    ASSUME BaseInv, QueueInv, [Next]_vars
    PROVE  QueueInv'
<1>1. TypeOK /\ TypeOK'
  BY TypeStep DEF BaseInv
<1>2. CASE UNCHANGED <<filepos, queue, current>>
  BY <1>2 DEF QueueInv, QueueOK
<1>3. CASE (\E s \in Streams : Read(s)) \/ GetPacketSub
  BY <1>1, <1>2, <1>3, ReadFacts
<1>4. CASE StartFill
  <2>1. UNCHANGED <<filepos, queue>> /\ current' = [current EXCEPT ![call.s] = 0]
    BY <1>1, <1>4, StartFacts
  <2>2. \A s \in Streams : queue[s] \in Seq(Units) /\ filepos \in 1 .. Size + 1
    BY <1>1 DEF TypeOK
  <2>3. \A s \in Streams : \A i \in 1 .. Len(queue[s]) : 0 < queue[s][i]
    BY <1>1, QueueElems
  <2>4. \A s \in Streams : current'[s] = 0 \/ current'[s] = current[s]
    BY <1>1, <2>1 DEF TypeOK
  <2>5. 0 < filepos
    BY <1>1, SizeAssumption DEF TypeOK
  <2>6. QED BY <2>1, <2>3, <2>4, <2>5 DEF QueueInv, QueueOK
<1>5. CASE FillTake
  BY <1>5, QueueTake
<1>6. CASE FillDemux
  BY <1>6, QueueDemux
<1>7. CASE FillEof \/ PeekDone \/ SubOff
  BY <1>2, <1>7 DEF FillEof, PeekDone, SubOff, fileVars, dsVars
<1>8. CASE GiveRest \/ GiveData \/ GivePattern
  BY <1>2, <1>8, GiveFacts
<1>9. CASE Selects
  <2>1. PICK s \in Streams : FreePacks({s}) /\ UNCHANGED filepos
    BY <1>1, <1>9, SelectFacts
  <2>2. {s} \in SUBSET Streams
    OBVIOUS
  <2>3. QED BY <1>1, <2>1, <2>2, QueueFree DEF TypeOK
<1>10. CASE Seeks
  <2>1. FreePacks(Streams) /\ Streams \in SUBSET Streams
    BY <1>1, <1>10, SeekFacts
  <2>2. QED BY <1>1, <2>1, QueueFree DEF TypeOK
<1>11. CASE UNCHANGED vars
  BY <1>2, <1>11 DEF vars
<1>12. QED
  BY <1>3, <1>4, <1>5, <1>6, <1>7, <1>8, <1>9, <1>10, <1>11 DEF Next, Continue, Selects, Seeks

LEMMA QueueInductive ==
    /\ Init => BaseInv /\ QueueInv
    /\ BaseInv /\ QueueInv /\ [Next]_vars => BaseInv' /\ QueueInv'
<1>1. Init => QueueInv
  BY SizeAssumption DEF Init, QueueInv, QueueOK, Ordered, Streams
<1>2. QED BY <1>1, BaseInductive, QueueStep

\* A queue that is full is not added to: the demuxer is asked for more only
\* while neither is, and one packet at a time is put into each.
THEOREM NoQueueOverflows == Spec => []QueuesBounded
<1>1. Init => QueuesBounded
  BY LimitAssumption DEF Init, QueuesBounded, Streams
<1>2. ASSUME BaseInv, QueuesBounded, [Next]_vars
      PROVE  QueuesBounded'
  <2>1. TypeOK /\ CountOK /\ MaxPacks \in Nat
    BY <1>2, LimitAssumption DEF BaseInv
  <2>2. \A s \in {"audio", "video"} : s \in Streams /\ queue[s] \in Seq(Units) /\ Len(queue[s]) \in Nat
    <3>1. \A s \in {"audio", "video"} : s \in Streams
      BY DEF Streams
    <3>2. \A s \in {"audio", "video"} : queue[s] \in Seq(Units)
      BY <2>1, <3>1 DEF TypeOK
    <3>3. QED BY <3>1, <3>2
  <2>3. CASE FillTake
    <3>1. PICK r \in Streams : queue' = [queue EXCEPT ![r] = Tail(queue[r])] /\ Len(queue[r]) > 0
      BY <2>1, <2>3, TakeFacts
    <3>2. queue[r] \in Seq(Units)
      BY <2>1 DEF TypeOK
    <3>3. Len(Tail(queue[r])) = Len(queue[r]) - 1
      BY <3>1, <3>2
    <3>4. \A s \in {"audio", "video"} :
            queue'[s] = queue[s] \/ (s = r /\ queue'[s] = Tail(queue[r]))
      BY <2>1, <2>2, <3>1 DEF TypeOK
    <3>5. ASSUME NEW s \in {"audio", "video"}
          PROVE  Len(queue'[s]) <= MaxPacks
      <4>1. Len(queue[s]) \in Nat /\ Len(queue[s]) <= MaxPacks
        BY <1>2, <2>2 DEF QueuesBounded
      <4>2. CASE queue'[s] = queue[s]
        BY <4>1, <4>2
      <4>3. CASE s = r /\ queue'[s] = Tail(queue[r])
        <5>1. Len(queue'[s]) = Len(queue[s]) - 1
          BY <3>3, <4>3
        <5>2. QED BY <2>1, <4>1, <5>1
      <4>4. QED BY <3>4, <4>2, <4>3
    <3>6. QED BY <3>5 DEF QueuesBounded
  <2>4. CASE FillDemux
    <3>1. DemuxOne /\ ~Limited /\ filepos \in Units
      BY <2>1, <2>4, DemuxTypes DEF FillDemux
    <3>2. \A s \in {"audio", "video"} : Len(queue[s]) < MaxPacks
      BY <2>1, <2>2, <3>1 DEF Limited, CountOK
    <3>3. \A s \in {"audio", "video"} : Len(Append(queue[s], filepos)) = Len(queue[s]) + 1
      BY <2>2, <3>1
    <3>4. \A s \in {"audio", "video"} : queue'[s] = queue[s] \/ queue'[s] = Append(queue[s], filepos)
      BY <2>2, <3>1 DEF DemuxOne
    <3>5. QED BY <2>1, <2>2, <3>2, <3>3, <3>4 DEF QueuesBounded
  <2>5. CASE Selects \/ Seeks
    <3>1. PICK S \in SUBSET Streams : FreePacks(S)
      <4>1. CASE Seeks
        BY <2>1, <4>1, SeekFacts
      <4>2. CASE Selects
        <5>1. PICK s \in Streams : FreePacks({s})
          BY <2>1, <4>2, SelectFacts
        <5>2. {s} \in SUBSET Streams
          OBVIOUS
        <5>3. QED BY <5>1, <5>2
      <4>3. QED BY <2>5, <4>1, <4>2
    <3>2. \A s \in {"audio", "video"} : queue'[s] = queue[s] \/ queue'[s] = <<>>
      BY <2>2, <3>1 DEF FreePacks
    <3>3. QED BY <1>2, <2>1, <3>2 DEF QueuesBounded
  <2>6. CASE UNCHANGED <<file, filepos, queue, packs, bytes>>
    BY <1>2, <2>6 DEF QueuesBounded
  <2>7. QED BY <1>2, <2>3, <2>4, <2>5, <2>6, Frames
<1>3. QED BY <1>1, <1>2, BaseInductive, PTL DEF Spec

-----------------------------------------------------------------------------
(* The counts of references.                                                  *)

LEMMA HoldersFinite ==
    ASSUME NEW p
    PROVE  /\ Holders(p) \in SUBSET Streams /\ IsFiniteSet(Holders(p))
           /\ Cardinality(Holders(p)) \in Nat
<1>1. Holders(p) \in SUBSET Streams
  BY DEF Holders
<1>2. QED BY <1>1, StreamsFinite

\* No stream holds a packet that was not read.
LEMMA UnreadUnheld ==
    ASSUME TypeOK, QueueInv
    PROVE  \A s \in Streams : ~Holds(s, filepos)
<1>1. ASSUME NEW s \in Streams, Holds(s, filepos)
      PROVE  FALSE
  <2>1. filepos \in Nat /\ current[s] \in Nat
    BY SizeAssumption DEF TypeOK
  <2>2. current[s] # filepos
    BY <2>1 DEF QueueInv, QueueOK
  <2>3. PICK i \in DOMAIN queue[s] : queue[s][i] = filepos
    BY <1>1, <2>2 DEF Holds, Elems
  <2>4. queue[s] \in Seq(Units)
    BY DEF TypeOK
  <2>5. i \in 1 .. Len(queue[s])
    BY <2>4
  <2>6. queue[s][i] < filepos
    BY <2>5 DEF QueueInv, QueueOK
  <2>7. QED BY <2>1, <2>3, <2>6
<1>2. QED BY <1>1

\* The packet in hand is no longer in its queue.
LEMMA CurrentUnqueued ==
    ASSUME TypeOK, QueueInv, NEW s \in Streams
    PROVE  current[s] \notin Elems(queue[s])
<1>1. ASSUME current[s] \in Elems(queue[s])
      PROVE  FALSE
  <2>1. PICK i \in DOMAIN queue[s] : queue[s][i] = current[s]
    BY <1>1 DEF Elems
  <2>2. queue[s] \in Seq(Units) /\ current[s] \in Nat
    BY SizeAssumption DEF TypeOK
  <2>3. i \in 1 .. Len(queue[s])
    BY <2>2
  <2>4. current[s] < queue[s][i]
    BY <2>3 DEF QueueInv, QueueOK
  <2>5. QED BY <2>1, <2>2, <2>4
<1>2. QED BY <1>1

LEMMA ElemsTail ==
    ASSUME NEW q \in Seq(Units), Len(q) > 0
    PROVE  Elems(q) = Elems(Tail(q)) \union {Head(q)}
<1>1. Tail(q) \in Seq(Units) /\ Len(Tail(q)) = Len(q) - 1 /\ Len(q) \in Nat
  OBVIOUS
<1>2. DOMAIN q = 1 .. Len(q) /\ DOMAIN Tail(q) = 1 .. Len(Tail(q)) /\ Head(q) = q[1]
  BY <1>1
<1>3. \A i \in 1 .. Len(Tail(q)) : i + 1 \in 1 .. Len(q) /\ Tail(q)[i] = q[i + 1]
  BY <1>1
<1>4. ASSUME NEW x \in Elems(q)
      PROVE  x \in Elems(Tail(q)) \union {Head(q)}
  <2>1. PICK i \in 1 .. Len(q) : x = q[i]
    BY <1>2 DEF Elems
  <2>2. CASE i = 1
    BY <1>2, <2>1, <2>2
  <2>3. CASE i # 1
    <3>1. i - 1 \in 1 .. Len(Tail(q)) /\ (i - 1) + 1 = i
      BY <1>1, <2>3
    <3>2. Tail(q)[i - 1] = x
      BY <1>3, <2>1, <3>1
    <3>3. QED BY <1>2, <3>1, <3>2 DEF Elems
  <2>4. QED BY <2>2, <2>3
<1>5. ASSUME NEW x \in Elems(Tail(q)) \union {Head(q)}
      PROVE  x \in Elems(q)
  <2>1. CASE x = Head(q)
    <3>1. 1 \in 1 .. Len(q)
      BY <1>1
    <3>2. QED BY <1>2, <2>1, <3>1 DEF Elems
  <2>2. CASE x \in Elems(Tail(q))
    <3>1. PICK i \in 1 .. Len(Tail(q)) : x = Tail(q)[i]
      BY <1>2, <2>2 DEF Elems
    <3>2. QED BY <1>2, <1>3, <3>1 DEF Elems
  <2>3. QED BY <1>5, <2>1, <2>2
<1>6. QED BY <1>4, <1>5

LEMMA ElemsAppend ==
    ASSUME NEW q \in Seq(Units), NEW p \in Units
    PROVE  Elems(Append(q, p)) = Elems(q) \union {p}
<1>1. /\ DOMAIN Append(q, p) = 1 .. Len(q) + 1 /\ DOMAIN q = 1 .. Len(q) /\ Len(q) \in Nat
      /\ \A i \in 1 .. Len(q) : Append(q, p)[i] = q[i]
      /\ Append(q, p)[Len(q) + 1] = p
  OBVIOUS
<1>2. 1 .. Len(q) + 1 = (1 .. Len(q)) \union {Len(q) + 1}
  BY <1>1
<1>3. ASSUME NEW x \in Elems(Append(q, p))
      PROVE  x \in Elems(q) \union {p}
  BY <1>1, <1>2 DEF Elems
<1>4. ASSUME NEW x \in Elems(q) \union {p}
      PROVE  x \in Elems(Append(q, p))
  BY <1>1, <1>2 DEF Elems
<1>5. QED BY <1>3, <1>4

LEMMA HoldersSame ==
    ASSUME NEW p, \A s \in Streams : Holds(s, p)' <=> Holds(s, p)
    PROVE  Holders(p)' = Holders(p)
BY DEF Holders

LEMMA RefsFree ==
    ASSUME TypeOK, RefsMatch, NEW S \in SUBSET Streams, FreePacks(S)
    PROVE  RefsMatch'
<1> SUFFICES ASSUME NEW p \in Units
             PROVE  refs'[p] = Cardinality(Holders(p)')
  BY DEF RefsMatch
<1>1. refs'[p] = refs[p] - Cardinality(S \cap Holders(p))
  BY DEF FreePacks
<1>2. Holders(p)' = Holders(p) \ S
  <2>1. \A s \in S : ~Holds(s, p)'
    <3>1. \A s \in S : queue'[s] = <<>> /\ current'[s] = 0
      BY DEF FreePacks
    <3>2. p # 0 /\ Elems(<<>>) = {}
      BY SizeAssumption DEF Units, Elems
    <3>3. QED BY <3>1, <3>2 DEF Holds
  <2>2. \A s \in Streams \ S : Holds(s, p)' <=> Holds(s, p)
    BY DEF FreePacks, Holds
  <2>3. QED BY <2>1, <2>2 DEF Holders
<1>3. Cardinality(Holders(p) \ S) = Cardinality(Holders(p)) - Cardinality(Holders(p) \cap S)
  BY HoldersFinite, FS_Difference
<1>4. Holders(p) \cap S = S \cap Holders(p)
  OBVIOUS
<1>5. refs[p] = Cardinality(Holders(p))
  BY DEF RefsMatch
<1>6. QED BY <1>1, <1>2, <1>3, <1>4, <1>5

LEMMA RefsStep ==
    ASSUME BaseInv, QueueInv, RefsMatch, [Next]_vars
    PROVE  RefsMatch'
<1>1. TypeOK /\ CountOK /\ FillOK
  BY DEF BaseInv
<1>2. CASE UNCHANGED <<queue, current, refs>>
  <2>1. \A p \in Units : Holders(p)' = Holders(p)
    BY <1>2 DEF Holders, Holds
  <2>2. QED BY <1>2, <2>1 DEF RefsMatch
<1>3. CASE (\E s \in Streams : Read(s)) \/ GetPacketSub
  BY <1>1, <1>2, <1>3, ReadFacts
<1>4. CASE StartFill
  <2>1. PICK r \in Streams :
          /\ r = call.s /\ UNCHANGED queue /\ current' = [current EXCEPT ![r] = 0]
          /\ refs' = [p \in Units |-> IF p = current[r] THEN refs[p] - 1 ELSE refs[p]]
    <3>1. refs' = [p \in Units |-> IF p = current[call.s] THEN refs[p] - 1 ELSE refs[p]]
      BY <1>4 DEF StartFill
    <3>2. QED BY <1>1, <1>4, <3>1, StartFacts
  <2> SUFFICES ASSUME NEW p \in Units
               PROVE  refs'[p] = Cardinality(Holders(p)')
    BY DEF RefsMatch
  <2>2. refs[p] = Cardinality(Holders(p)) /\ p # 0
    BY SizeAssumption DEF RefsMatch, Units
  <2>3. current'[r] = 0 /\ \A s \in Streams \ {r} : current'[s] = current[s]
    BY <1>1, <2>1 DEF TypeOK
  <2>4. \A s \in Streams \ {r} : Holds(s, p)' <=> Holds(s, p)
    BY <2>1, <2>3 DEF Holds
  <2>5. CASE p # current[r]
    <3>1. Holds(r, p)' <=> Holds(r, p)
      BY <2>1, <2>2, <2>3, <2>5 DEF Holds
    <3>2. Holders(p)' = Holders(p)
      BY <2>4, <3>1, HoldersSame
    <3>3. QED BY <2>1, <2>2, <2>5, <3>2
  <2>6. CASE p = current[r]
    <3>1. ~Holds(r, p)' /\ Holds(r, p)
      BY <1>1, <2>1, <2>2, <2>3, <2>6, CurrentUnqueued DEF Holds
    <3>2. Holders(p)' = Holders(p) \ {r} /\ r \in Holders(p)
      BY <2>4, <3>1 DEF Holders
    <3>3. Cardinality(Holders(p) \ {r}) = Cardinality(Holders(p)) - 1
      BY <3>2, HoldersFinite, FS_RemoveElement
    <3>4. refs'[p] = refs[p] - 1
      BY <2>1, <2>6
    <3>5. QED BY <2>2, <3>2, <3>3, <3>4
  <2>7. QED BY <2>5, <2>6
<1>5. CASE FillTake
  <2>1. PICK r \in Streams :
          /\ Len(queue[r]) > 0 /\ current[r] = 0 /\ UNCHANGED refs
          /\ queue' = [queue EXCEPT ![r] = Tail(queue[r])]
          /\ current' = [current EXCEPT ![r] = Head(queue[r])]
    BY <1>1, <1>5, TakeFacts DEF FillOK
  <2>2. queue[r] \in Seq(Units)
    BY <1>1 DEF TypeOK
  <2>3. Elems(queue[r]) = Elems(Tail(queue[r])) \union {Head(queue[r])}
    BY <2>1, <2>2, ElemsTail
  <2>4. queue'[r] = Tail(queue[r]) /\ current'[r] = Head(queue[r])
    BY <1>1, <2>1 DEF TypeOK
  <2>5. \A s \in Streams \ {r} : queue'[s] = queue[s] /\ current'[s] = current[s]
    BY <1>1, <2>1 DEF TypeOK
  <2>6. \A p \in Units : \A s \in Streams : Holds(s, p)' <=> Holds(s, p)
    <3>1. \A p \in Units : p # 0
      BY SizeAssumption DEF Units
    <3>2. \A p \in Units : Holds(r, p)' <=> Holds(r, p)
      BY <2>1, <2>3, <2>4, <3>1 DEF Holds
    <3>3. \A p \in Units : \A s \in Streams \ {r} : Holds(s, p)' <=> Holds(s, p)
      BY <2>5 DEF Holds
    <3>4. QED BY <3>2, <3>3
  <2>7. \A p \in Units : Holders(p)' = Holders(p)
    BY <2>6, HoldersSame
  <2>8. QED BY <2>1, <2>7 DEF RefsMatch
<1>6. CASE FillDemux
  <2>1. DemuxOne /\ filepos \in Units /\ UNCHANGED current
    BY <1>1, <1>6, DemuxTypes DEF FillDemux
  <2>2. \A s \in Streams : queue'[s] = IF s \in Receivers(filepos)
                                       THEN Append(queue[s], filepos) ELSE queue[s]
    BY <2>1 DEF DemuxOne
  <2>3. refs' = [refs EXCEPT ![filepos] = Cardinality(Receivers(filepos))]
    BY <2>1 DEF DemuxOne
  <2>4. \A s \in Streams : Elems(queue'[s]) =
            IF s \in Receivers(filepos) THEN Elems(queue[s]) \union {filepos} ELSE Elems(queue[s])
    <3>1. \A s \in Streams : queue[s] \in Seq(Units)
      BY <1>1 DEF TypeOK
    <3>2. QED BY <2>1, <2>2, <3>1, ElemsAppend
  <2> SUFFICES ASSUME NEW p \in Units
               PROVE  refs'[p] = Cardinality(Holders(p)')
    BY DEF RefsMatch
  <2>5. CASE p = filepos
    <3>1. Holders(p)' = Receivers(filepos)
      <4>1. \A s \in Streams : ~Holds(s, filepos)
        BY <1>1, UnreadUnheld
      <4>2. \A s \in Streams : Holds(s, p)' <=> s \in Receivers(filepos)
        BY <2>1, <2>4, <2>5, <4>1 DEF Holds
      <4>3. Receivers(filepos) \subseteq Streams
        BY DEF Receivers
      <4>4. QED BY <4>2, <4>3 DEF Holders
    <3>2. refs'[p] = Cardinality(Receivers(filepos))
      <4>1. refs \in [Units -> Int]
        BY <1>1 DEF TypeOK
      <4>2. QED BY <2>1, <2>3, <2>5, <4>1
    <3>3. QED BY <3>1, <3>2
  <2>6. CASE p # filepos
    <3>1. \A s \in Streams : Holds(s, p)' <=> Holds(s, p)
      BY <2>1, <2>4, <2>6 DEF Holds
    <3>2. Holders(p)' = Holders(p)
      BY <3>1, HoldersSame
    <3>3. refs'[p] = refs[p]
      BY <1>1, <2>3, <2>6 DEF TypeOK
    <3>4. QED BY <3>2, <3>3 DEF RefsMatch
  <2>7. QED BY <2>5, <2>6
<1>7. CASE FillEof \/ PeekDone \/ SubOff
  BY <1>2, <1>7 DEF FillEof, PeekDone, SubOff, fileVars, dsVars
<1>8. CASE GiveRest \/ GiveData \/ GivePattern
  BY <1>2, <1>8, GiveFacts
<1>9. CASE Selects
  <2>1. PICK s \in Streams : FreePacks({s})
    BY <1>1, <1>9, SelectFacts
  <2>2. {s} \in SUBSET Streams
    OBVIOUS
  <2>3. QED BY <1>1, <2>1, <2>2, RefsFree
<1>10. CASE Seeks
  BY <1>1, <1>10, SeekFacts, RefsFree
<1>11. CASE UNCHANGED vars
  BY <1>2, <1>11 DEF vars
<1>12. QED
  BY <1>3, <1>4, <1>5, <1>6, <1>7, <1>8, <1>9, <1>10, <1>11 DEF Next, Continue, Selects, Seeks

\* A packet's memory is released when the last stream that holds it lets go.
THEOREM RefsCounted == Spec => []RefsMatch
<1>1. Init => RefsMatch
  <2> SUFFICES ASSUME Init, NEW p \in Units
               PROVE  refs[p] = Cardinality(Holders(p))
    BY DEF RefsMatch
  <2>1. p # 0 /\ Elems(<<>>) = {}
    BY SizeAssumption DEF Units, Elems
  <2>2. Holders(p) = {}
    BY <2>1 DEF Init, Holders, Holds
  <2>3. QED BY <2>2, FS_EmptySet DEF Init
<1>2. QED BY <1>1, QueueInductive, RefsStep, PTL DEF Spec

-----------------------------------------------------------------------------
(* What the readers have been given, where a stream is not skipped by direct  *)
(* calls of ds_fill_buffer and read as whole packets too.                     *)

Disciplined == Whole \cap Filled = {}

Inv == BaseInv /\ QueueInv /\ ReaderInv

\* Whether the call is about to give what it took for s.
Taken(s) == ~Idle /\ call.s = s /\ call.at = "filled"

LEMMA ReaderSame ==
    ASSUME NEW r \in Streams, ReaderOK(r),
           UNCHANGED <<file, filepos, queue[r], current[r], pos[r], size[r], id[r], sh[r],
                       nextU[r], nextB[r]>>,
           Taken(r)' <=> Taken(r)
    PROVE  ReaderOK(r)'
<1>1. Ready(r)' <=> Ready(r)
  BY DEF Ready, Taken
<1>2. QueuedOK(r)' <=> QueuedOK(r)
  BY DEF QueuedOK
<1>3. NoneLost(r)' <=> NoneLost(r)
  BY <1>1 DEF NoneLost, After
<1>4. ReadyOK(r)' <=> ReadyOK(r)
  BY DEF ReadyOK
<1>5. QED BY <1>1, <1>2, <1>3, <1>4 DEF ReaderOK, Taken

\* A stream whose queue is emptied is read from the demuxer's place on.
LEMMA ReaderEmptied ==
    ASSUME NEW r \in Streams, queue'[r] = <<>>, current'[r] = 0,
           filepos' \in 1 .. Size + 1, nextU'[r] = filepos', nextB'[r] = 0,
           id'[r] \in {sh'[r], NoTrack}
    PROVE  ReaderOK(r)'
<1>1. ~Ready(r)'
  BY DEF Ready
<1>2. QueuedOK(r)'
  BY DEF QueuedOK
<1>3. NoneLost(r)'
  <2>1. nextU'[r] .. filepos' - 1 = {}
    BY SizeAssumption
  <2>2. QED BY <2>1 DEF NoneLost
<1>4. nextU'[r] <= filepos'
  BY SizeAssumption
<1>5. QED BY <1>1, <1>2, <1>3, <1>4 DEF ReaderOK

\* A call on the stream of a decoder is of one of the kinds made on it.
LEMMA CallsRead ==
    ASSUME Disciplined, TypeOK, (\E s \in Streams : Read(s)) \/ GetPacketSub
    PROVE  ~Idle' =>
             /\ sh[call'.s] # NoTrack
             /\ call'.op = "get2" => call'.s \in Whole
             /\ call'.op = "fill" => call'.s \in Filled
             /\ call'.op \in {"data", "pattern"} => call'.s # "sub"
             /\ call'.s \in Whole => call'.op \in {"get2", "fill", "peek"} \/ call'.s = "sub"
<1>1. ASSUME NEW op, NEW s, NEW want, Begin(op, s, want)
      PROVE  call'.op = op /\ call'.s = s
  BY <1>1 DEF Begin, Running
<1>2. ASSUME NEW s \in Streams, Read(s), ~Idle'
      PROVE  /\ sh[s] # NoTrack /\ call'.s = s
             /\ call'.op = "get2" => s \in Whole
             /\ call'.op = "fill" => s \in Filled
             /\ call'.op \in {"data", "pattern"} => s # "sub"
             /\ s \in Whole => call'.op \in {"get2", "fill", "peek"} \/ s = "sub"
  <2>1. CASE GetPacket(s)
    BY <1>1, <1>2, <2>1 DEF Read, GetPacket, Bytewise
  <2>2. CASE GetPacket2(s)
    BY <1>1, <1>2, <2>2 DEF Read, GetPacket2
  <2>3. CASE RepeatLast(s)
    BY <1>2, <2>3 DEF RepeatLast, Return, Idle
  <2>4. CASE ReadData(s)
    BY <1>1, <1>2, <2>4 DEF Read, ReadData, Bytewise
  <2>5. CASE Pattern3(s)
    BY <1>1, <1>2, <2>5 DEF Read, Pattern3, Bytewise
  <2>6. CASE FillDirectly(s)
    BY <1>1, <1>2, <2>6 DEF Read, FillDirectly
  <2>7. CASE GetNextPts(s)
    BY <1>1, <1>2, <2>7 DEF Read, GetNextPts
  <2>8. QED BY <1>2, <2>1, <2>2, <2>3, <2>4, <2>5, <2>6, <2>7 DEF Read
<1>3. ASSUME GetPacketSub, ~Idle'
      PROVE  sh["sub"] # NoTrack /\ call'.s = "sub" /\ call'.op = "get"
  <2>1. sh["sub"] # NoTrack
    BY <1>3 DEF GetPacketSub, Disciplined
  <2>2. CASE pos["sub"] >= size["sub"] /\ packs["sub"] = 0
    BY <1>3, <2>2 DEF GetPacketSub, Return, Idle
  <2>3. CASE ~(pos["sub"] >= size["sub"] /\ packs["sub"] = 0)
    BY <1>1, <1>3, <2>1, <2>3 DEF GetPacketSub
  <2>4. QED BY <2>2, <2>3
<1>4. QED BY <1>2, <1>3

LEMMA CallInvKept ==
    ASSUME CallInv, nextB'["sub"] = 0, UNCHANGED <<id, sh>>,
           Idle' \/ (~Idle' /\ ~Idle /\ call'.s = call.s /\ call'.op = call.op)
    PROVE  CallInv'
BY DEF CallInv

LEMMA CallInvIdle ==
    ASSUME nextB'["sub"] = 0, Idle'
    PROVE  CallInv'
BY DEF CallInv

\* A stream with nothing in hand, before and after.
LEMMA ReaderUnready ==
    ASSUME NEW r \in Streams, ReaderOK(r), ~Ready(r), ~Ready(r)',
           UNCHANGED <<file, filepos, queue[r], id[r], sh[r], nextU[r], nextB[r]>>
    PROVE  ReaderOK(r)'
<1>1. QueuedOK(r)' <=> QueuedOK(r)
  BY DEF QueuedOK
<1>2. NoneLost(r)' <=> NoneLost(r)
  BY DEF NoneLost, After
<1>3. QED BY <1>1, <1>2 DEF ReaderOK

LEMMA ReaderRead ==
    ASSUME Disciplined, Inv, (\E s \in Streams : Read(s)) \/ GetPacketSub
    PROVE  ReaderInv'
<1>1. TypeOK /\ CallInv /\ \A r \in Streams : ReaderOK(r)
  BY DEF Inv, BaseInv, ReaderInv
<1>2. /\ Idle
      /\ UNCHANGED <<file, filepos, refs, id, sh, queue, packs, bytes, current, size, eof,
                     told, nextU, nextB, turns>>
  BY <1>1, ReadFacts
<1>3. CallInv'
  BY <1>1, <1>2, CallsRead DEF CallInv
<1>4. ASSUME UNCHANGED pos, Idle' \/ (~Idle' /\ call'.at = "start"), NEW r \in Streams
      PROVE  ReaderOK(r)'
  <2>1. ~Taken(r) /\ ~Taken(r)'
    BY <1>2, <1>4 DEF Taken
  <2>2. QED BY <1>1, <1>2, <1>4, <2>1, ReaderSame
<1>5. ASSUME NEW s \in Streams, RepeatLast(s), Idle', NEW r \in Streams
      PROVE  ReaderOK(r)'
  <2>1. pos' = [pos EXCEPT ![s] = size[s]] /\ s \in Whole
    BY <1>5 DEF RepeatLast
  <2>2. CASE r = s
    <3>1. ~Ready(s)
      BY <1>1, <1>2, <2>1 DEF ReaderOK
    <3>2. pos'[s] = size[s] /\ size[s] \in Nat /\ UNCHANGED size
      BY <1>1, <1>2, <2>1 DEF TypeOK
    <3>3. ~Ready(s)'
      BY <1>5, <3>2 DEF Ready
    <3>4. QED BY <1>1, <1>2, <2>2, <3>1, <3>3, ReaderUnready
  <2>3. CASE r # s
    <3>1. pos'[r] = pos[r]
      BY <1>1, <2>1, <2>3 DEF TypeOK
    <3>2. ~Taken(r) /\ ~Taken(r)'
      BY <1>2, <1>5 DEF Taken
    <3>3. QED BY <1>1, <1>2, <3>1, <3>2, ReaderSame
  <2>4. QED BY <2>2, <2>3
<1>6. \A r \in Streams : ReaderOK(r)'
  BY <1>1, <1>4, <1>5, ReadFacts
<1>7. QED BY <1>3, <1>6 DEF ReaderInv

LEMMA ReaderStart ==
    ASSUME Disciplined, Inv, StartFill
    PROVE  ReaderInv'
<1>1. TypeOK /\ CallInv /\ (\A r \in Streams : ReaderOK(r)) /\ PosOK
  BY DEF Inv, BaseInv, ReaderInv
<1>2. PICK s \in Streams :
        /\ s = call.s /\ ~Idle /\ call.at = "start" /\ call.op # "peek"
        /\ call.op # "get2" => call.op = "fill" \/ pos[s] >= size[s]
        /\ ~Idle' /\ call'.at = "fill" /\ call'.s = s /\ call'.op = call.op
        /\ current' = [current EXCEPT ![s] = 0]
        /\ UNCHANGED <<file, filepos, id, sh, queue, packs, bytes, pos, size, eof, turns>>
  BY <1>1, StartFacts
<1>3. sh[s] # NoTrack
  BY <1>1, <1>2 DEF CallInv
<1>4. /\ nextU' = [nextU EXCEPT ![s] = IF call.op = "fill" /\ pos[s] < size[s]
                                        THEN current[s] + 1 ELSE nextU[s]]
      /\ nextB' = [nextB EXCEPT ![s] = IF call.op = "fill" /\ pos[s] < size[s]
                                        THEN 0 ELSE nextB[s]]
  BY <1>2 DEF StartFill
<1>5. current'[s] = 0 /\ \A r \in Streams \ {s} :
        current'[r] = current[r] /\ nextU'[r] = nextU[r] /\ nextB'[r] = nextB[r]
  BY <1>1, <1>2, <1>4 DEF TypeOK
<1>6. ASSUME NEW r \in Streams \ {s}
      PROVE  ReaderOK(r)'
  <2>1. ~Taken(r) /\ ~Taken(r)'
    BY <1>2 DEF Taken
  <2>2. QED BY <1>1, <1>2, <1>5, <2>1, ReaderSame
<1>7. ~Ready(s)'
  BY <1>5 DEF Ready
<1>8. CASE Ready(s)
  <2>1. pos[s] < size[s] /\ s \notin Whole /\ current[s] > 0
    BY <1>1, <1>2, <1>8 DEF Ready, ReaderOK
  <2>2. call.op = "fill"
    BY <1>1, <1>2, <2>1 DEF CallInv, TypeOK
  <2>3. nextU'[s] = current[s] + 1 /\ nextB'[s] = 0
    BY <1>1, <1>4, <2>1, <2>2 DEF TypeOK
  <2>4. ReadyOK(s) /\ NoneLost(s) /\ QueuedOK(s) /\ QueueOK(s)
    BY <1>1, <1>3, <1>8 DEF ReaderOK, Inv, QueueInv
  <2>5. current[s] \in Nat /\ filepos \in Nat /\ nextU[s] \in Nat /\ current[s] < filepos
    BY <1>1, <2>4, SizeAssumption DEF TypeOK, QueueOK
  <2>6. nextU'[s] <= filepos /\ nextU[s] <= current[s]
    BY <2>3, <2>4, <2>5 DEF ReadyOK
  <2>7. QueuedOK(s)'
    <3>1. \A i \in 1 .. Len(queue[s]) : current[s] + 1 <= queue[s][i]
      BY <1>1, <2>4, <2>5, QueueElems DEF QueueOK
    <3>2. QED BY <1>2, <2>3, <2>4, <3>1 DEF QueuedOK
  <2>8. NoneLost(s)'
    <3>1. \A p \in current[s] + 1 .. filepos - 1 :
            p \in nextU[s] .. filepos - 1 /\ p # current[s]
      BY <2>5, <2>6
    <3>2. \A p : After(s, p) => After(s, p)'
      BY <1>2, <1>7 DEF After
    <3>3. QED BY <1>2, <2>3, <2>4, <3>1, <3>2 DEF NoneLost
  <2>9. ReaderOK(s)'
    BY <1>1, <1>2, <1>7, <2>3, <2>6, <2>7, <2>8 DEF ReaderOK
  <2>10. nextB'["sub"] = 0
    BY <1>1, <1>5, <2>3 DEF CallInv, Streams
  <2>11. CallInv'
    BY <1>1, <1>2, <2>10, CallInvKept
  <2>12. QED BY <1>6, <2>9, <2>11 DEF ReaderInv
<1>9. CASE ~Ready(s)
  <2>1. ~(pos[s] < size[s])
    BY <1>1, <1>2, <1>9 DEF Ready, PosOK
  <2>2. nextU' = nextU /\ nextB' = nextB
    BY <1>1, <1>4, <2>1 DEF TypeOK
  <2>3. ReaderOK(s)'
    BY <1>1, <1>2, <1>7, <1>9, <2>2, ReaderUnready
  <2>4. CallInv'
    BY <1>1, <1>2, <2>2, CallInvKept DEF CallInv
  <2>5. QED BY <1>6, <2>3, <2>4 DEF ReaderInv
<1>10. QED BY <1>8, <1>9

LEMMA ReaderTake ==
    ASSUME Disciplined, Inv, FillTake
    PROVE  ReaderInv'
<1>1. TypeOK /\ CountOK /\ FillOK /\ CallInv /\ (\A r \in Streams : ReaderOK(r))
  BY DEF Inv, BaseInv, ReaderInv
<1>2. PICK s \in Streams :
        /\ s = call.s /\ ~Idle /\ call.at = "fill"
        /\ Len(queue[s]) > 0 /\ Head(queue[s]) \in Units /\ Head(queue[s]) = queue[s][1]
        /\ current' = [current EXCEPT ![s] = Head(queue[s])]
        /\ pos' = [pos EXCEPT ![s] = 0]
        /\ size' = [size EXCEPT ![s] = file[Head(queue[s])].len]
        /\ queue' = [queue EXCEPT ![s] = Tail(queue[s])]
        /\ \/ call.op = "fill" /\ Idle'
           \/ /\ call.op # "fill" /\ ~Idle' /\ call'.at = "filled"
              /\ call'.s = s /\ call'.op = call.op
        /\ UNCHANGED <<file, filepos, id, sh, nextB>>
  BY <1>1, TakeFacts
<1>3. PICK p \in Units : p = Head(queue[s])
  BY <1>2
<1>4. nextU' = [nextU EXCEPT ![s] = IF call.op = "fill" /\ file[p].len = 0 THEN p + 1 ELSE nextU[s]]
  BY <1>2, <1>3 DEF FillTake
<1>5. /\ current'[s] = p /\ pos'[s] = 0 /\ size'[s] = file[p].len /\ queue'[s] = Tail(queue[s])
      /\ queue[s] \in Seq(Units)
  BY <1>1, <1>2, <1>3 DEF TypeOK
<1>6. \A r \in Streams \ {s} :
        /\ current'[r] = current[r] /\ nextU'[r] = nextU[r] /\ pos'[r] = pos[r]
        /\ size'[r] = size[r] /\ queue'[r] = queue[r]
  BY <1>1, <1>2, <1>4 DEF TypeOK
<1>7. ASSUME NEW r \in Streams \ {s}
      PROVE  ReaderOK(r)'
  <2>1. ~Taken(r) /\ ~Taken(r)'
    BY <1>2 DEF Taken
  <2>2. QED BY <1>1, <1>2, <1>6, <2>1, ReaderSame
<1>8. current[s] = 0 /\ sh[s] # NoTrack
  BY <1>1, <1>2 DEF FillOK, CallInv
<1>9. ~Ready(s) /\ QueuedOK(s) /\ NoneLost(s) /\ nextB[s] = 0 /\ QueueOK(s)
  BY <1>1, <1>8 DEF Ready, ReaderOK, Inv, QueueInv
<1>10. Elems(queue[s]) = Elems(Tail(queue[s])) \union {p}
  BY <1>2, <1>3, <1>5, ElemsTail
<1>11. 1 \in 1 .. Len(queue[s])
  BY <1>2, <1>5
<1>12. file[p].track = sh[s] /\ p >= nextU[s] /\ p < filepos /\ file[p].len \in Nat
  BY <1>1, <1>2, <1>3, <1>9, <1>11, FileTypes DEF QueuedOK, QueueOK
<1>13. /\ p \in Nat /\ filepos \in Nat /\ nextU[s] \in Nat
  BY <1>1, SizeAssumption DEF TypeOK, Units
<1>14. /\ \A i \in 1 .. Len(Tail(queue[s])) :
            i + 1 \in 1 .. Len(queue[s]) /\ Tail(queue[s])[i] = queue[s][i + 1]
       /\ \A i \in 1 .. Len(Tail(queue[s])) : p < Tail(queue[s])[i] /\ Tail(queue[s])[i] \in Nat
  <2>1. Ordered(queue[s])
    BY <1>9 DEF QueueOK
  <2>2. \A i \in 1 .. Len(Tail(queue[s])) :
            i + 1 \in 1 .. Len(queue[s]) /\ Tail(queue[s])[i] = queue[s][i + 1]
    BY <1>2, <1>5, <2>1, OrderedTail
  <2>3. \A i \in 1 .. Len(Tail(queue[s])) : p < Tail(queue[s])[i]
    BY <1>2, <1>3, <1>5, <2>1, OrderedTail
  <2>4. \A i \in 1 .. Len(Tail(queue[s])) : Tail(queue[s])[i] \in Nat
    BY <1>1, <2>2, QueueElems
  <2>5. QED BY <2>2, <2>3, <2>4
<1>15. \A i \in 1 .. Len(Tail(queue[s])) :
          file[Tail(queue[s])[i]].track = sh[s] /\ Tail(queue[s])[i] >= nextU[s]
  BY <1>9, <1>14 DEF QueuedOK
<1>16. nextB'["sub"] = 0
  BY <1>1, <1>2 DEF CallInv
<1>17. CASE call.op = "fill" /\ file[p].len = 0
  <2>1. nextU'[s] = p + 1 /\ nextB'[s] = 0 /\ Idle'
    BY <1>1, <1>2, <1>4, <1>9, <1>17 DEF TypeOK
  <2>2. ~Ready(s)'
    BY <1>5, <1>17, <2>1 DEF Ready
  <2>3. QueuedOK(s)'
    <3>1. \A i \in 1 .. Len(Tail(queue[s])) : Tail(queue[s])[i] >= p + 1
      BY <1>13, <1>14
    <3>2. UNCHANGED <<file, sh>>
      BY <1>2
    <3>3. QED BY <1>5, <1>15, <2>1, <3>1, <3>2 DEF QueuedOK
  <2>4. NoneLost(s)'
    <3>1. \A q \in p + 1 .. filepos - 1 : q \in nextU[s] .. filepos - 1 /\ q # p
      BY <1>12, <1>13
    <3>2. \A q \in p + 1 .. filepos - 1 : file[q].track = sh[s] =>
            q \in Elems(queue[s]) \/ After(s, q)
      BY <1>9, <3>1 DEF NoneLost
    <3>3. \A q : After(s, q) => After(s, q)'
      BY <1>2, <1>5, <1>10, <2>2 DEF After
    <3>4. QED BY <1>2, <1>5, <1>10, <2>1, <3>1, <3>2, <3>3 DEF NoneLost
  <2>5. nextU'[s] <= filepos
    BY <1>12, <1>13, <2>1
  <2>6. ReaderOK(s)'
    BY <1>1, <1>2, <2>1, <2>2, <2>3, <2>4, <2>5 DEF ReaderOK
  <2>7. CallInv'
    BY <1>16, <2>1, CallInvIdle
  <2>8. QED BY <1>7, <2>6, <2>7 DEF ReaderInv
<1>18. CASE ~(call.op = "fill" /\ file[p].len = 0)
  <2>1. nextU'[s] = nextU[s]
    BY <1>1, <1>4, <1>18 DEF TypeOK
  <2>2. Ready(s)'
    <3>1. p > 0
      BY SizeAssumption DEF Units
    <3>2. CASE call.op = "fill"
      <4>1. 0 < file[p].len
        BY <1>12, <1>18, <3>2
      <4>2. QED BY <1>5, <3>1, <4>1 DEF Ready
    <3>3. CASE call.op # "fill"
      BY <1>2, <1>5, <3>1, <3>3 DEF Ready
    <3>4. QED BY <3>2, <3>3
  <2>3. ReadyOK(s)'
    BY <1>2, <1>5, <1>9, <1>12, <2>1 DEF ReadyOK
  <2>4. QueuedOK(s)'
    BY <1>2, <1>5, <1>15, <2>1 DEF QueuedOK
  <2>5. NoneLost(s)'
    <3>1. \A q \in nextU[s] .. filepos - 1 : file[q].track = sh[s] =>
            q \in Elems(Tail(queue[s])) \/ q = p \/ After(s, q)
      BY <1>9, <1>10 DEF NoneLost
    <3>2. \A q : After(s, q) => After(s, q)'
      BY <1>2, <1>5, <1>10 DEF After
    <3>3. QED BY <1>2, <1>5, <2>1, <2>2, <3>1, <3>2 DEF NoneLost
  <2>6. nextU'[s] <= filepos
    BY <1>12, <1>13, <2>1
  <2>7. s \in Whole => ~Idle' /\ call'.s = s /\ call'.at = "filled"
    <3>1. CASE call.op = "fill"
      BY <1>1, <1>2, <3>1 DEF CallInv, Disciplined
    <3>2. CASE call.op # "fill"
      BY <1>2, <3>2
    <3>3. QED BY <3>1, <3>2
  <2>8. ReaderOK(s)'
    BY <1>1, <1>2, <2>2, <2>3, <2>4, <2>5, <2>6, <2>7 DEF ReaderOK
  <2>9. CallInv'
    BY <1>1, <1>2, <1>16, CallInvKept
  <2>10. QED BY <1>7, <2>8, <2>9 DEF ReaderInv
<1>19. QED BY <1>17, <1>18

LEMMA ReaderDemux ==
    ASSUME Inv, FillDemux
    PROVE  ReaderInv'
<1>1. TypeOK /\ CallInv /\ (\A r \in Streams : ReaderOK(r))
  BY DEF Inv, BaseInv, ReaderInv
<1>2. /\ DemuxOne /\ filepos \in Units /\ filepos' = filepos + 1
      /\ UNCHANGED <<file, id, sh, current, pos, size, call, nextU, nextB>>
  BY <1>1, DemuxTypes DEF FillDemux, readerVars
<1>3. filepos \in Nat
  BY <1>2 DEF Units
<1>4. CallInv'
  BY <1>1, <1>2 DEF CallInv, Idle
<1>5. ASSUME NEW s \in Streams
      PROVE  ReaderOK(s)'
  <2>1. Ready(s)' <=> Ready(s)
    BY <1>2 DEF Ready, Idle
  <2>2. ReadyOK(s)' <=> ReadyOK(s)
    BY <1>2 DEF ReadyOK
  <2>3. nextU[s] <= filepos /\ nextU[s] \in Nat
    BY <1>1, SizeAssumption DEF ReaderOK, TypeOK
  <2>4. nextU'[s] <= filepos'
    BY <1>2, <1>3, <2>3
  <2>5. queue[s] \in Seq(Units)
    BY <1>1 DEF TypeOK
  <2>6. CASE sh[s] # NoTrack
    <3>1. QueuedOK(s) /\ NoneLost(s)
      BY <1>1, <2>6 DEF ReaderOK
    <3>2. CASE s \in Receivers(filepos)
      <4>1. queue'[s] = Append(queue[s], filepos) /\ file[filepos].track = sh[s]
        <5>1. queue'[s] = Append(queue[s], filepos)
          BY <1>2, <3>2 DEF DemuxOne
        <5>2. file[filepos].track = id[s] /\ id[s] # NoTrack
          BY <1>1, <1>2, <3>2, FileTypes, TrackAssumption DEF Receivers
        <5>3. QED BY <1>1, <5>1, <5>2 DEF ReaderOK
      <4>0. id[s] = sh[s]
        BY <4>1, <3>2 DEF Receivers
      <4>2. QueuedOK(s)'
        <5>1. /\ Len(Append(queue[s], filepos)) = Len(queue[s]) + 1 /\ Len(queue[s]) \in Nat
              /\ \A i \in 1 .. Len(queue[s]) : Append(queue[s], filepos)[i] = queue[s][i]
              /\ Append(queue[s], filepos)[Len(queue[s]) + 1] = filepos
          BY <1>2, <2>5
        <5>2. \A i \in 1 .. Len(queue[s]) + 1 :
                 /\ file[Append(queue[s], filepos)[i]].track = sh[s]
                 /\ Append(queue[s], filepos)[i] >= nextU[s]
          <6>1. ASSUME NEW i \in 1 .. Len(queue[s]) + 1
                PROVE  /\ file[Append(queue[s], filepos)[i]].track = sh[s]
                       /\ Append(queue[s], filepos)[i] >= nextU[s]
            <7>1. CASE i = Len(queue[s]) + 1
              BY <1>3, <2>3, <4>1, <5>1, <7>1
            <7>2. CASE i \in 1 .. Len(queue[s])
              BY <3>1, <5>1, <7>2 DEF QueuedOK
            <7>3. QED BY <5>1, <7>1, <7>2
          <6>2. QED BY <6>1
        <5>3. QED BY <1>2, <4>1, <5>1, <5>2 DEF QueuedOK
      <4>3. Elems(queue'[s]) = Elems(queue[s]) \union {filepos}
        BY <1>2, <2>5, <4>1, ElemsAppend
      <4>4. NoneLost(s)'
        <5>1. \A p \in nextU[s] .. filepos + 1 - 1 : p = filepos \/ p \in nextU[s] .. filepos - 1
          BY <1>3, <2>3
        <5>2. \A p \in nextU[s] .. filepos + 1 - 1 : file[p].track = sh[s] =>
                p \in Elems(queue'[s]) \/ (Ready(s) /\ p = current[s])
          BY <3>1, <4>0, <4>3, <5>1 DEF NoneLost, After
        <5>3. \A p \in nextU'[s] .. filepos' - 1 : file'[p].track = sh'[s] =>
                p \in Elems(queue'[s]) \/ (Ready(s)' /\ p = current'[s])
          <6>1. UNCHANGED <<file, id, sh, current, nextU>> /\ filepos' - 1 = filepos + 1 - 1
            BY <1>2, <1>3
          <6>2. QED BY <2>1, <5>2, <6>1
        <5>4. QED BY <5>3 DEF NoneLost
      <4>5. QED BY <1>1, <1>2, <2>1, <2>2, <2>4, <4>2, <4>4 DEF ReaderOK, Idle
    <3>3. CASE s \notin Receivers(filepos)
      <4>1. queue'[s] = queue[s] /\ file[filepos].track # id[s]
        BY <1>2, <3>3 DEF DemuxOne, Receivers
      <4>2. QueuedOK(s)'
        BY <1>2, <3>1, <4>1 DEF QueuedOK
      <4>3. NoneLost(s)'
        <5>1. \A p \in nextU[s] .. filepos + 1 - 1 : p = filepos \/ p \in nextU[s] .. filepos - 1
          BY <1>3, <2>3
        <5>2. \A p : After(s, p) => After(s, p)'
          BY <1>2, <2>1, <4>1 DEF After
        <5>3. ASSUME NEW p, p = filepos, file[p].track = sh[s]
              PROVE  After(s, p)'
          <6>1. QueueOK(s) /\ DOMAIN queue[s] = 1 .. Len(queue[s])
            BY <2>5 DEF Inv, QueueInv
          <6>2. (\A q \in Elems(queue[s]) : q < p) /\ current[s] < p
            BY <5>3, <6>1 DEF QueueOK, Elems
          <6>3. /\ id'[s] # sh'[s] /\ current'[s] = current[s]
                /\ Elems(queue'[s]) = Elems(queue[s])
            BY <1>2, <4>1, <5>3 DEF Elems
          <6>4. QED BY <6>2, <6>3 DEF After
        <5>4. UNCHANGED <<file, id, sh, current, nextU>> /\ filepos' - 1 = filepos + 1 - 1
          BY <1>2, <1>3
        <5>5. ASSUME NEW p \in nextU[s] .. filepos + 1 - 1, file[p].track = sh[s]
              PROVE  p \in Elems(queue'[s]) \/ (Ready(s)' /\ p = current'[s]) \/ After(s, p)'
          <6>1. CASE p = filepos
            BY <5>3, <5>5, <6>1
          <6>2. CASE p \in nextU[s] .. filepos - 1
            BY <2>1, <3>1, <4>1, <5>2, <5>4, <5>5, <6>2 DEF NoneLost
          <6>3. QED BY <5>1, <6>1, <6>2
        <5>6. QED BY <5>4, <5>5 DEF NoneLost
      <4>4. QED BY <1>1, <1>2, <2>1, <2>2, <2>4, <4>2, <4>3 DEF ReaderOK, Idle
    <3>4. QED BY <3>2, <3>3
  <2>7. CASE sh[s] = NoTrack
    BY <1>1, <1>2, <2>1, <2>4, <2>7 DEF ReaderOK, Idle
  <2>8. QED BY <2>6, <2>7
<1>6. QED BY <1>4, <1>5 DEF ReaderInv

LEMMA ReaderEof ==
    ASSUME Inv, FillEof
    PROVE  ReaderInv'
<1>1. TypeOK /\ FillOK /\ CallInv /\ (\A r \in Streams : ReaderOK(r))
  BY DEF Inv, BaseInv, ReaderInv
<1>2. PICK s \in Streams : s = call.s
  BY <1>1, RunningType DEF FillEof, NoMore, Hungry
<1>3. /\ ~Idle /\ call.at = "fill" /\ Idle'
      /\ pos' = [pos EXCEPT ![s] = 0] /\ size' = [size EXCEPT ![s] = 0]
      /\ UNCHANGED <<file, filepos, id, sh, queue, current, nextU, nextB>>
  BY <1>2 DEF FillEof, NoMore, Hungry, Return, Idle, fileVars, readerVars
<1>4. current[s] = 0
  BY <1>1, <1>2, <1>3 DEF FillOK
<1>5. ~Ready(s) /\ ~Ready(s)'
  BY <1>3, <1>4 DEF Ready
<1>6. ReaderOK(s)'
  BY <1>1, <1>3, <1>5, ReaderUnready
<1>7. ASSUME NEW r \in Streams \ {s}
      PROVE  ReaderOK(r)'
  <2>1. ~Taken(r) /\ ~Taken(r)'
    BY <1>3 DEF Taken
  <2>2. pos'[r] = pos[r] /\ size'[r] = size[r]
    BY <1>1, <1>3 DEF TypeOK
  <2>3. QED BY <1>1, <1>3, <2>1, <2>2, ReaderSame
<1>8. CallInv'
  BY <1>1, <1>3, CallInvIdle DEF CallInv
<1>9. QED BY <1>6, <1>7, <1>8 DEF ReaderInv

LEMMA ReaderGive ==
    ASSUME Inv, GiveRest \/ GiveData \/ GivePattern
    PROVE  ReaderInv'
<1>1. TypeOK /\ CallInv /\ BaseInv /\ (\A r \in Streams : ReaderOK(r))
  BY DEF Inv, BaseInv, ReaderInv
<1>2. PICK s \in Streams :
        /\ s = call.s /\ ~Idle /\ InHandNow(s) /\ current[s] \in Units
        /\ call.op \in {"get", "get2", "data", "pattern"}
        /\ \E b \in Nat : /\ pos[s] <= b /\ b <= size[s] /\ Give(s, b)
                          /\ call.op \in {"get", "get2"} => b = size[s]
        /\ UNCHANGED <<file, filepos, refs, id, sh, queue, packs, bytes, current, size, eof, turns>>
        /\ Return(s, current[s], Said(s)) \/ \E w : call' = Running(call.op, s, "start", w)
  BY <1>1, GiveFacts
<1>3. PICK b \in Nat : /\ pos[s] <= b /\ b <= size[s] /\ Give(s, b)
                       /\ call.op \in {"get", "get2"} => b = size[s]
  BY <1>2
<1>4. PICK p \in Units : p = current[s]
  BY <1>2
<1>5. /\ pos' = [pos EXCEPT ![s] = b]
      /\ nextU' = [nextU EXCEPT ![s] = IF b = size[s] THEN p + 1 ELSE p]
      /\ nextB' = [nextB EXCEPT ![s] = IF b = size[s] THEN 0 ELSE b]
  BY <1>3, <1>4 DEF Give
<1>6. \A r \in Streams \ {s} : pos'[r] = pos[r] /\ nextU'[r] = nextU[r] /\ nextB'[r] = nextB[r]
  BY <1>1, <1>5 DEF TypeOK
<1>7. /\ pos'[s] = b /\ nextU'[s] = IF b = size[s] THEN p + 1 ELSE p
      /\ nextB'[s] = IF b = size[s] THEN 0 ELSE b
  BY <1>1, <1>5 DEF TypeOK
<1>8. Idle' \/ (~Idle' /\ call'.s = s /\ call'.op = call.op /\ call'.at = "start")
  BY <1>2 DEF Return, Running, Idle
<1>9. sh[s] # NoTrack
  BY <1>1, <1>2 DEF CallInv
<1>10. Ready(s)
  <2>1. p > 0
    BY SizeAssumption DEF Units
  <2>2. QED BY <1>2, <1>4, <2>1 DEF Ready, InHandNow
<1>11. QueuedOK(s) /\ NoneLost(s) /\ ReadyOK(s) /\ QueueOK(s)
  BY <1>1, <1>9, <1>10 DEF ReaderOK, Inv, QueueInv
<1>12. /\ p \in Nat /\ filepos \in Nat /\ nextU[s] \in Nat /\ size[s] \in Nat
       /\ p < filepos /\ nextU[s] <= p
  BY <1>1, <1>4, <1>11, SizeAssumption DEF TypeOK, QueueOK, ReadyOK, Units
<1>13. ASSUME NEW r \in Streams \ {s}
       PROVE  ReaderOK(r)'
  <2>1. ~Taken(r) /\ ~Taken(r)'
    BY <1>2, <1>8 DEF Taken
  <2>2. QED BY <1>1, <1>2, <1>6, <2>1, ReaderSame
<1>14. b = size[s] \/ (s # "sub" /\ s \notin Whole)
  BY <1>1, <1>2, <1>3 DEF CallInv
<1>15. CallInv'
  <2>1. nextB'["sub"] = 0
    BY <1>1, <1>6, <1>7, <1>14 DEF CallInv, Streams
  <2>2. QED BY <1>1, <1>2, <1>8, <2>1, CallInvKept
<1>16. \A i \in 1 .. Len(queue[s]) : p < queue[s][i] /\ queue[s][i] \in Nat
  BY <1>1, <1>4, <1>11, QueueElems DEF QueueOK
<1>17. CASE b = size[s]
  <2>1. ~Ready(s)'
    BY <1>2, <1>7, <1>8, <1>12, <1>17 DEF Ready
  <2>2. QueuedOK(s)'
    <3>1. \A i \in 1 .. Len(queue[s]) : queue[s][i] >= p + 1
      BY <1>12, <1>16
    <3>2. QED BY <1>2, <1>7, <1>11, <1>17, <3>1 DEF QueuedOK
  <2>3. NoneLost(s)'
    <3>1. \A q \in p + 1 .. filepos - 1 : q \in nextU[s] .. filepos - 1 /\ q # p
      BY <1>12
    <3>2. \A q : After(s, q) => After(s, q)'
      BY <1>2, <2>1 DEF After
    <3>3. QED BY <1>2, <1>4, <1>7, <1>11, <1>17, <3>1, <3>2 DEF NoneLost
  <2>4. nextU'[s] <= filepos
    BY <1>7, <1>12, <1>17
  <2>5. ReaderOK(s)'
    BY <1>1, <1>2, <1>7, <1>17, <2>1, <2>2, <2>3, <2>4 DEF ReaderOK
  <2>6. QED BY <1>13, <1>15, <2>5 DEF ReaderInv
<1>18. CASE b # size[s]
  <2>1. pos'[s] < size'[s] /\ nextU'[s] = p /\ nextB'[s] = b
    BY <1>2, <1>3, <1>7, <1>12, <1>18
  <2>2. Ready(s)'
    BY <1>2, <1>10, <2>1 DEF Ready
  <2>3. ReadyOK(s)'
    BY <1>2, <1>4, <1>7, <1>11, <1>12, <2>1 DEF ReadyOK
  <2>4. QueuedOK(s)'
    <3>1. \A i \in 1 .. Len(queue[s]) : queue[s][i] >= p
      BY <1>12, <1>16
    <3>2. QED BY <1>2, <1>11, <2>1, <3>1 DEF QueuedOK
  <2>5. NoneLost(s)'
    <3>1. \A q \in p .. filepos - 1 : q \in nextU[s] .. filepos - 1
      BY <1>12
    <3>2. \A q : After(s, q) => After(s, q)'
      BY <1>2, <1>10 DEF After
    <3>3. QED BY <1>2, <1>4, <1>11, <2>1, <2>2, <3>1, <3>2 DEF NoneLost
  <2>6. nextU'[s] <= filepos
    BY <1>12, <2>1
  <2>7. ReaderOK(s)'
    BY <1>1, <1>2, <1>14, <1>18, <2>2, <2>3, <2>4, <2>5, <2>6 DEF ReaderOK
  <2>8. QED BY <1>13, <1>15, <2>7 DEF ReaderInv
<1>19. QED BY <1>17, <1>18

LEMMA ReaderTurns ==
    ASSUME Inv, PeekDone \/ Selects \/ Seeks \/ SubOff
    PROVE  ReaderInv'
<1>1. TypeOK /\ TypeOK' /\ CallInv /\ BaseInv /\ (\A r \in Streams : ReaderOK(r))
  BY TypeStep DEF Inv, BaseInv, ReaderInv, Next, Continue, Selects, Seeks
<1>2. CASE PeekDone
  <2>1. /\ ~Idle /\ call.at = "start" /\ Idle'
        /\ UNCHANGED <<file, filepos, id, sh, queue, current, pos, size, nextU, nextB>>
    <3>1. ~Idle /\ call.op = "peek"
      BY <1>2 DEF PeekDone
    <3>2. call.at = "start"
      BY <1>1, <3>1 DEF TypeOK, CallOK, Idle
    <3>3. Idle' /\ UNCHANGED <<file, filepos, id, sh, queue, current, pos, size, nextU, nextB>>
      BY <1>2 DEF PeekDone, Return, Idle, fileVars, dsVars
    <3>4. QED BY <3>1, <3>2, <3>3
  <2>2. \A r \in Streams : ~Taken(r) /\ ~Taken(r)'
    BY <2>1 DEF Taken
  <2>3. \A r \in Streams : ReaderOK(r)'
    BY <1>1, <2>1, <2>2, ReaderSame
  <2>4. CallInv'
    BY <1>1, <2>1, CallInvIdle DEF CallInv
  <2>5. QED BY <2>3, <2>4 DEF ReaderInv
<1>3. CASE Selects
  <2>1. PICK s \in Streams :
          /\ FreePacks({s}) /\ (\E t : id' = [id EXCEPT ![s] = t] /\ sh' = [sh EXCEPT ![s] = t])
          /\ nextU' = [nextU EXCEPT ![s] = filepos] /\ nextB' = [nextB EXCEPT ![s] = 0]
          /\ Return(s, -1, 0) /\ UNCHANGED <<file, filepos>> /\ Idle
    BY <1>1, <1>3, SelectFacts
  <2>2. /\ queue'[s] = <<>> /\ current'[s] = 0 /\ nextU'[s] = filepos /\ nextB'[s] = 0
        /\ UNCHANGED size /\ Idle' /\ id'[s] = sh'[s]
    BY <1>1, <2>1 DEF FreePacks, TypeOK, Return, Idle
  <2>3. ReaderOK(s)'
    BY <1>1, <2>1, <2>2, ReaderEmptied DEF TypeOK
  <2>4. \A r \in Streams \ {s} :
          /\ queue'[r] = queue[r] /\ current'[r] = current[r] /\ pos'[r] = pos[r]
          /\ id'[r] = id[r] /\ sh'[r] = sh[r] /\ nextU'[r] = nextU[r] /\ nextB'[r] = nextB[r]
    BY <1>1, <2>1 DEF FreePacks, TypeOK
  <2>5. \A r \in Streams : ~Taken(r) /\ ~Taken(r)'
    BY <2>1, <2>2 DEF Taken
  <2>6. \A r \in Streams \ {s} : ReaderOK(r)'
    BY <1>1, <2>1, <2>2, <2>4, <2>5, ReaderSame
  <2>7. nextB'["sub"] = 0
    BY <1>1, <2>2, <2>4 DEF CallInv, Streams
  <2>8. CallInv'
    BY <2>2, <2>7, CallInvIdle
  <2>9. QED BY <2>3, <2>6, <2>8 DEF ReaderInv
<1>4. CASE Seeks
  <2>1. /\ FreePacks(Streams) /\ \E p \in 1 .. Size + 1 : MoveTo(p)
        /\ Return("video", -1, 0) /\ UNCHANGED <<id, sh>>
    BY <1>1, <1>4, SeekFacts
  <2>2. \A s \in Streams :
          /\ queue'[s] = <<>> /\ current'[s] = 0 /\ nextU'[s] = filepos' /\ nextB'[s] = 0
    BY <2>1 DEF FreePacks, MoveTo
  <2>3. \A s \in Streams : ReaderOK(s)'
    <3>1. \A s \in Streams : id'[s] \in {sh'[s], NoTrack}
      BY <1>1, <2>1 DEF ReaderOK
    <3>2. QED BY <1>1, <2>2, <3>1, ReaderEmptied DEF TypeOK
  <2>4. Idle' /\ nextB'["sub"] = 0
    BY <2>1, <2>2 DEF Return, Idle, Streams
  <2>5. QED BY <2>3, <2>4, CallInvIdle DEF ReaderInv
<1>5. CASE SubOff
  <2>1. /\ Idle /\ Idle' /\ id' = [id EXCEPT !["sub"] = NoTrack]
        /\ UNCHANGED <<file, filepos, sh, queue, current, pos, size, nextU, nextB>>
    BY <1>5 DEF SubOff, Turn, Return, Idle, fileVars, dsVars, readerVars
  <2>2. id'["sub"] = NoTrack /\ \A r \in Streams \ {"sub"} : id'[r] = id[r]
    BY <1>1, <2>1 DEF TypeOK, Streams
  <2>3. \A r \in Streams : ~Taken(r) /\ ~Taken(r)' /\ (Ready(r)' <=> Ready(r))
    BY <2>1 DEF Taken, Ready
  <2>4. ASSUME NEW r \in Streams
        PROVE  ReaderOK(r)'
    <3>1. CASE r = "sub"
      <4>1. \A p : After(r, p) /\ sh[r] # NoTrack => After(r, p)'
        BY <2>1, <2>2, <2>3, <3>1 DEF After
      <4>2. sh[r] # NoTrack => QueuedOK(r)' /\ NoneLost(r)' /\ (Ready(r) => ReadyOK(r)')
        BY <1>1, <2>1, <2>3, <4>1 DEF ReaderOK, QueuedOK, NoneLost, ReadyOK
      <4>3. ~(r \in Whole /\ Ready(r))
        BY <1>1, <2>1 DEF ReaderOK
      <4>4. QED BY <1>1, <2>1, <2>2, <2>3, <3>1, <4>2, <4>3 DEF ReaderOK
    <3>2. CASE r # "sub"
      BY <1>1, <2>1, <2>2, <2>3, <3>2, ReaderSame
    <3>3. QED BY <3>1, <3>2
  <2>5. CallInv'
    BY <1>1, <2>1, CallInvIdle DEF CallInv
  <2>6. QED BY <2>4, <2>5 DEF ReaderInv
<1>6. QED BY <1>2, <1>3, <1>4, <1>5

LEMMA Inductive ==
    ASSUME Disciplined
    PROVE  (Init => Inv) /\ (Inv /\ [Next]_vars => Inv')
<1>1. ASSUME Init
      PROVE  ReaderInv
  <2>1. \A s \in Streams : /\ queue[s] = <<>> /\ current[s] = 0 /\ nextU[s] = 1 /\ nextB[s] = 0
                           /\ filepos = 1 /\ id[s] = sh[s]
    BY <1>1 DEF Init
  <2>2. ASSUME NEW s \in Streams
        PROVE  ReaderOK(s)
    <3>1. ~Ready(s) /\ QueuedOK(s)
      BY <2>1 DEF Ready, QueuedOK
    <3>2. NoneLost(s)
      <4>1. nextU[s] .. filepos - 1 = {}
        BY <2>1
      <4>2. QED BY <4>1 DEF NoneLost
    <3>3. QED BY <2>1, <3>1, <3>2 DEF ReaderOK
  <2>3. CallInv
    BY <1>1, <2>1 DEF Init, CallInv, Idle, Streams
  <2>4. QED BY <2>2, <2>3 DEF ReaderInv
<1>2. ASSUME Inv, [Next]_vars
      PROVE  ReaderInv'
  <2>1. CASE (\E s \in Streams : Read(s)) \/ GetPacketSub
    BY <1>2, <2>1, ReaderRead
  <2>2. CASE StartFill
    BY <1>2, <2>2, ReaderStart
  <2>3. CASE FillTake
    BY <1>2, <2>3, ReaderTake
  <2>4. CASE FillDemux
    BY <1>2, <2>4, ReaderDemux
  <2>5. CASE FillEof
    BY <1>2, <2>5, ReaderEof
  <2>6. CASE GiveRest \/ GiveData \/ GivePattern
    BY <1>2, <2>6, ReaderGive
  <2>7. CASE PeekDone \/ Selects \/ Seeks \/ SubOff
    BY <1>2, <2>7, ReaderTurns
  <2>8. CASE UNCHANGED vars
    <3>1. \A r \in Streams : (Taken(r)' <=> Taken(r)) /\ ReaderOK(r)
      BY <1>2, <2>8 DEF vars, Taken, Idle, Inv, ReaderInv
    <3>2. UNCHANGED <<file, filepos, queue, current, pos, size, id, sh, nextU, nextB, call>>
      BY <2>8 DEF vars
    <3>3. \A r \in Streams : ReaderOK(r)'
      BY <3>1, <3>2, ReaderSame
    <3>4. CallInv'
      BY <1>2, <3>2 DEF Inv, ReaderInv, CallInv, Idle
    <3>5. QED BY <3>3, <3>4 DEF ReaderInv
  <2>9. QED
    BY <1>2, <2>1, <2>2, <2>3, <2>4, <2>5, <2>6, <2>7, <2>8 DEF Next, Continue, Selects, Seeks
<1>3. QED BY <1>1, <1>2, QueueInductive DEF Inv

-----------------------------------------------------------------------------
(* The theorems of the reader.                                                *)

\* Every call but one returns with a packet or without an answer of its own.
LEMMA UnitReturned ==
    ASSUME NEW s, NEW p, NEW said, Return(s, p, said)
    PROVE  call'.unit = p
BY DEF Return

LEMMA EofOnly ==
    ASSUME Inv, [Next]_vars, Idle', call'.unit = 0
    PROVE  FillEof \/ UNCHANGED vars
<1>1. TypeOK /\ BaseInv /\ CountOK
  BY DEF Inv, BaseInv
<1>2. -1 # 0
  OBVIOUS
<1>3. ASSUME NEW op \in Calls, NEW s, NEW want, Begin(op, s, want)
      PROVE  FALSE
  BY <1>3 DEF Begin, Running, Idle, Calls
<1>4. CASE GetPacketSub
  <2>1. CASE pos["sub"] >= size["sub"] /\ packs["sub"] = 0
    BY <1>2, <1>4, <2>1, UnitReturned DEF GetPacketSub
  <2>2. CASE ~(pos["sub"] >= size["sub"] /\ packs["sub"] = 0)
    <3>1. "get" \in Calls
      BY DEF Calls
    <3>2. QED BY <1>3, <1>4, <2>2, <3>1 DEF GetPacketSub
  <2>3. QED BY <2>1, <2>2
<1>5. CASE \E s \in Streams : Read(s)
  <2>1. PICK s \in Streams : Read(s)
    BY <1>5
  <2>2. CASE RepeatLast(s)
    <3>1. current[s] > 0 /\ call'.unit = current[s]
      BY <2>2, UnitReturned DEF RepeatLast
    <3>2. ~(0 > 0)
      OBVIOUS
    <3>3. QED BY <3>1, <3>2
  <2>3. CASE ~RepeatLast(s)
    BY <1>3, <2>1, <2>3
       DEF Read, GetPacket, GetPacket2, ReadData, Pattern3, FillDirectly, GetNextPts, Calls
  <2>4. QED BY <2>2, <2>3
<1>6. CASE StartFill
  BY <1>1, <1>6, StartFacts
<1>7. CASE FillTake
  <2>1. call.op = "fill" \/ ~Idle'
    BY <1>1, <1>7, TakeFacts
  <2>2. QED BY <1>2, <1>7, <2>1, UnitReturned DEF FillTake
<1>8. CASE FillDemux
  BY <1>8 DEF FillDemux, Hungry, Idle
<1>9. CASE GiveRest \/ GiveData \/ GivePattern
  <2>1. \/ Return(call.s, current[call.s], Said(call.s))
        \/ \E w : call' = Running(call.op, call.s, "start", w)
    BY <1>1, <1>9, GiveFacts
  <2>2. current[call.s] \in Units /\ call.op # "none"
    BY <1>1, <1>9, GiveFacts
  <2>3. current[call.s] # 0
    BY <2>2, SizeAssumption DEF Units
  <2>4. QED BY <2>1, <2>2, <2>3, UnitReturned DEF Running, Idle
<1>10. CASE PeekDone \/ SubOff
  BY <1>2, <1>10, UnitReturned DEF PeekDone, SubOff
<1>11. CASE Selects
  BY <1>1, <1>2, <1>11, SelectFacts, UnitReturned
<1>12. CASE Seeks
  BY <1>1, <1>2, <1>12, SeekFacts, UnitReturned
<1>13. QED
  BY <1>4, <1>5, <1>6, <1>7, <1>8, <1>9, <1>10, <1>11, <1>12
     DEF Next, Continue, Selects, Seeks

\* The end that a decoder is told of is the track's end, unless a queue is
\* full.
THEOREM EofIsTheEnd ==
    ASSUME Disciplined
    PROVE  Spec => []EofMeansEnd
<1>1. Init => EofMeansEnd
  BY DEF Init, EofMeansEnd, Idle
<1>2. ASSUME Inv, EofMeansEnd, [Next]_vars
      PROVE  EofMeansEnd'
  <2>1. CASE UNCHANGED vars
    BY <1>2, <2>1 DEF vars, EofMeansEnd, Idle, Limited
  <2>2. CASE FillEof
    <3>1. TypeOK /\ CountOK /\ FillOK /\ CallInv /\ \A s \in Streams : ReaderOK(s)
      BY <1>2 DEF Inv, BaseInv, ReaderInv
    <3>2. ~Idle /\ call.at = "fill" /\ packs[call.s] = 0 /\ (Limited \/ filepos > Size)
      BY <2>2 DEF FillEof, NoMore, Hungry
    <3>3. PICK s \in Streams : s = call.s
      BY <3>1, <3>2, RunningType
    <3>4. /\ UNCHANGED <<file, filepos, id, sh, queue, packs, bytes, nextU>>
          /\ call'.s = s
      BY <2>2, <3>3 DEF FillEof, Return, fileVars, readerVars
    <3>5. Limited' <=> Limited
      BY <3>4 DEF Limited
    <3>6. current[s] = 0 /\ sh[s] # NoTrack /\ packs[s] = 0
      BY <3>1, <3>2, <3>3 DEF FillOK, CallInv
    <3>7. ~Ready(s) /\ NoneLost(s)
      BY <3>1, <3>6 DEF Ready, ReaderOK
    <3>8. Elems(queue[s]) = {}
      <4>1. Len(queue[s]) = 0 /\ queue[s] \in Seq(Units)
        BY <3>1, <3>6 DEF CountOK, TypeOK
      <4>2. DOMAIN queue[s] = {}
        BY <4>1
      <4>3. QED BY <4>2 DEF Elems
    <3>9. ASSUME ~Limited, NEW p \in Units, p >= nextU[s]
          PROVE  file[p].track # id[s]
      <4>1. p \in nextU[s] .. filepos - 1
        <5>1. p \in 1 .. Size /\ filepos \in Nat /\ nextU[s] \in Nat /\ Size \in Nat
          BY <3>1, SizeAssumption DEF TypeOK, Units
        <5>2. filepos > Size
          BY <3>2, <3>9
        <5>3. QED BY <3>9, <5>1, <5>2
      <4>2. CASE id[s] = sh[s]
        BY <3>7, <3>8, <4>1, <4>2 DEF NoneLost, After
      <4>3. CASE id[s] # sh[s]
        <5>1. id[s] = NoTrack
          BY <3>1, <4>3 DEF ReaderOK
        <5>2. QED BY <3>1, <5>1, FileTypes, TrackAssumption
      <4>4. QED BY <4>2, <4>3
    <3>10. QED BY <3>4, <3>5, <3>9 DEF EofMeansEnd
  <2>3. CASE ~(Idle' /\ call'.unit = 0)
    BY <2>3 DEF EofMeansEnd
  <2>4. QED BY <1>2, <2>1, <2>2, <2>3, EofOnly
<1>3. QED BY <1>1, <1>2, Inductive, PTL DEF Spec

\* What is in hand comes next, and so does what is first in the queue.
LEMMA ReadyComes ==
    ASSUME Inv, NEW s \in Streams, sh[s] # NoTrack, Ready(s)
    PROVE  Feed!Comes(s, current[s])
<1>1. TypeOK /\ ReaderOK(s) /\ QueueOK(s)
  BY DEF Inv, BaseInv, ReaderInv, QueueInv
<1>2. ReadyOK(s) /\ NoneLost(s)
  BY <1>1 DEF ReaderOK
<1>3. current[s] \in Nat /\ nextU[s] \in Nat /\ filepos \in Nat /\ current[s] < filepos
  BY <1>1, SizeAssumption DEF TypeOK, QueueOK
<1>4. ASSUME NEW q \in nextU[s] .. current[s] - 1
      PROVE  file[q].track # sh[s]
  <2>1. q \in nextU[s] .. filepos - 1 /\ q < current[s] /\ q \in Int
    BY <1>3
  <2>2. ASSUME q \in Elems(queue[s])
        PROVE  FALSE
    <3>1. PICK i \in DOMAIN queue[s] : queue[s][i] = q
      BY <2>2 DEF Elems
    <3>2. queue[s] \in Seq(Units)
      BY <1>1 DEF TypeOK
    <3>3. i \in 1 .. Len(queue[s])
      BY <3>2
    <3>4. current[s] < q
      BY <1>1, <3>1, <3>3 DEF QueueOK
    <3>5. QED BY <1>3, <2>1, <3>4
  <2>3. q # current[s]
    BY <1>3, <2>1
  <2>4. ~After(s, q)
    BY <1>3, <2>1 DEF After
  <2>5. QED BY <1>2, <2>1, <2>2, <2>3, <2>4 DEF NoneLost
<1>5. QED BY <1>2, <1>4 DEF ReadyOK, Feed!Comes

LEMMA HeadComes ==
    ASSUME Inv, NEW s \in Streams, sh[s] # NoTrack, ~Ready(s), Len(queue[s]) > 0
    PROVE  Feed!Comes(s, Head(queue[s]))
<1>1. TypeOK /\ ReaderOK(s) /\ QueueOK(s)
  BY DEF Inv, BaseInv, ReaderInv, QueueInv
<1>2. QueuedOK(s) /\ NoneLost(s) /\ nextB[s] = 0
  BY <1>1 DEF ReaderOK
<1>3. queue[s] \in Seq(Units)
  BY <1>1 DEF TypeOK
<1>4. Head(queue[s]) = queue[s][1] /\ 1 \in 1 .. Len(queue[s]) /\ DOMAIN queue[s] = 1 .. Len(queue[s])
  BY <1>3
<1>5. /\ queue[s][1] \in Nat /\ nextU[s] \in Nat /\ filepos \in Nat /\ queue[s][1] < filepos
      /\ queue[s][1] >= nextU[s] /\ file[queue[s][1]].track = sh[s]
  <2>1. queue[s][1] \in Nat
    BY <1>1, <1>4, QueueElems
  <2>2. nextU[s] \in Nat /\ filepos \in Nat
    BY <1>1, SizeAssumption DEF TypeOK
  <2>3. QED BY <1>1, <1>2, <1>4, <2>1, <2>2 DEF QueueOK, QueuedOK
<1>6. ASSUME NEW q \in nextU[s] .. queue[s][1] - 1
      PROVE  file[q].track # sh[s]
  <2>1. q \in nextU[s] .. filepos - 1 /\ q < queue[s][1] /\ q \in Int
    BY <1>5
  <2>2. ASSUME q \in Elems(queue[s])
        PROVE  FALSE
    <3>1. PICK i \in 1 .. Len(queue[s]) : queue[s][i] = q
      BY <1>4, <2>2 DEF Elems
    <3>2. i = 1 \/ 1 < i
      OBVIOUS
    <3>3. i = 1 \/ queue[s][1] < q
      BY <1>1, <1>4, <3>1, <3>2 DEF QueueOK, Ordered
    <3>4. QED BY <1>5, <2>1, <3>1, <3>3
  <2>3. ~After(s, q)
    <3>1. queue[s][1] \in Elems(queue[s])
      BY <1>4 DEF Elems
    <3>2. QED BY <1>5, <2>1, <3>1 DEF After
  <2>4. QED BY <1>2, <2>1, <2>2, <2>3 DEF NoneLost
<1>7. ~(nextB[s] > 0)
  BY <1>2
<1>8. QED BY <1>4, <1>5, <1>6, <1>7 DEF Feed!Comes

LEMMA GiveIsHand ==
    ASSUME Inv, GiveRest \/ GiveData \/ GivePattern
    PROVE  \E s \in Streams : Feed!Hand(s)
<1>1. TypeOK /\ BaseInv /\ CallInv
  BY DEF Inv, BaseInv, ReaderInv
<1>2. PICK s \in Streams :
        /\ s = call.s /\ ~Idle /\ InHandNow(s) /\ current[s] \in Units
        /\ \E b \in Nat : pos[s] <= b /\ b <= size[s] /\ Give(s, b)
        /\ UNCHANGED <<file, id, sh>>
  BY <1>1, GiveFacts
<1>3. PICK b \in Nat : pos[s] <= b /\ b <= size[s] /\ Give(s, b)
  BY <1>2
<1>4. sh[s] # NoTrack
  BY <1>1, <1>2 DEF CallInv
<1>5. Ready(s)
  <2>1. current[s] > 0
    BY <1>2, SizeAssumption DEF Units
  <2>2. QED BY <1>2, <2>1 DEF Ready, InHandNow
<1>6. ReadyOK(s)
  BY <1>4, <1>5 DEF Inv, ReaderInv, ReaderOK
<1>7. Feed!Comes(s, current[s])
  BY <1>4, <1>5, ReadyComes
<1>8. b \in nextB[s] .. file[current[s]].len
  <2>1. nextB[s] = pos[s] /\ file[current[s]].len = size[s]
    BY <1>6 DEF ReadyOK
  <2>2. pos[s] \in Nat /\ size[s] \in Nat
    BY <1>1 DEF TypeOK
  <2>3. QED BY <1>3, <2>1, <2>2
<1>9. IF b = file[current[s]].len THEN Feed!Reach(s, current[s] + 1, 0)
                                   ELSE Feed!Reach(s, current[s], b)
  <2>1. file[current[s]].len = size[s]
    BY <1>6 DEF ReadyOK
  <2>2. /\ nextU' = [nextU EXCEPT ![s] = IF b = size[s] THEN current[s] + 1 ELSE current[s]]
        /\ nextB' = [nextB EXCEPT ![s] = IF b = size[s] THEN 0 ELSE b]
    BY <1>3 DEF Give
  <2>3. QED BY <2>1, <2>2 DEF Feed!Reach
<1>10. current[s] \in Feed!Units
  BY <1>2 DEF Units, Feed!Units
<1>11. QED BY <1>2, <1>7, <1>8, <1>9, <1>10 DEF Feed!Hand

LEMMA TakeIsHand ==
    ASSUME Inv, FillTake
    PROVE  (\E s \in Streams : Feed!Hand(s)) \/ UNCHANGED <<file, sh, nextU, nextB>>
<1>1. TypeOK /\ CountOK /\ FillOK /\ CallInv
  BY DEF Inv, BaseInv, ReaderInv
<1>2. PICK s \in Streams :
        /\ s = call.s /\ ~Idle /\ call.at = "fill"
        /\ Len(queue[s]) > 0 /\ Head(queue[s]) \in Units
        /\ UNCHANGED <<file, id, sh, nextB>>
  BY <1>1, TakeFacts
<1>3. PICK p \in Units : p = Head(queue[s])
  BY <1>2
<1>4. nextU' = [nextU EXCEPT ![s] = IF call.op = "fill" /\ file[p].len = 0 THEN p + 1 ELSE nextU[s]]
  BY <1>2, <1>3 DEF FillTake
<1>5. CASE ~(call.op = "fill" /\ file[p].len = 0)
  BY <1>1, <1>2, <1>4, <1>5 DEF TypeOK
<1>6. CASE call.op = "fill" /\ file[p].len = 0
  <2>1. current[s] = 0 /\ sh[s] # NoTrack
    BY <1>1, <1>2 DEF FillOK, CallInv
  <2>2. ~Ready(s)
    BY <2>1 DEF Ready
  <2>3. Feed!Comes(s, p) /\ nextB[s] = 0
    <3>1. Feed!Comes(s, p)
      BY <1>2, <1>3, <2>1, <2>2, HeadComes
    <3>2. nextB[s] = 0
      BY <2>1, <2>2 DEF Inv, ReaderInv, ReaderOK
    <3>3. QED BY <3>1, <3>2
  <2>4. nextB' = [nextB EXCEPT ![s] = 0]
    BY <1>1, <1>2, <2>3 DEF TypeOK
  <2>5. Feed!Reach(s, p + 1, 0)
    BY <1>4, <1>6, <2>4 DEF Feed!Reach
  <2>6. p \in Feed!Units /\ 0 \in nextB[s] .. file[p].len
    BY <1>6, <2>3 DEF Units, Feed!Units
  <2>7. QED BY <1>2, <1>6, <2>3, <2>5, <2>6 DEF Feed!Hand
<1>7. QED BY <1>5, <1>6

LEMMA StartIsSkip ==
    ASSUME Inv, StartFill
    PROVE  (\E s \in Streams : Feed!Skip(s)) \/ UNCHANGED <<file, sh, nextU, nextB>>
<1>1. TypeOK /\ CallInv /\ PosOK
  BY DEF Inv, BaseInv, ReaderInv
<1>2. PICK s \in Streams : s = call.s /\ ~Idle /\ call.at = "start" /\ UNCHANGED <<file, id, sh>>
  BY <1>1, StartFacts
<1>3. /\ nextU' = [nextU EXCEPT ![s] = IF call.op = "fill" /\ pos[s] < size[s]
                                        THEN current[s] + 1 ELSE nextU[s]]
      /\ nextB' = [nextB EXCEPT ![s] = IF call.op = "fill" /\ pos[s] < size[s]
                                        THEN 0 ELSE nextB[s]]
  BY <1>2 DEF StartFill
<1>4. CASE ~(call.op = "fill" /\ pos[s] < size[s])
  BY <1>1, <1>2, <1>3, <1>4 DEF TypeOK
<1>5. CASE call.op = "fill" /\ pos[s] < size[s]
  <2>1. current[s] > 0 /\ sh[s] # NoTrack
    BY <1>1, <1>2, <1>5 DEF PosOK, CallInv
  <2>2. Ready(s)
    BY <1>5, <2>1 DEF Ready
  <2>3. Feed!Comes(s, current[s])
    BY <2>1, <2>2, ReadyComes
  <2>4. Feed!Reach(s, current[s] + 1, 0)
    BY <1>3, <1>5 DEF Feed!Reach
  <2>5. current[s] \in Feed!Units
    <3>1. current[s] \in 0 .. Size
      BY <1>1 DEF TypeOK
    <3>2. QED BY <2>1, <3>1 DEF Feed!Units
  <2>6. QED BY <1>2, <2>3, <2>4, <2>5 DEF Feed!Skip
<1>6. QED BY <1>4, <1>5

LEMMA TurnsSelect ==
    ASSUME Inv, Selects \/ Seeks \/ SubOff
    PROVE  Feed!FeedNext \/ UNCHANGED <<file, sh, nextU, nextB>>
<1>1. TypeOK /\ CallInv /\ \A r \in Streams : ReaderOK(r)
  BY DEF Inv, BaseInv, ReaderInv
<1>2. ASSUME NEW s \in Streams, NEW t \in Tracks \union {NoTrack}, sh' = [sh EXCEPT ![s] = t],
             NEW p \in {filepos}, nextU' = [nextU EXCEPT ![s] = p],
             nextB' = [nextB EXCEPT ![s] = 0], UNCHANGED file
      PROVE  Feed!FeedNext
  <2>1. p \in nextU[s] .. Size + 1
    <3>1. nextU[s] <= filepos /\ nextU[s] \in 1 .. Size + 1 /\ filepos \in 1 .. Size + 1
      BY <1>1 DEF ReaderOK, TypeOK
    <3>2. QED BY <3>1, SizeAssumption
  <2>2. Feed!Reach(s, p, 0)
    BY <1>2 DEF Feed!Reach
  <2>3. Feed!Select(s)
    BY <1>2, <2>1, <2>2 DEF Feed!Select
  <2>4. QED BY <2>3 DEF Feed!FeedNext
<1>3. CASE Selects
  <2>1. \A s \in Streams : Selectable(s) \subseteq Tracks \union {NoTrack}
    BY TrackAssumption DEF Selectable, Present
  <2>2. PICK s \in Streams, t \in Tracks \union {NoTrack} :
          /\ sh' = [sh EXCEPT ![s] = t] /\ UNCHANGED file
          /\ nextU' = [nextU EXCEPT ![s] = filepos] /\ nextB' = [nextB EXCEPT ![s] = 0]
    BY <1>1, <1>3, <2>1, SelectFacts
  <2>3. QED BY <1>2, <2>2
<1>4. CASE Seeks
  <2>1. (\E p \in 1 .. Size + 1 : MoveTo(p)) /\ UNCHANGED <<file, id, sh>>
    BY <1>1, <1>4, SeekFacts
  <2>2. Feed!Reposition
    BY <2>1 DEF MoveTo, Feed!Reposition
  <2>3. QED BY <2>2 DEF Feed!FeedNext
<1>5. CASE SubOff
  BY <1>5 DEF SubOff, fileVars, readerVars
<1>6. QED BY <1>3, <1>4, <1>5

\* The queues keep what they promise: each reader is given its track's packets
\* in the order of the file, whole, none lost and none repeated.
THEOREM QueuesFeed ==
    ASSUME Disciplined
    PROVE  Spec => FeedKept
<1>1. Init => Feed!FeedInit
  BY DEF Init, Feed!FeedInit
<1>2. ASSUME Inv, [Next]_vars
      PROVE  [Feed!FeedNext]_(Feed!feedVars)
  <2>1. TypeOK /\ BaseInv /\ CountOK
    BY <1>2 DEF Inv, BaseInv
  <2>2. CASE UNCHANGED <<file, sh, nextU, nextB>>
    BY <2>2 DEF Feed!feedVars
  <2>3. CASE (\E s \in Streams : Read(s)) \/ GetPacketSub
    BY <2>1, <2>2, <2>3, ReadFacts
  <2>4. CASE StartFill
    BY <1>2, <2>2, <2>4, StartIsSkip DEF Feed!FeedNext
  <2>5. CASE FillTake
    BY <1>2, <2>2, <2>5, TakeIsHand DEF Feed!FeedNext
  <2>6. CASE FillDemux
    BY <2>2, <2>6 DEF FillDemux, DemuxOne, readerVars
  <2>7. CASE FillEof \/ PeekDone
    BY <2>2, <2>7 DEF FillEof, PeekDone, fileVars, readerVars
  <2>8. CASE GiveRest \/ GiveData \/ GivePattern
    BY <1>2, <2>8, GiveIsHand DEF Feed!FeedNext
  <2>9. CASE Selects \/ Seeks \/ SubOff
    BY <1>2, <2>2, <2>9, TurnsSelect
  <2>10. CASE UNCHANGED vars
    BY <2>2, <2>10 DEF vars
  <2>11. QED
    BY <1>2, <2>3, <2>4, <2>5, <2>6, <2>7, <2>8, <2>9, <2>10 DEF Next, Continue, Selects, Seeks
<1>3. QED BY <1>1, <1>2, Inductive, PTL DEF Spec, FeedKept, Feed!Feed

-----------------------------------------------------------------------------
(* The announcements of ds_get_next_pts.                                      *)

SizeOK == \A s \in Streams : current[s] > 0 => size[s] = file[current[s]].len

ToldOK(s) ==
    told[s] > 0 /\ file[told[s]].len > 0 =>
        \/ current[s] = told[s] /\ pos[s] = 0 /\ Ready(s)
        \/ /\ Len(queue[s]) > 0 /\ Head(queue[s]) = told[s]
           /\ current[s] = 0 \/ pos[s] # 0

ToldInv == SizeOK /\ (\A s \in Streams : ToldOK(s)) /\ AnnouncedIsNext

LEMMA ToldSame ==
    ASSUME NEW r \in Streams, ToldOK(r),
           UNCHANGED <<file, queue[r], current[r], pos[r], size[r], told[r]>>,
           Taken(r)' <=> Taken(r)
    PROVE  ToldOK(r)'
<1>1. Ready(r)' <=> Ready(r)
  BY DEF Ready, Taken
<1>2. QED BY <1>1 DEF ToldOK

LEMMA SizeStep ==
    ASSUME BaseInv, SizeOK, [Next]_vars
    PROVE  SizeOK'
<1>1. TypeOK /\ CountOK /\ FillOK
  BY DEF BaseInv
<1>2. CASE UNCHANGED <<file, current, size>>
  BY <1>2 DEF SizeOK
<1>3. CASE (\E s \in Streams : Read(s)) \/ GetPacketSub
  BY <1>1, <1>2, <1>3, ReadFacts
<1>4. CASE StartFill
  <2>1. PICK s \in Streams : current' = [current EXCEPT ![s] = 0] /\ UNCHANGED <<file, size>>
    BY <1>1, <1>4, StartFacts
  <2>2. current'[s] = 0 /\ \A r \in Streams \ {s} : current'[r] = current[r]
    BY <1>1, <2>1 DEF TypeOK
  <2>3. QED BY <2>1, <2>2 DEF SizeOK
<1>5. CASE FillTake
  <2>1. PICK s \in Streams :
          /\ current' = [current EXCEPT ![s] = Head(queue[s])]
          /\ size' = [size EXCEPT ![s] = file[Head(queue[s])].len] /\ UNCHANGED file
    BY <1>1, <1>5, TakeFacts
  <2>2. /\ current'[s] = Head(queue[s]) /\ size'[s] = file[Head(queue[s])].len
        /\ \A r \in Streams \ {s} : current'[r] = current[r] /\ size'[r] = size[r]
    BY <1>1, <2>1 DEF TypeOK
  <2>3. QED BY <2>1, <2>2 DEF SizeOK
<1>6. CASE FillDemux
  BY <1>2, <1>6 DEF FillDemux, DemuxOne
<1>7. CASE FillEof
  <2>1. PICK s \in Streams : s = call.s /\ ~Idle /\ call.at = "fill"
    BY <1>1, <1>7, RunningType DEF FillEof, NoMore, Hungry
  <2>2. size' = [size EXCEPT ![s] = 0] /\ UNCHANGED <<file, current>>
    BY <1>7, <2>1 DEF FillEof, fileVars
  <2>3. current[s] = 0 /\ \A r \in Streams \ {s} : size'[r] = size[r]
    BY <1>1, <2>1, <2>2 DEF FillOK, TypeOK
  <2>4. QED BY <2>2, <2>3 DEF SizeOK
<1>8. CASE GiveRest \/ GiveData \/ GivePattern
  BY <1>1, <1>2, <1>8, GiveFacts
<1>9. CASE PeekDone \/ SubOff
  BY <1>2, <1>9 DEF PeekDone, SubOff, fileVars, dsVars
<1>10. CASE Selects
  <2>1. PICK s \in Streams : FreePacks({s}) /\ UNCHANGED file
    BY <1>1, <1>10, SelectFacts
  <2>2. QED BY <2>1 DEF FreePacks, SizeOK
<1>11. CASE Seeks
  <2>1. FreePacks(Streams) /\ UNCHANGED file
    BY <1>1, <1>11, SeekFacts
  <2>2. QED BY <2>1 DEF FreePacks, SizeOK
<1>12. CASE UNCHANGED vars
  BY <1>2, <1>12 DEF vars
<1>13. QED
  BY <1>3, <1>4, <1>5, <1>6, <1>7, <1>8, <1>9, <1>10, <1>11, <1>12
     DEF Next, Continue, Selects, Seeks

LEMMA ToldCalls ==
    ASSUME Disciplined, Inv, ToldInv,
           (\E s \in Streams : Read(s)) \/ GetPacketSub \/ StartFill \/ FillTake \/ FillDemux
    PROVE  \A s \in Streams : ToldOK(s)'
<1>1. /\ TypeOK /\ CountOK /\ FillOK /\ PosOK /\ CallInv
      /\ (\A r \in Streams : ReaderOK(r)) /\ (\A r \in Streams : ToldOK(r))
  BY DEF Inv, BaseInv, ReaderInv, ToldInv
<1>2. CASE (\E s \in Streams : Read(s)) \/ GetPacketSub
  <2>1. /\ Idle /\ UNCHANGED <<file, queue, current, size, told>>
        /\ Idle' \/ (~Idle' /\ call'.at = "start")
    BY <1>1, <1>2, ReadFacts
  <2>2. \A r \in Streams : ~Taken(r) /\ ~Taken(r)'
    BY <2>1 DEF Taken
  <2>3. CASE UNCHANGED pos
    BY <1>1, <2>1, <2>2, <2>3, ToldSame
  <2>4. ASSUME NEW s \in Streams, RepeatLast(s), NEW r \in Streams
        PROVE  ToldOK(r)'
    <3>1. pos' = [pos EXCEPT ![s] = size[s]] /\ s \in Whole /\ current[s] > 0
      BY <2>4 DEF RepeatLast
    <3>2. CASE r # s
      <4>1. pos'[r] = pos[r]
        BY <1>1, <3>1, <3>2 DEF TypeOK
      <4>2. QED BY <1>1, <2>1, <2>2, <4>1, ToldSame
    <3>3. CASE r = s
      <4>1. ~Ready(s)
        BY <1>1, <2>1, <3>1 DEF ReaderOK
      <4>2. pos'[s] = size[s] /\ pos[s] \in Nat /\ size[s] \in Nat /\ pos[s] <= size[s]
        BY <1>1, <3>1 DEF TypeOK
      <4>3. current[s] # 0
        BY <3>1
      <4>4. pos[s] # 0 => pos'[s] # 0
        BY <4>2
      <4>5. QED BY <1>1, <2>1, <3>3, <4>1, <4>3, <4>4 DEF ToldOK
    <3>4. QED BY <3>2, <3>3
  <2>5. QED BY <1>1, <1>2, <2>3, <2>4, ReadFacts
<1>3. CASE StartFill
  <2>1. PICK s \in Streams :
          /\ s = call.s /\ ~Idle /\ call.at = "start"
          /\ call.op # "get2" => call.op = "fill" \/ pos[s] >= size[s]
          /\ call'.s = s /\ call'.at = "fill"
          /\ current' = [current EXCEPT ![s] = 0] /\ UNCHANGED <<file, queue, pos, size>>
    BY <1>1, <1>3, StartFacts
  <2>2. told' = [told EXCEPT ![s] = IF call.op = "fill" /\ pos[s] < size[s] THEN 0 ELSE told[s]]
    BY <1>3, <2>1 DEF StartFill
  <2>3. \A r \in Streams \ {s} : current'[r] = current[r] /\ told'[r] = told[r]
    BY <1>1, <2>1, <2>2 DEF TypeOK
  <2>4. \A r \in Streams : ~Taken(r) /\ ~Taken(r)'
    BY <2>1 DEF Taken
  <2>5. \A r \in Streams \ {s} : ToldOK(r)'
    BY <1>1, <2>1, <2>3, <2>4, ToldSame
  <2>6. CASE call.op = "fill" /\ pos[s] < size[s]
    <3>1. told'[s] = 0
      BY <1>1, <2>2, <2>6 DEF TypeOK
    <3>2. ToldOK(s)'
      BY <3>1 DEF ToldOK
    <3>3. QED BY <2>5, <3>2
  <2>7. CASE ~(call.op = "fill" /\ pos[s] < size[s])
    <3>1. told'[s] = told[s] /\ current'[s] = 0
      BY <1>1, <2>1, <2>2, <2>7 DEF TypeOK
    <3>2. ~Ready(s)
      <4>1. ASSUME Ready(s)
            PROVE  FALSE
        <5>1. pos[s] < size[s] /\ s \notin Whole
          BY <1>1, <2>1, <4>1 DEF Ready, ReaderOK
        <5>2. call.op = "get2"
          <6>1. pos[s] \in Nat /\ size[s] \in Nat
            BY <1>1 DEF TypeOK
          <6>2. QED BY <2>1, <2>7, <5>1, <6>1
        <5>3. QED BY <1>1, <2>1, <5>1, <5>2 DEF CallInv
      <4>2. QED BY <4>1
    <3>3. ToldOK(s)'
      BY <1>1, <2>1, <3>1, <3>2 DEF ToldOK
    <3>4. QED BY <2>5, <3>3
  <2>8. QED BY <2>6, <2>7
<1>4. CASE FillTake
  <2>1. PICK s \in Streams :
          /\ s = call.s /\ ~Idle /\ call.at = "fill"
          /\ Len(queue[s]) > 0 /\ Head(queue[s]) \in Units
          /\ current' = [current EXCEPT ![s] = Head(queue[s])]
          /\ pos' = [pos EXCEPT ![s] = 0]
          /\ size' = [size EXCEPT ![s] = file[Head(queue[s])].len]
          /\ queue' = [queue EXCEPT ![s] = Tail(queue[s])]
          /\ Idle' \/ (~Idle' /\ call'.at = "filled" /\ call'.s = s)
          /\ UNCHANGED <<file, told>>
    BY <1>1, <1>4, TakeFacts
  <2>2. /\ current'[s] = Head(queue[s]) /\ pos'[s] = 0 /\ size'[s] = file[Head(queue[s])].len
        /\ \A r \in Streams \ {s} : /\ current'[r] = current[r] /\ pos'[r] = pos[r]
                                    /\ size'[r] = size[r] /\ queue'[r] = queue[r]
    BY <1>1, <2>1 DEF TypeOK
  <2>3. \A r \in Streams \ {s} : ~Taken(r) /\ ~Taken(r)'
    BY <2>1 DEF Taken
  <2>4. \A r \in Streams \ {s} : ToldOK(r)'
    BY <1>1, <2>1, <2>2, <2>3, ToldSame
  <2>5. ~Ready(s)
    BY <1>1, <2>1 DEF FillOK, Ready
  <2>6. ToldOK(s)'
    <3>1. SUFFICES ASSUME told[s] > 0, file[told[s]].len > 0
                   PROVE  current'[s] = told[s] /\ pos'[s] = 0 /\ Ready(s)'
      BY <2>1 DEF ToldOK
    <3>2. Head(queue[s]) = told[s]
      BY <1>1, <2>5, <3>1 DEF ToldOK
    <3>3. current'[s] > 0 /\ pos'[s] < size'[s]
      BY <2>2, <3>1, <3>2
    <3>4. Ready(s)'
      BY <3>3 DEF Ready
    <3>5. QED BY <2>2, <3>2, <3>4
  <2>7. QED BY <2>4, <2>6
<1>5. CASE FillDemux
  <2>1. /\ DemuxOne /\ filepos \in Units /\ file' = file
        /\ UNCHANGED <<current, pos, size, call, told>>
    BY <1>1, <1>5, DemuxTypes DEF FillDemux, readerVars
  <2>2. \A r \in Streams : Ready(r)' <=> Ready(r)
    BY <2>1 DEF Ready, Idle
  <2>3. \A r \in Streams : queue'[r] = queue[r] \/ queue'[r] = Append(queue[r], filepos)
    BY <2>1 DEF DemuxOne
  <2>4. \A r \in Streams : Len(queue[r]) > 0 =>
          Len(queue'[r]) > 0 /\ Head(queue'[r]) = Head(queue[r])
    <3>1. ASSUME NEW r \in Streams, Len(queue[r]) > 0
          PROVE  Len(queue'[r]) > 0 /\ Head(queue'[r]) = Head(queue[r])
      <4>1. queue[r] \in Seq(Units)
        BY <1>1 DEF TypeOK
      <4>2. /\ Len(Append(queue[r], filepos)) > 0
            /\ Head(Append(queue[r], filepos)) = Head(queue[r])
        BY <2>1, <3>1, <4>1
      <4>3. QED BY <2>3, <3>1, <4>2
    <3>2. QED BY <3>1
  <2>5. QED BY <1>1, <2>1, <2>2, <2>4 DEF ToldOK
<1>6. QED BY <1>2, <1>3, <1>4, <1>5

LEMMA ToldEnds ==
    ASSUME Inv, ToldInv,
           \/ FillEof \/ GiveRest \/ GiveData \/ GivePattern
           \/ PeekDone \/ Selects \/ Seeks \/ SubOff
    PROVE  \A s \in Streams : ToldOK(s)'
<1>1. /\ TypeOK /\ CountOK /\ FillOK /\ PosOK /\ BaseInv
      /\ (\A r \in Streams : ToldOK(r)) /\ SizeOK
  BY DEF Inv, BaseInv, ToldInv
<1>2. CASE FillEof
  <2>1. PICK s \in Streams : s = call.s /\ ~Idle /\ call.at = "fill" /\ packs[s] = 0
    BY <1>1, <1>2, RunningType DEF FillEof, NoMore, Hungry
  <2>2. /\ pos' = [pos EXCEPT ![s] = 0] /\ size' = [size EXCEPT ![s] = 0] /\ Idle'
        /\ UNCHANGED <<file, queue, current, told>>
    BY <1>2, <2>1 DEF FillEof, Return, Idle, fileVars, readerVars
  <2>3. \A r \in Streams \ {s} : ~Taken(r) /\ ~Taken(r)' /\ pos'[r] = pos[r] /\ size'[r] = size[r]
    BY <1>1, <2>1, <2>2 DEF Taken, TypeOK
  <2>4. \A r \in Streams \ {s} : ToldOK(r)'
    BY <1>1, <2>2, <2>3, ToldSame
  <2>5. current[s] = 0 /\ ~(Len(queue[s]) > 0)
    BY <1>1, <2>1 DEF FillOK, CountOK
  <2>6. ~(told[s] > 0 /\ file[told[s]].len > 0)
    BY <1>1, <2>5 DEF ToldOK, Ready
  <2>7. ToldOK(s)'
    BY <2>2, <2>6 DEF ToldOK
  <2>8. QED BY <2>4, <2>7
<1>3. CASE GiveRest \/ GiveData \/ GivePattern
  <2>1. PICK s \in Streams :
          /\ s = call.s /\ ~Idle /\ current[s] \in Units
          /\ \E b \in Nat : pos[s] <= b /\ b <= size[s] /\ Give(s, b)
          /\ Forget(s) /\ UNCHANGED <<file, queue, current, size>>
          /\ Return(s, current[s], Said(s)) \/ \E w : call' = Running(call.op, s, "start", w)
    BY <1>1, <1>3, GiveFacts
  <2>2. PICK b \in Nat : pos[s] <= b /\ pos' = [pos EXCEPT ![s] = b]
    BY <2>1 DEF Give
  <2>3. told' = [told EXCEPT ![s] = IF pos[s] = 0 THEN 0 ELSE told[s]]
    BY <2>1 DEF Forget
  <2>4. Idle' \/ (~Idle' /\ call'.s = s /\ call'.at = "start")
    BY <2>1 DEF Return, Running, Idle
  <2>5. \A r \in Streams \ {s} : ~Taken(r) /\ ~Taken(r)' /\ pos'[r] = pos[r] /\ told'[r] = told[r]
    BY <1>1, <2>1, <2>2, <2>3, <2>4 DEF Taken, TypeOK
  <2>6. \A r \in Streams \ {s} : ToldOK(r)'
    BY <1>1, <2>1, <2>5, ToldSame
  <2>7. ToldOK(s)'
    <3>1. CASE pos[s] = 0
      <4>1. told'[s] = 0
        BY <1>1, <2>3, <3>1 DEF TypeOK
      <4>2. QED BY <4>1 DEF ToldOK
    <3>2. CASE pos[s] # 0
      <4>1. told'[s] = told[s] /\ pos'[s] = b
        BY <1>1, <2>2, <2>3, <3>2 DEF TypeOK
      <4>2. b # 0
        <5>1. pos[s] \in Nat
          BY <1>1 DEF TypeOK
        <5>2. QED BY <2>2, <3>2, <5>1
      <4>3. QED BY <1>1, <2>1, <3>2, <4>1, <4>2 DEF ToldOK
    <3>3. QED BY <3>1, <3>2
  <2>8. QED BY <2>6, <2>7
<1>4. CASE PeekDone
  <2>1. PICK s \in Streams : s = call.s /\ ~Idle /\ call.op = "peek"
    BY <1>1, <1>4, RunningType DEF PeekDone
  <2>2. /\ Idle' /\ call.at = "start" /\ UNCHANGED <<file, queue, current, pos, size>>
    <3>1. call.at = "start"
      BY <1>1, <2>1 DEF TypeOK, CallOK, Idle
    <3>2. Idle' /\ UNCHANGED <<file, queue, current, pos, size>>
      BY <1>4 DEF PeekDone, Return, Idle, fileVars, dsVars
    <3>3. QED BY <3>1, <3>2
  <2>3. \A r \in Streams : ~Taken(r) /\ ~Taken(r)'
    BY <2>2 DEF Taken
  <2>4. CASE UNCHANGED told
    BY <1>1, <2>2, <2>3, <2>4, ToldSame
  <2>5. CASE ~Hungry /\ told' = [told EXCEPT ![s] = IF current[s] > 0 /\ pos[s] = 0
                                                    THEN current[s] ELSE Head(queue[s])]
    <3>1. \A r \in Streams \ {s} : told'[r] = told[r]
      BY <1>1, <2>5 DEF TypeOK
    <3>2. \A r \in Streams \ {s} : ToldOK(r)'
      BY <1>1, <2>2, <2>3, <3>1, ToldSame
    <3>3. CASE current[s] > 0 /\ pos[s] = 0
      <4>1. told' = [told EXCEPT ![s] = current[s]]
        BY <2>5, <3>3
      <4>2. told'[s] = current[s] /\ size[s] = file[current[s]].len
        BY <1>1, <3>3, <4>1 DEF TypeOK, SizeOK
      <4>3. ToldOK(s)'
        BY <2>2, <3>3, <4>2 DEF ToldOK, Ready
      <4>4. QED BY <3>2, <4>3
    <3>4. CASE ~(current[s] > 0 /\ pos[s] = 0)
      <4>1. told' = [told EXCEPT ![s] = Head(queue[s])]
        BY <2>5, <3>4
      <4>2. told'[s] = Head(queue[s])
        BY <1>1, <4>1 DEF TypeOK
      <4>3. current[s] = 0 \/ pos[s] # 0
        <5>1. current[s] \in 0 .. Size
          BY <1>1 DEF TypeOK
        <5>2. QED BY <3>4, <5>1
      <4>4. packs[s] # 0
        BY <2>1, <2>5, <4>3 DEF Hungry
      <4>5. Len(queue[s]) > 0
        <5>1. queue[s] \in Seq(Units) /\ packs[s] = Len(queue[s])
          BY <1>1 DEF TypeOK, CountOK
        <5>2. QED BY <4>4, <5>1
      <4>6. ToldOK(s)'
        BY <2>2, <4>2, <4>3, <4>5 DEF ToldOK
      <4>7. QED BY <3>2, <4>6
    <3>5. QED BY <3>3, <3>4
  <2>6. QED BY <1>4, <2>1, <2>4, <2>5 DEF PeekDone
<1>5. CASE Selects
  <2>1. PICK s \in Streams : FreePacks({s}) /\ Return(s, -1, 0) /\ Idle /\ UNCHANGED file
    BY <1>1, <1>5, SelectFacts
  <2>2. /\ told'[s] = 0 /\ UNCHANGED size
        /\ \A r \in Streams \ {s} : /\ queue'[r] = queue[r] /\ current'[r] = current[r]
                                    /\ pos'[r] = pos[r] /\ told'[r] = told[r]
    BY <2>1 DEF FreePacks
  <2>3. \A r \in Streams : ~Taken(r) /\ ~Taken(r)'
    BY <2>1 DEF Taken, Return, Idle
  <2>4. ToldOK(s)'
    BY <2>2 DEF ToldOK
  <2>5. \A r \in Streams \ {s} : ToldOK(r)'
    BY <1>1, <2>1, <2>2, <2>3, ToldSame
  <2>6. QED BY <2>4, <2>5
<1>6. CASE Seeks
  <2>1. FreePacks(Streams)
    BY <1>1, <1>6, SeekFacts
  <2>2. \A s \in Streams : told'[s] = 0
    BY <2>1 DEF FreePacks
  <2>3. QED BY <2>2 DEF ToldOK
<1>7. CASE SubOff
  <2>1. /\ Idle /\ Idle' /\ UNCHANGED <<file, queue, current, pos, size, told>>
    BY <1>7 DEF SubOff, Turn, Return, Idle, fileVars, dsVars, readerVars
  <2>2. \A r \in Streams : ~Taken(r) /\ ~Taken(r)'
    BY <2>1 DEF Taken
  <2>3. QED BY <1>1, <2>1, <2>2, ToldSame
<1>8. QED BY <1>2, <1>3, <1>4, <1>5, <1>6, <1>7

LEMMA AnnouncedStep ==
    ASSUME Inv, ToldInv, [Next]_vars
    PROVE  AnnouncedIsNext'
<1>1. /\ TypeOK /\ CountOK /\ BaseInv /\ (\A r \in Streams : ToldOK(r)) /\ AnnouncedIsNext
  BY DEF Inv, BaseInv, ToldInv
<1>2. ASSUME NEW s, NEW p, NEW said, Return(s, p, said), ~(p > 0 /\ said > 0)
      PROVE  AnnouncedIsNext'
  BY <1>2 DEF Return, AnnouncedIsNext
<1>3. ~(-1 > 0) /\ ~(0 > 0)
  OBVIOUS
<1>4. ASSUME ~Idle'
      PROVE  AnnouncedIsNext'
  BY <1>4 DEF AnnouncedIsNext
<1>5. ASSUME NEW op \in Calls, NEW s, NEW want, Begin(op, s, want)
      PROVE  AnnouncedIsNext'
  BY <1>4, <1>5 DEF Begin, Running, Idle, Calls
<1>6. CASE GetPacketSub
  <2>1. CASE pos["sub"] >= size["sub"] /\ packs["sub"] = 0
    BY <1>2, <1>3, <1>6, <2>1 DEF GetPacketSub
  <2>2. CASE ~(pos["sub"] >= size["sub"] /\ packs["sub"] = 0)
    <3>1. "get" \in Calls
      BY DEF Calls
    <3>2. QED BY <1>5, <1>6, <2>2, <3>1 DEF GetPacketSub
  <2>3. QED BY <2>1, <2>2
<1>7. CASE \E s \in Streams : Read(s)
  <2>1. PICK s \in Streams : Read(s)
    BY <1>7
  <2>2. CASE RepeatLast(s)
    BY <1>2, <1>3, <2>2 DEF RepeatLast
  <2>3. CASE ~RepeatLast(s)
    BY <1>5, <2>1, <2>3
       DEF Read, GetPacket, GetPacket2, ReadData, Pattern3, FillDirectly, GetNextPts, Calls
  <2>4. QED BY <2>2, <2>3
<1>8. CASE StartFill
  BY <1>1, <1>4, <1>8, StartFacts
<1>9. CASE FillTake
  <2>1. call.op = "fill" \/ ~Idle'
    BY <1>1, <1>9, TakeFacts
  <2>2. CASE call.op = "fill"
    BY <1>2, <1>3, <1>9, <2>2 DEF FillTake
  <2>3. QED BY <1>4, <2>1, <2>2
<1>10. CASE FillDemux
  BY <1>4, <1>10 DEF FillDemux, Hungry, Idle
<1>11. CASE GiveRest \/ GiveData \/ GivePattern
  <2>1. PICK s \in Streams :
          /\ current[s] \in Units /\ call.op # "none" /\ UNCHANGED file
          /\ Return(s, current[s], Said(s)) \/ \E w : call' = Running(call.op, s, "start", w)
    BY <1>1, <1>11, GiveFacts
  <2>2. CASE \E w : call' = Running(call.op, s, "start", w)
    BY <1>4, <2>1, <2>2 DEF Running, Idle
  <2>3. CASE Return(s, current[s], Said(s))
    <3>1. CASE ~(Said(s) > 0)
      BY <1>2, <2>3, <3>1
    <3>2. CASE Said(s) > 0
      <4>1. pos[s] = 0 /\ Said(s) = told[s] /\ told[s] > 0
        BY <3>2 DEF Said
      <4>2. told[s] \in Units
        <5>1. told[s] \in 0 .. Size
          BY <1>1 DEF TypeOK
        <5>2. QED BY <4>1, <5>1 DEF Units
      <4>3. file[told[s]].len \in Nat
        BY <1>1, <4>2, FileTypes
      <4>4. current[s] # 0
        BY <2>1, SizeAssumption DEF Units
      <4>5. told[s] = current[s] \/ ~(file[told[s]].len > 0)
        BY <1>1, <4>1, <4>4 DEF ToldOK
      <4>6. told[s] = current[s] \/ file[told[s]].len = 0
        BY <4>3, <4>5
      <4>7. call'.unit = current[s] /\ call'.said = told[s]
        BY <2>3, <4>1 DEF Return
      <4>8. QED BY <2>1, <4>6, <4>7 DEF AnnouncedIsNext
    <3>3. QED BY <3>1, <3>2
  <2>4. QED BY <2>1, <2>2, <2>3
<1>12. CASE FillEof \/ PeekDone \/ SubOff
  BY <1>2, <1>3, <1>12 DEF FillEof, PeekDone, SubOff
<1>13. CASE Selects
  BY <1>1, <1>2, <1>3, <1>13, SelectFacts
<1>14. CASE Seeks
  BY <1>1, <1>2, <1>3, <1>14, SeekFacts
<1>15. CASE UNCHANGED vars
  BY <1>1, <1>15 DEF vars, AnnouncedIsNext, Idle
<1>16. QED
  BY <1>6, <1>7, <1>8, <1>9, <1>10, <1>11, <1>12, <1>13, <1>14, <1>15
     DEF Next, Continue, Selects, Seeks

\* The packet whose time ds_get_next_pts told of is the next one begun: a
\* subtitle is timed by its own packet, whatever was read in between.
THEOREM AnnouncementsHold ==
    ASSUME Disciplined
    PROVE  Spec => []AnnouncedIsNext
<1>1. Init => ToldInv
  BY DEF Init, ToldInv, SizeOK, ToldOK, AnnouncedIsNext, Idle, Streams
<1>2. ASSUME Inv, ToldInv, [Next]_vars
      PROVE  ToldInv'
  <2>1. BaseInv /\ SizeOK /\ TypeOK
    BY <1>2 DEF Inv, BaseInv, ToldInv
  <2>2. SizeOK' /\ AnnouncedIsNext'
    BY <1>2, <2>1, SizeStep, AnnouncedStep
  <2>3. \A s \in Streams : ToldOK(s)'
    <3>1. CASE \/ (\E s \in Streams : Read(s)) \/ GetPacketSub
               \/ StartFill \/ FillTake \/ FillDemux
      BY <1>2, <3>1, ToldCalls
    <3>2. CASE \/ FillEof \/ GiveRest \/ GiveData \/ GivePattern
               \/ PeekDone \/ Selects \/ Seeks \/ SubOff
      BY <1>2, <3>2, ToldEnds
    <3>3. CASE UNCHANGED vars
      <4>1. UNCHANGED <<file, queue, current, pos, size, told, call>>
        BY <3>3 DEF vars
      <4>2. \A r \in Streams : Taken(r)' <=> Taken(r)
        BY <4>1 DEF Taken, Idle
      <4>3. QED BY <1>2, <4>1, <4>2, ToldSame DEF ToldInv
    <3>4. QED
      BY <1>2, <3>1, <3>2, <3>3 DEF Next, Continue, Selects, Seeks
  <2>4. QED BY <2>2, <2>3 DEF ToldInv
<1>3. ToldInv => AnnouncedIsNext
  BY DEF ToldInv
<1>4. QED BY <1>1, <1>2, <1>3, Inductive, PTL DEF Spec

-----------------------------------------------------------------------------
(* What is counted in bytes.  The sum over a queue is a recursive function;   *)
(* what it comes to is shown by counting up: a set of numbers that has a      *)
(* member has a least one, for < is well-founded, ...                         *)
LEMMA LessWellFounded ==
    IsWellFoundedOn({ss \in Nat \X Nat : ss[1] < ss[2]}, Nat)
BY NatLessThanWellFounded DEF OpToRel

LEMMA LeastNumber ==
    ASSUME NEW T \in SUBSET Nat, T # {}
    PROVE  \E m \in T : \A k \in T : m <= k
<1> DEFINE R == {ss \in Nat \X Nat : ss[1] < ss[2]}
<1>1. \A x, y \in Nat : x < y => <<x, y>> \in R
  OBVIOUS
<1>2. IsWellFoundedOn(R, Nat)
  BY LessWellFounded
<1> HIDE DEF R
<1>3. PICK m \in T : \A k \in T : ~ (<<k, m>> \in R)
  BY <1>2, WFMin
<1>4. ASSUME NEW k \in T PROVE m <= k
  <2>1. k \in Nat /\ m \in Nat
    OBVIOUS
  <2>2. ~ (<<k, m>> \in R)
    BY <1>3
  <2>3. ~ (k < m)
    BY <1>1, <2>1, <2>2
  <2>4. QED BY <2>1, <2>3
<1>5. QED BY <1>4

(* ... so a set that has 0, and the next one of each of its members below n,  *)
(* has every number up to n.                                                  *)
LEMMA CountUp ==
    ASSUME NEW n \in Nat, NEW T, 0 \in T,
           \A k \in 0 .. n - 1 : k \in T => k + 1 \in T
    PROVE  0 .. n \subseteq T
<1> SUFFICES ASSUME (0 .. n) \ T # {} PROVE FALSE
  OBVIOUS
<1>1. (0 .. n) \ T \in SUBSET Nat
  OBVIOUS
<1>2. PICK m \in (0 .. n) \ T : \A k \in (0 .. n) \ T : m <= k
  BY <1>1, LeastNumber
<1>3. m # 0 /\ m - 1 \in 0 .. n - 1 /\ m - 1 \in 0 .. n
  OBVIOUS
<1>4. m - 1 \in T
  BY <1>2, <1>3
<1>5. (m - 1) + 1 \in T
  BY <1>3, <1>4
<1>6. QED BY <1>3, <1>5

(* SumLen, of the packets of any file x.                                      *)
SumOf(x, q) ==
    LET sum[i \in 0 .. Len(q)] == IF i = 0 THEN 0 ELSE sum[i - 1] + x[q[i]].len
    IN  sum[Len(q)]

(* f[i] is the sum of the first i packets of q: there is such a function, ... *)
Sums(x, q, n, f) ==
    f = [i \in 0 .. n |-> IF i = 0 THEN 0 ELSE f[i - 1] + x[q[i]].len]

Lengths(x) == \A p \in Units : x[p].len \in Nat

LEMMA SumsExist ==
    ASSUME NEW x, NEW q, NEW n \in Nat
    PROVE  \E f : Sums(x, q, n, f)
<1> DEFINE T == {k \in 0 .. n : \E f : Sums(x, q, k, f)}
<1>1. 0 \in T
  <2> DEFINE f == [i \in 0 .. 0 |-> 0]
  <2>1. Sums(x, q, 0, f)
    BY DEF Sums
  <2>2. QED BY <2>1
<1>2. ASSUME NEW k \in 0 .. n - 1, k \in T
      PROVE  k + 1 \in T
  <2>1. PICK f : Sums(x, q, k, f)
    BY <1>2
  <2> DEFINE g == [i \in 0 .. k + 1 |->
                      IF i = k + 1 THEN f[k] + x[q[k + 1]].len ELSE f[i]]
  <2>2. \A i \in 0 .. k : g[i] = f[i] /\ f[i] = IF i = 0 THEN 0 ELSE f[i - 1] + x[q[i]].len
    BY <2>1 DEF Sums
  <2>3. \A i \in 0 .. k + 1 : g[i] = IF i = 0 THEN 0 ELSE g[i - 1] + x[q[i]].len
    <3> TAKE i \in 0 .. k + 1
    <3>1. CASE i \in 0 .. k
      BY <2>2, <3>1
    <3>2. CASE i = k + 1
      <4>1. g[i] = f[k] + x[q[i]].len /\ i # 0 /\ i - 1 = k /\ g[k] = f[k]
        BY <2>2, <3>2
      <4>2. QED BY <4>1
    <3>3. QED BY <3>1, <3>2
  <2>4. Sums(x, q, k + 1, g)
    BY <2>3 DEF Sums
  <2>5. k + 1 \in 0 .. n
    OBVIOUS
  <2>6. QED BY <2>4, <2>5
<1> HIDE DEF T
<1>3. 0 .. n \subseteq T
  BY <1>1, <1>2, CountUp
<1>4. QED BY <1>3 DEF T

LEMMA SumOfIs ==
    ASSUME NEW x, NEW q \in Seq(Units)
    PROVE  \E f : Sums(x, q, Len(q), f) /\ SumOf(x, q) = f[Len(q)]
<1> DEFINE f == CHOOSE g : Sums(x, q, Len(q), g)
<1>1. Sums(x, q, Len(q), f)
  <2>1. Len(q) \in Nat
    OBVIOUS
  <2>2. QED BY <2>1, SumsExist
<1>2. SumOf(x, q) = f[Len(q)]
  BY DEF SumOf, Sums
<1>3. QED BY <1>1, <1>2

(* ... whose values are found one from the other.                             *)
LEMMA SumsAre ==
    ASSUME NEW x, Lengths(x), NEW q \in Seq(Units), NEW f, Sums(x, q, Len(q), f)
    PROVE  /\ f[0] = 0
           /\ \A i \in 1 .. Len(q) : f[i] = f[i - 1] + x[q[i]].len
           /\ \A i \in 0 .. Len(q) : f[i] \in Nat
<1>1. Len(q) \in Nat /\ \A i \in 1 .. Len(q) : q[i] \in Units
  OBVIOUS
<1>2. \A i \in 0 .. Len(q) : f[i] = IF i = 0 THEN 0 ELSE f[i - 1] + x[q[i]].len
  BY DEF Sums
<1>3. f[0] = 0 /\ \A i \in 1 .. Len(q) : f[i] = f[i - 1] + x[q[i]].len
  BY <1>1, <1>2
<1> DEFINE T == {k \in Nat : f[k] \in Nat}
<1>4. 0 \in T
  BY <1>3
<1>5. ASSUME NEW k \in 0 .. Len(q) - 1, k \in T PROVE k + 1 \in T
  <2>1. k + 1 \in 1 .. Len(q) /\ (k + 1) - 1 = k /\ k + 1 \in Nat
    BY <1>1
  <2>2. x[q[k + 1]].len \in Nat
    BY <1>1, <2>1 DEF Lengths
  <2>3. f[k + 1] = f[k] + x[q[k + 1]].len /\ f[k] \in Nat
    BY <1>3, <1>5, <2>1
  <2>4. QED BY <2>1, <2>2, <2>3
<1> HIDE DEF T
<1>6. 0 .. Len(q) \subseteq T
  BY <1>1, <1>4, <1>5, CountUp
<1>7. QED BY <1>3, <1>6 DEF T

(* So the sum follows the queue as it is emptied, added to and taken from.    *)
LEMMA SumEmpty == ASSUME NEW x PROVE SumOf(x, <<>>) = 0
<1>1. <<>> \in Seq(Units) /\ Len(<<>>) = 0
  OBVIOUS
<1>2. PICK f : Sums(x, <<>>, 0, f) /\ SumOf(x, <<>>) = f[0]
  BY <1>1, SumOfIs
<1>3. 0 \in 0 .. 0
  OBVIOUS
<1>4. QED BY <1>2, <1>3 DEF Sums

LEMMA SumAppend ==
    ASSUME NEW x, Lengths(x), NEW q \in Seq(Units), NEW p \in Units
    PROVE  SumOf(x, Append(q, p)) = SumOf(x, q) + x[p].len
<1> DEFINE r == Append(q, p)
<1> DEFINE n == Len(q)
<1>1. /\ r \in Seq(Units) /\ Len(r) = n + 1 /\ n \in Nat /\ r[n + 1] = p
      /\ \A i \in 1 .. n : r[i] = q[i]
  OBVIOUS
<1> HIDE DEF r
<1>2. PICK f : Sums(x, q, n, f) /\ SumOf(x, q) = f[n]
  BY SumOfIs
<1>3. PICK g : Sums(x, r, n + 1, g) /\ SumOf(x, r) = g[n + 1]
  BY <1>1, SumOfIs
<1>4. f[0] = 0 /\ \A i \in 1 .. n : f[i] = f[i - 1] + x[q[i]].len
  BY <1>2, SumsAre
<1>5. g[0] = 0 /\ \A i \in 1 .. n + 1 : g[i] = g[i - 1] + x[r[i]].len
  BY <1>1, <1>3, SumsAre
<1> HIDE DEF n
<1> DEFINE T == {k \in Nat : g[k] = f[k]}
<1>6. 0 \in T
  BY <1>4, <1>5
<1>7. ASSUME NEW k \in 0 .. n - 1, k \in T PROVE k + 1 \in T
  <2>1. k + 1 \in 1 .. n /\ k + 1 \in 1 .. n + 1 /\ (k + 1) - 1 = k /\ k + 1 \in Nat
    BY <1>1
  <2>2. g[k + 1] = g[k] + x[q[k + 1]].len
    BY <1>1, <1>5, <2>1
  <2>3. f[k + 1] = f[k] + x[q[k + 1]].len
    BY <1>4, <2>1
  <2>4. QED BY <1>7, <2>1, <2>2, <2>3
<1> HIDE DEF T
<1>8. g[n] = f[n]
  <2>1. 0 .. n \subseteq T
    BY <1>1, <1>6, <1>7, CountUp
  <2>2. QED BY <1>1, <2>1 DEF T
<1>9. g[n + 1] = g[n] + x[p].len
  <2>1. n + 1 \in 1 .. n + 1 /\ (n + 1) - 1 = n
    BY <1>1
  <2>2. QED BY <1>1, <1>5, <2>1
<1>10. QED BY <1>2, <1>3, <1>8, <1>9 DEF r, n

LEMMA SumTail ==
    ASSUME NEW x, Lengths(x), NEW q \in Seq(Units), Len(q) > 0
    PROVE  SumOf(x, Tail(q)) = SumOf(x, q) - x[Head(q)].len
<1> DEFINE r == Tail(q)
<1> DEFINE n == Len(r)
<1>1. /\ r \in Seq(Units) /\ Len(q) = n + 1 /\ n \in Nat /\ Head(q) = q[1]
      /\ \A i \in 1 .. n : r[i] = q[i + 1]
  OBVIOUS
<1> HIDE DEF r
<1>2. PICK f : Sums(x, q, n + 1, f) /\ SumOf(x, q) = f[n + 1]
  BY <1>1, SumOfIs
<1>3. PICK g : Sums(x, r, n, g) /\ SumOf(x, r) = g[n]
  BY <1>1, SumOfIs
<1>4. /\ f[0] = 0 /\ \A i \in 1 .. n + 1 : f[i] = f[i - 1] + x[q[i]].len
      /\ \A i \in 0 .. n + 1 : f[i] \in Nat
  BY <1>1, <1>2, SumsAre
<1>5. /\ g[0] = 0 /\ \A i \in 1 .. n : g[i] = g[i - 1] + x[r[i]].len
      /\ \A i \in 0 .. n : g[i] \in Nat
  BY <1>1, <1>3, SumsAre
<1> HIDE DEF n
<1> DEFINE l == x[q[1]].len
<1>6. l \in Nat
  <2>1. q[1] \in Units
    BY <1>1
  <2>2. QED BY <2>1 DEF Lengths
<1> DEFINE T == {k \in Nat : f[k + 1] = g[k] + l}
<1>7. 0 \in T
  <2>1. 1 \in 1 .. n + 1 /\ 1 - 1 = 0 /\ 0 + 1 = 1
    BY <1>1
  <2>2. f[1] = f[0] + l
    BY <1>4, <2>1
  <2>3. QED BY <1>4, <1>5, <2>1, <2>2
<1>8. ASSUME NEW k \in 0 .. n - 1, k \in T PROVE k + 1 \in T
  <2>1. /\ k + 1 \in 1 .. n /\ (k + 1) + 1 \in 1 .. n + 1 /\ k \in 0 .. n
        /\ (k + 1) - 1 = k /\ ((k + 1) + 1) - 1 = k + 1 /\ k + 1 \in Nat
    BY <1>1
  <2> DEFINE m == x[q[(k + 1) + 1]].len
  <2>2. m \in Nat
    <3>1. q[(k + 1) + 1] \in Units
      BY <1>1, <2>1
    <3>2. QED BY <3>1 DEF Lengths
  <2>3. g[k + 1] = g[k] + m
    BY <1>1, <1>5, <2>1
  <2>4. f[(k + 1) + 1] = f[k + 1] + m
    BY <1>4, <2>1
  <2>5. f[k + 1] = g[k] + l /\ g[k] \in Nat
    BY <1>5, <1>8, <2>1
  <2> HIDE DEF m, l
  <2>6. QED BY <1>6, <2>1, <2>2, <2>3, <2>4, <2>5
<1> HIDE DEF T
<1>9. f[n + 1] = g[n] + l /\ g[n] \in Nat
  <2>1. 0 .. n \subseteq T
    BY <1>1, <1>7, <1>8, CountUp
  <2>2. QED BY <1>1, <1>5, <2>1 DEF T
<1>10. QED BY <1>1, <1>2, <1>3, <1>6, <1>9 DEF r

(* ds->bytes is the sum of the lengths of what is in the queue.               *)
BytesOK == \A s \in Streams : bytes[s] = SumOf(file, queue[s])

LEMMA BytesStep ==
    ASSUME BaseInv, BytesOK, [Next]_vars
    PROVE  BytesOK'
<1>1. TypeOK /\ CountOK /\ Lengths(file)
  BY FileAssumption DEF BaseInv, TypeOK, Lengths
<1>2. \A s \in Streams : queue[s] \in Seq(Units)
  BY <1>1 DEF TypeOK
<1>3. CASE FillTake
  <2>1. PICK r \in Streams :
          /\ Len(queue[r]) > 0
          /\ queue' = [queue EXCEPT ![r] = Tail(queue[r])]
          /\ bytes' = [bytes EXCEPT ![r] = bytes[r] - file[Head(queue[r])].len]
          /\ UNCHANGED file
    BY <1>1, <1>3, TakeFacts DEF FillTake, fileVars
  <2>2. SumOf(file, Tail(queue[r])) = SumOf(file, queue[r]) - file[Head(queue[r])].len
    BY <1>1, <1>2, <2>1, SumTail
  <2>3. QED BY <1>1, <2>1, <2>2 DEF BytesOK, TypeOK
<1>4. CASE FillDemux
  <2>1. DemuxOne /\ filepos \in Units /\ UNCHANGED file
    BY <1>1, <1>4, DemuxTypes DEF FillDemux, DemuxOne
  <2>2. \A s \in Streams :
            SumOf(file, Append(queue[s], filepos)) = SumOf(file, queue[s]) + file[filepos].len
    BY <1>1, <1>2, <2>1, SumAppend
  <2>3. QED BY <2>1, <2>2 DEF DemuxOne, BytesOK
<1>5. ASSUME NEW S \in SUBSET Streams, FreePacks(S), UNCHANGED file
      PROVE  BytesOK'
  <2>1. SumOf(file, <<>>) = 0
    BY SumEmpty
  <2>2. QED BY <1>5, <2>1 DEF FreePacks, BytesOK
<1>6. CASE Selects
  <2>1. PICK s \in Streams : FreePacks({s}) /\ UNCHANGED file
    BY <1>1, <1>6, SelectFacts
  <2>2. {s} \in SUBSET Streams
    OBVIOUS
  <2>3. QED BY <1>5, <2>1, <2>2
<1>7. CASE Seeks
  <2>1. FreePacks(Streams) /\ UNCHANGED file
    BY <1>1, <1>7, SeekFacts
  <2>2. QED BY <1>5, <2>1
<1>8. CASE UNCHANGED <<file, filepos, queue, packs, bytes>>
  BY <1>8 DEF BytesOK
<1>9. QED BY <1>3, <1>4, <1>6, <1>7, <1>8, Frames

\* What decides when a queue is full, ds->packs and ds->bytes, counts what is
\* in it: ds_add_packet, ds_fill_buffer and ds_free_packs keep both.
THEOREM CountersAlwaysMatch == Spec => []CountersMatch
<1>1. Init => BytesOK
  BY SumEmpty DEF Init, BytesOK
<1>2. BaseInv /\ BytesOK => CountersMatch
  <2>1. \A q : SumLen(q) = SumOf(file, q)
    BY DEF SumLen, SumOf
  <2>2. QED BY <2>1 DEF BaseInv, CountOK, BytesOK, CountersMatch
<1>3. BaseInv /\ BytesOK /\ [Next]_vars => BytesOK'
  BY BytesStep
<1>4. QED BY <1>1, <1>2, <1>3, BaseInductive, PTL DEF Spec
==============================================================================
