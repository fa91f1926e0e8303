---------------------------- MODULE PlayLoopProofs ----------------------------
(* Theorems about PlayLoop, for every film, every audio output and every      *)
(* number of commands.  SoundOK says what a fill of the audio output keeps,   *)
(* EndInv what holds up to the end of the file, PicInv how the pictures and   *)
(* the sound relate.                                                          *)
EXTENDS PlayLoop, WellFoundedInduction, TLAPS

-----------------------------------------------------------------------------
(* Where a seek may land.                                                     *)

LEMMA LeastExists ==
    ASSUME NEW S \in SUBSET Nat, S # {}
    PROVE  \E m \in S : \A k \in S : m <= k
<1>1. PICK m \in S : \A k \in S : ~ (<<k, m>> \in OpToRel(<, Nat))
    BY NatLessThanWellFounded, WFMin
<1>2. \A k \in S : ~ (k < m)
    BY <1>1 DEF OpToRel
<1>3. QED BY <1>2

LEMMA GreatestExists ==
    ASSUME NEW n \in Nat, NEW S \in SUBSET (1 .. n), S # {}
    PROVE  \E m \in S : \A k \in S : m >= k
<1> DEFINE T == {i \in 0 .. n : n - i \in S}
<1>1. PICK s \in S : TRUE
    OBVIOUS
<1>2. n - s \in 0 .. n /\ n - (n - s) = s
    OBVIOUS
<1>3. T \in SUBSET Nat /\ n - s \in T
    BY <1>2
<1>4. PICK t \in T : \A k \in T : t <= k
  <2>1. T \in SUBSET Nat /\ T # {}
    BY <1>3
  <2> HIDE DEF T
  <2>2. QED BY <2>1, LeastExists
<1>5. ASSUME NEW k \in S PROVE n - t >= k
  <2>1. k \in 1 .. n /\ t \in 0 .. n
    BY <1>4
  <2>2. n - k \in 0 .. n /\ n - (n - k) = k
    BY <2>1
  <2>3. n - k \in T
    BY <2>2
  <2>4. t <= n - k
    BY <1>4, <2>3
  <2>5. QED BY <2>1, <2>4
<1>6. QED BY <1>4, <1>5

LEMMA LandingBefore ==
    ASSUME NEW t \in Int, NEW back \in BOOLEAN
    PROVE  /\ Landing(t, back) \in 1 .. Frames
           /\ back /\ t >= 1 => Landing(t, back) <= t
<1> DEFINE before == {k \in KeyFrames : k <= t}
           after  == {k \in KeyFrames : k >= t}
<1>1. before \in SUBSET (1 .. Frames) /\ after \in SUBSET (1 .. Frames)
    BY LoopAssumption
<1>2. before # {} => Max(before) \in before
  <2>1. SUFFICES ASSUME before # {} PROVE Max(before) \in before
    OBVIOUS
  <2>2. \E m \in before : \A k \in before : m >= k
    BY <1>1, <2>1, GreatestExists, LoopAssumption
  <2> HIDE DEF before
  <2>3. QED BY <2>2 DEF Max
<1>3. after # {} => Min(after) \in after
  <2>1. SUFFICES ASSUME after # {} PROVE Min(after) \in after
    OBVIOUS
  <2>2. \E m \in after : \A k \in after : m <= k
    <3>1. after \in SUBSET Nat
      BY <1>1, LoopAssumption
    <3> HIDE DEF after
    <3>2. QED BY <2>1, <3>1, LeastExists
  <2> HIDE DEF after
  <2>3. QED BY <2>2 DEF Min
<1>4. before # {} \/ after # {}
    BY LoopAssumption
<1>5. back /\ t >= 1 => before # {}
    BY LoopAssumption
<1>6. Landing(t, back) = IF (back /\ before # {}) \/ after = {} THEN Max(before) ELSE Min(after)
    BY DEF Landing
<1>7. QED BY <1>1, <1>2, <1>3, <1>4, <1>5, <1>6

-----------------------------------------------------------------------------
(* What a fill of the audio output makes of the sound.                        *)

SoundOK(x) ==
    /\ DOMAIN x = {"n", "b", "ao", "d", "s", "h"}
    /\ x.n \in 1 .. Sounds + 1 /\ x.b \in Nat /\ x.ao \in 0 .. AoSize /\ x.d \in Int
    /\ x.s \in BOOLEAN /\ x.h \in BOOLEAN

LEMMA DecodeSound ==
    ASSUME NEW x, SoundOK(x), NEW min \in Nat, NEW y, y = Decode(x, min)
    PROVE  /\ SoundOK(y)
           /\ y.s = x.s /\ y.h = x.h /\ y.ao = x.ao /\ y.d = x.d
           /\ Written(y) = Written(x)
           /\ y.b >= x.b
           /\ Short(x, min) \in BOOLEAN
           /\ Short(x, min) => y.n = Sounds + 1 /\ y.b < min
           /\ ~Short(x, min) => y.b >= min
<1> DEFINE more == IF x.b < min THEN Least(min - x.b, Sounds + 1 - x.n) ELSE 0
<1>1. more \in Nat /\ x.n + more <= Sounds + 1
    BY LoopAssumption DEF SoundOK, Least
<1>2. x.b + more < min => x.n + more = Sounds + 1
    BY LoopAssumption DEF SoundOK, Least
<1>3. y = [x EXCEPT !.n = @ + more, !.b = @ + more]
    BY DEF Decode
<1> HIDE DEF more
<1>4. /\ SoundOK(y) /\ y.n = x.n + more /\ y.b = x.b + more
      /\ y.s = x.s /\ y.h = x.h /\ y.ao = x.ao /\ y.d = x.d
    BY <1>1, <1>3, LoopAssumption DEF SoundOK
<1>5. QED BY <1>1, <1>2, <1>4 DEF Short, Written, SoundOK

LEMMA SpaceSize ==
    ASSUME NEW p \in BOOLEAN, NEW x, SoundOK(x)
    PROVE  /\ Space(p, x) \in Nat
           /\ ~p => x.ao + Space(p, x) = AoSize
    BY LoopAssumption DEF Space, SoundOK

LEMMA WriteSound ==
    ASSUME NEW x, SoundOK(x), NEW took \in Nat, x.ao + took <= AoSize,
           NEW y, y = WriteToAo(x, took)
    PROVE  /\ SoundOK(y)
           /\ y.n = x.n /\ y.b = x.b /\ y.s = x.s /\ y.h = x.h
           /\ y.ao = x.ao + took /\ y.d = x.d + took
    BY LoopAssumption DEF WriteToAo, SoundOK

LEMMA PlaySound ==
    ASSUME NEW p \in BOOLEAN, NEW x, SoundOK(x), NEW eof \in BOOLEAN,
           NEW r \in Play(p, x, eof)
    PROVE  /\ SoundOK(r.x)
           /\ r.x.n = x.n /\ r.x.s = x.s /\ r.x.h = x.h
           /\ Written(r.x) - r.x.d = Written(x) - x.d
           /\ p => r.x.ao = x.ao
           /\ r.status \in {-2, -1, 0} /\ (r.status = -2 => eof /\ r.x.b = 0)
<1> DEFINE size    == Space(p, x)
           n       == Least(size, x.b)
           partial == size > x.b
           takes   == IF p THEN {0} ELSE IF partial /\ eof THEN {n} ELSE {n} \union (1 .. n)
           status  == IF ~partial THEN 0 ELSE -1
<1>1. size \in Nat /\ (~p => x.ao + size = AoSize)
    BY SpaceSize
<1>2. n \in Nat /\ n <= size /\ n <= x.b /\ (partial => n = x.b)
    BY <1>1 DEF Least, SoundOK
<1>3. CASE n = 0
  <2>1. r = [x |-> x, status |-> IF partial /\ eof THEN -2 ELSE status]
    BY <1>3 DEF Play
  <2>2. QED BY <1>2, <1>3, <2>1 DEF SoundOK, Written
<1>4. CASE n # 0
  <2>1. PICK took \in takes :
            r = [x |-> [WriteToAo(x, took) EXCEPT !.b = @ - took], status |-> status]
    BY <1>4 DEF Play
  <2>2. took \in Nat /\ took <= n /\ (p => took = 0)
    BY <1>2, <2>1
  <2>3. x.ao + took <= AoSize
    BY <1>1, <1>2, <2>2, LoopAssumption DEF SoundOK
  <2> DEFINE y == WriteToAo(x, took)
  <2>4. /\ SoundOK(y)
        /\ y.n = x.n /\ y.b = x.b /\ y.s = x.s /\ y.h = x.h
        /\ y.ao = x.ao + took /\ y.d = x.d + took
    BY <2>2, <2>3, WriteSound
  <2>5. r = [x |-> [y EXCEPT !.b = @ - took], status |-> status]
    BY <2>1
  <2> HIDE DEF y
  <2>6. x.b - took \in Nat
    BY <1>2, <2>2 DEF SoundOK
  <2>7. /\ SoundOK(r.x)
        /\ r.x.n = x.n /\ r.x.s = x.s /\ r.x.h = x.h /\ r.x.b = x.b - took
        /\ r.x.ao = x.ao + took /\ r.x.d = x.d + took
        /\ r.status \in {-1, 0}
    BY <2>4, <2>5, <2>6 DEF SoundOK
  <2>8. QED BY <2>2, <2>7 DEF Written, SoundOK
<1>5. QED BY <1>3, <1>4

LEMMA DecodeAndPlay ==
    ASSUME NEW p \in BOOLEAN, NEW z, SoundOK(z), NEW min \in Nat,
           NEW r \in Play(p, Decode(z, min), Short(z, min))
    PROVE  /\ SoundOK(r.x)
           /\ r.x.s = z.s /\ r.x.h = z.h
           /\ Written(r.x) - r.x.d = Written(z) - z.d
           /\ p => r.x.ao = z.ao
           /\ r.status \in {-2, -1, 0}
           /\ r.status = -2 => r.x.n = Sounds + 1 /\ r.x.b = 0
<1> DEFINE y == Decode(z, min)
<1>1. y = Decode(z, min) /\ r \in Play(p, y, Short(z, min))
    OBVIOUS
<1> HIDE DEF y
<1>2. /\ SoundOK(y) /\ y.s = z.s /\ y.h = z.h /\ y.ao = z.ao /\ y.d = z.d
      /\ Written(y) = Written(z) /\ Short(z, min) \in BOOLEAN
      /\ Short(z, min) => y.n = Sounds + 1
    BY <1>1, DecodeSound
<1>3. /\ SoundOK(r.x) /\ r.x.n = y.n /\ r.x.s = y.s /\ r.x.h = y.h
      /\ Written(r.x) - r.x.d = Written(y) - y.d
      /\ p => r.x.ao = y.ao
      /\ r.status \in {-2, -1, 0}
      /\ r.status = -2 => Short(z, min) /\ r.x.b = 0
    BY <1>1, <1>2, PlaySound
<1>4. QED BY <1>2, <1>3

LEMMA StartSound ==
    ASSUME NEW p \in BOOLEAN, NEW x0, SoundOK(x0), NEW v \in Nat, hrseek \in Int,
           x0.s \/ x0.h, NEW r \in StartSync(p, x0, v)
    PROVE  /\ SoundOK(r.x)
           /\ r.x.h => x0.h
           /\ p => r.x.ao = x0.ao
           /\ r.status \in {-2, -1, 0}
           /\ r.status = -2 => r.x.n = Sounds + 1 /\ r.x.b = 0
           /\ ~x0.h /\ v # NoPts /\ ~r.x.s /\ r.x.n <= Sounds => Written(r.x) = v + r.x.d
<1> DEFINE x     == Decode(x0, 1)
           size  == Space(p, x)
           ahead == Ahead(x, v)
           y     == [x EXCEPT !.h = FALSE]
           insync == [y EXCEPT !.s = FALSE]
<1>1. /\ SoundOK(x)
      /\ x.s = x0.s /\ x.h = x0.h /\ x.ao = x0.ao /\ x.d = x0.d
      /\ Short(x0, 1) \in BOOLEAN
      /\ Short(x0, 1) => x.n = Sounds + 1 /\ x.b < 1
    <2>1. x = Decode(x0, 1)
      OBVIOUS
    <2> HIDE DEF x
    <2>2. QED BY <2>1, DecodeSound
<1>2. r \in IF Short(x0, 1) THEN Play(p, x, TRUE)
            ELSE IF ahead > 0 /\ x.h THEN Play(p, y, FALSE)
            ELSE IF ahead > 0 /\ ahead >= size
                 THEN {[x |-> WriteToAo(y, IF p THEN 0 ELSE size), status |-> 0]}
            ELSE IF ahead > 0
                 THEN LET z == [insync EXCEPT !.b = @ + ahead]
                      IN  Play(p, Decode(z, size), Short(z, size))
            ELSE LET all == Decode(insync, -ahead)
                     z   == [all EXCEPT !.b = IF @ + ahead > 0 THEN @ + ahead ELSE 0]
                 IN  IF Short(insync, -ahead) THEN Play(p, z, TRUE)
                     ELSE Play(p, Decode(z, size), Short(z, size))
    BY DEF StartSync
<1> HIDE DEF x
<1>3. /\ size \in Nat /\ (~p => x.ao + size = AoSize)
      /\ ahead \in Int
      /\ ~x.h /\ v # NoPts => ahead = Written(x) - v - x.d
  <2>1. size \in Nat /\ (~p => x.ao + size = AoSize)
    BY <1>1, SpaceSize
  <2>2. ahead \in Int /\ (~x.h /\ v # NoPts => ahead = Written(x) - v - x.d)
    BY <1>1 DEF Ahead, Written, SoundOK
  <2>3. QED BY <2>1, <2>2
<1>4. /\ SoundOK(y) /\ y.n = x.n /\ y.b = x.b /\ y.ao = x.ao /\ y.d = x.d /\ y.s = x.s
      /\ y.h = FALSE
    BY <1>1 DEF SoundOK
<1> HIDE DEF size, ahead, y
<1>5. /\ SoundOK(insync) /\ insync.n = x.n /\ insync.b = x.b /\ insync.ao = x.ao
      /\ insync.d = x.d /\ insync.s = FALSE /\ insync.h = FALSE
    BY <1>4 DEF SoundOK
<1> HIDE DEF insync
<1>6. CASE Short(x0, 1)
  <2>1. r \in Play(p, x, TRUE)
    BY <1>2, <1>6
  <2>2. /\ SoundOK(r.x) /\ r.x.n = x.n /\ r.x.h = x.h
        /\ (p => r.x.ao = x.ao)
        /\ r.status \in {-2, -1, 0} /\ (r.status = -2 => r.x.b = 0)
    BY <1>1, <2>1, PlaySound
  <2>3. QED BY <1>1, <1>6, <2>2, LoopAssumption DEF SoundOK
<1>7. CASE ~Short(x0, 1) /\ ahead > 0 /\ x.h
  <2> DEFINE eof == FALSE
  <2>1. r \in Play(p, y, eof) /\ eof \in BOOLEAN /\ ~eof
    BY <1>2, <1>7
  <2> HIDE DEF eof
  <2>2. /\ SoundOK(r.x) /\ r.x.h = y.h /\ (p => r.x.ao = y.ao)
    BY <1>4, <2>1, PlaySound
  <2>3. r.status \in {-2, -1, 0} /\ r.status # -2
    BY <1>4, <2>1, PlaySound
  <2>4. QED BY <1>1, <1>4, <1>7, <2>2, <2>3
<1>8. CASE ~Short(x0, 1) /\ ahead > 0 /\ ~x.h /\ ahead >= size
  <2> DEFINE took == IF p THEN 0 ELSE size
  <2>1. r = [x |-> WriteToAo(y, took), status |-> 0]
    BY <1>2, <1>8
  <2>2. took \in Nat /\ y.ao + took <= AoSize /\ (p => took = 0)
    BY <1>1, <1>3, <1>4 DEF SoundOK
  <2> HIDE DEF took
  <2>3. /\ SoundOK(r.x) /\ r.x.s = y.s /\ r.x.h = y.h /\ r.x.ao = y.ao + took
    BY <1>4, <2>1, <2>2, WriteSound
  <2>4. r.x.n = y.n /\ r.x.b = y.b /\ r.x.d = y.d + took
    BY <1>4, <2>1, <2>2, WriteSound
  <2>5. r.status = 0
    BY <2>1
  <2>6. r.x.s
    BY <1>1, <1>4, <1>8, <2>3
  <2>7. p => r.x.ao = x0.ao
    BY <1>1, <1>4, <2>2, <2>3 DEF SoundOK
  <2>8. ~r.x.h
    BY <1>4, <2>3
  <2>9. QED BY <2>3, <2>5, <2>6, <2>7, <2>8
<1>9. CASE ~Short(x0, 1) /\ ahead > 0 /\ ~x.h /\ ~(ahead >= size)
  <2> DEFINE z == [insync EXCEPT !.b = @ + ahead]
  <2>1. r \in Play(p, Decode(z, size), Short(z, size))
    BY <1>2, <1>9
  <2>2. /\ SoundOK(z) /\ z.n = insync.n /\ z.b = insync.b + ahead /\ z.ao = insync.ao
        /\ z.d = insync.d /\ z.s = FALSE /\ z.h = FALSE
    BY <1>3, <1>5, <1>9 DEF SoundOK
  <2> HIDE DEF z
  <2>3. Written(z) = Written(x) - ahead
    BY <1>1, <1>3, <1>5, <2>2 DEF Written, SoundOK
  <2>4. /\ SoundOK(r.x) /\ r.x.s = z.s /\ r.x.h = z.h
        /\ Written(r.x) - r.x.d = Written(z) - z.d
        /\ (p => r.x.ao = z.ao)
        /\ r.status \in {-2, -1, 0}
        /\ (r.status = -2 => r.x.n = Sounds + 1 /\ r.x.b = 0)
    BY <1>3, <2>1, <2>2, DecodeAndPlay
  <2>5. v # NoPts => Written(z) - z.d = v
    BY <1>1, <1>3, <1>5, <1>9, <2>2, <2>3 DEF Written, SoundOK
  <2>6. QED BY <1>1, <1>5, <2>2, <2>4, <2>5 DEF Written, SoundOK
<1>10. CASE ~Short(x0, 1) /\ ~(ahead > 0)
  <2> DEFINE all == Decode(insync, -ahead)
             z   == [all EXCEPT !.b = IF @ + ahead > 0 THEN @ + ahead ELSE 0]
  <2>1. r \in IF Short(insync, -ahead) THEN Play(p, z, TRUE)
              ELSE Play(p, Decode(z, size), Short(z, size))
    BY <1>2, <1>10
  <2>2. all = Decode(insync, -ahead) /\ -ahead \in Nat
    BY <1>3, <1>10
  <2> HIDE DEF all
  <2>3. /\ SoundOK(all) /\ all.s = FALSE /\ all.h = FALSE /\ all.ao = x.ao /\ all.d = x.d
        /\ Written(all) = Written(insync)
    BY <1>5, <2>2, DecodeSound
  <2>4. /\ Short(insync, -ahead) \in BOOLEAN
        /\ Short(insync, -ahead) => all.n = Sounds + 1
        /\ ~Short(insync, -ahead) => all.b >= -ahead
    BY <1>5, <2>2, DecodeSound
  <2>5. /\ SoundOK(z) /\ z.n = all.n /\ z.ao = all.ao
        /\ z.b = (IF all.b + ahead > 0 THEN all.b + ahead ELSE 0)
        /\ z.d = all.d /\ z.s = FALSE /\ z.h = FALSE
    BY <1>3, <2>3 DEF SoundOK
  <2> HIDE DEF z
  <2>6. CASE Short(insync, -ahead)
    <3> DEFINE eof == TRUE
    <3>1. r \in Play(p, z, eof) /\ eof \in BOOLEAN
      BY <2>1, <2>6
    <3> HIDE DEF eof
    <3>2. /\ SoundOK(r.x) /\ r.x.n = z.n /\ r.x.h = z.h /\ (p => r.x.ao = z.ao)
      BY <2>5, <3>1, PlaySound
    <3>3. r.status \in {-2, -1, 0} /\ (r.status = -2 => r.x.b = 0)
      BY <2>5, <3>1, PlaySound
    <3>4. QED BY <1>1, <2>3, <2>4, <2>5, <2>6, <3>2, <3>3, LoopAssumption DEF SoundOK
  <2>7. CASE ~Short(insync, -ahead)
    <3>1. r \in Play(p, Decode(z, size), Short(z, size))
      BY <2>1, <2>7
    <3>2. /\ SoundOK(r.x) /\ r.x.s = z.s /\ r.x.h = z.h
          /\ Written(r.x) - r.x.d = Written(z) - z.d
          /\ (p => r.x.ao = z.ao)
          /\ r.status \in {-2, -1, 0}
          /\ (r.status = -2 => r.x.n = Sounds + 1 /\ r.x.b = 0)
      BY <1>3, <2>5, <3>1, DecodeAndPlay
    <3>3. Written(z) = Written(all) - ahead
      BY <1>3, <2>3, <2>4, <2>5, <2>7 DEF Written, SoundOK
    <3>4. Written(insync) = Written(x)
      BY <1>5 DEF Written
    <3>5. ~x.h /\ v # NoPts => Written(z) - z.d = v
      BY <1>1, <1>3, <2>3, <2>5, <3>3, <3>4 DEF Written, SoundOK
    <3>6. QED BY <1>1, <2>3, <2>5, <3>2, <3>5 DEF Written, SoundOK
  <2>8. QED BY <2>4, <2>6, <2>7
<1>11. QED BY <1>1, <1>3, <1>6, <1>7, <1>8, <1>9, <1>10 DEF SoundOK

\* Sound that is in step, is to be put in step, or is all there is.
Kept(x, v) == x.s \/ x.n = Sounds + 1 \/ Written(x) = v + x.d

LEMMA FillSound ==
    ASSUME NEW p \in BOOLEAN, NEW x, SoundOK(x), NEW v \in Nat, hrseek \in Int,
           NEW r \in Fill(p, x, v)
    PROVE  /\ SoundOK(r.x)
           /\ r.x.h => x.h
           /\ p => r.x.ao = x.ao
           /\ r.status \in {-2, -1, 0}
           /\ r.status = -2 => r.x.n = Sounds + 1 /\ r.x.b = 0
           /\ ~x.h /\ v # NoPts /\ Kept(x, v) => Kept(r.x, v)
<1>1. CASE x.s \/ x.h
  <2>1. r \in StartSync(p, x, v)
    BY <1>1 DEF Fill
  <2>2. /\ SoundOK(r.x)
        /\ r.x.h => x.h
        /\ p => r.x.ao = x.ao
        /\ r.status \in {-2, -1, 0}
        /\ r.status = -2 => r.x.n = Sounds + 1 /\ r.x.b = 0
        /\ ~x.h /\ v # NoPts /\ ~r.x.s /\ r.x.n <= Sounds => Written(r.x) = v + r.x.d
    BY <1>1, <2>1, StartSound
  <2>3. r.x.n <= Sounds \/ r.x.n = Sounds + 1
    BY <2>2, LoopAssumption DEF SoundOK
  <2>4. QED BY <2>2, <2>3 DEF Kept
<1>2. CASE ~(x.s \/ x.h)
  <2> DEFINE size == Space(p, x)
  <2>1. r \in Play(p, Decode(x, size), Short(x, size)) /\ size \in Nat
    BY <1>2, SpaceSize DEF Fill
  <2> HIDE DEF size
  <2>2. /\ SoundOK(r.x) /\ r.x.s = x.s /\ r.x.h = x.h
        /\ Written(r.x) - r.x.d = Written(x) - x.d
        /\ (p => r.x.ao = x.ao)
        /\ r.status \in {-2, -1, 0}
        /\ (r.status = -2 => r.x.n = Sounds + 1 /\ r.x.b = 0)
    BY <2>1, DecodeAndPlay
  <2>3. r.x.n >= x.n
    <3> DEFINE y == Decode(x, size)
    <3>1. y = Decode(x, size) /\ r \in Play(p, y, Short(x, size))
      BY <2>1
    <3> HIDE DEF y
    <3>2. SoundOK(y) /\ Short(x, size) \in BOOLEAN /\ Written(y) = Written(x) /\ y.b >= x.b
      BY <2>1, <3>1, DecodeSound
    <3>3. r.x.n = y.n
      BY <3>1, <3>2, PlaySound
    <3>4. QED BY <3>2, <3>3 DEF Written, SoundOK
  <2>4. x.n = Sounds + 1 => r.x.n = Sounds + 1
    BY <2>2, <2>3, LoopAssumption DEF SoundOK
  <2>5. Written(x) = v + x.d => Written(r.x) = v + r.x.d
    BY <2>2 DEF Written, SoundOK
  <2>6. QED BY <2>2, <2>4, <2>5 DEF Kept
<1>3. QED BY <1>1, <1>2

-----------------------------------------------------------------------------
(* Type correctness.                                                          *)

LEMMA Sound0OK ==
    ASSUME SoundTypes PROVE SoundOK(Sound0)
<1>1. (syncing_audio /\ HasVideo) \in BOOLEAN
    BY DEF SoundTypes
<1>2. QED BY <1>1 DEF SoundTypes, SoundOK, Sound0

LEMMA SetSoundOK ==
    ASSUME NEW x, SoundOK(x), SetSound(x)
    PROVE  SoundTypes'
    BY DEF SetSound, SoundOK, SoundTypes

LEMMA FillTyped ==
    ASSUME TypeOK, NEW p \in BOOLEAN, NEW r \in Fill(p, Sound0, vpts)
    PROVE  SoundOK(r.x)
<1>1. vpts \in Nat /\ hrseek \in Int
    BY LoopAssumption DEF TypeOK, PictureTypes, LoopTypes
<1>2. QED BY <1>1, Sound0OK, FillSound DEF TypeOK

LEMMA NoPictureTyped == NoPicture \in Pictures /\ NoPts \in 0 .. Frames
    BY LoopAssumption DEF NoPicture, NoPts, Pictures

LEMMA OldTyped ==
    ASSUME NEW pic \in Pictures
    PROVE  Old(pic) \in Pictures
    BY DEF Old, Pictures

LEMMA TookTyped ==
    ASSUME PictureTypes, SoundTypes, NEW pic \in Pictures, Took(pic)
    PROVE  /\ loaded' \in BOOLEAN /\ waiting' \in Pictures
           /\ vpts' \in 0 .. Frames /\ last_pts' \in 0 .. Frames
           /\ hractive' \in BOOLEAN /\ delay' \in Int
<1>1. pic.t \in 0 .. Frames
    BY DEF Pictures
<1>2. loaded' \in BOOLEAN /\ waiting' \in Pictures /\ hractive' \in BOOLEAN
    BY DEF Took, DrawImage, SoundTypes
<1>3. vpts' \in 0 .. Frames /\ last_pts' \in 0 .. Frames
    BY <1>1 DEF Took, PictureTypes
<1>4. delay' \in Int
    BY <1>1 DEF Took, PictureTypes, SoundTypes
<1>5. QED BY <1>2, <1>3, <1>4

LEMMA TypeInit == Init => TypeOK
<1> SUFFICES ASSUME Init PROVE TypeOK
    OBVIOUS
<1>1. PictureTypes
  <2>1. vnext \in 1 .. Frames + 1 /\ held \in Pictures /\ waiting \in Pictures
    BY NoPictureTyped, LoopAssumption DEF Init
  <2>2. vpts \in 0 .. Frames /\ last_pts \in 0 .. Frames
    BY NoPictureTyped DEF Init
  <2>3. QED BY <2>1, <2>2 DEF Init, PictureTypes
<1>2. SoundTypes
  <2>1. anext \in 1 .. Sounds + 1
    BY LoopAssumption DEF Init
  <2>2. ao \in 0 .. AoSize /\ abuf \in Nat /\ delay \in Int
    BY LoopAssumption DEF Init
  <2>3. QED BY <2>1, <2>2 DEF Init, SoundTypes
<1>3. UserTypes
    BY DEF Init, UserTypes
<1>4. LoopTypes
  <2>1. seek \in SeekTypes
    BY DEF Init, NoSeek, SeekTypes
  <2>2. loop_times \in Nat \union {-1}
    BY LoopAssumption DEF Init
  <2>3. video_pts \in Int /\ hrseek \in Int /\ commands \in Nat
    BY DEF Init, NoPts
  <2>4. /\ setup \in Setups /\ stop_play \in {"no", "eof", "next"}
        /\ at \in {"start", "video", "decide", "after", "commands", "tail", "stopped"}
    BY DEF Init
  <2>5. QED BY <2>1, <2>2, <2>3, <2>4 DEF Init, LoopTypes
<1>5. QED BY <1>1, <1>2, <1>3, <1>4 DEF TypeOK

LEMMA PauseTyped ==
    ASSUME UserTypes, PausePlayer(paused, 0) PROVE UserTypes'
    BY DEF UserTypes, PausePlayer

LEMMA StepTyped ==
    ASSUME UserTypes, AddStep PROVE UserTypes'
<1>1. step_frames' \in Nat
    BY DEF UserTypes, AddStep
<1>2. paused' \in BOOLEAN
    BY DEF AddStep
<1>3. QED BY <1>1, <1>2 DEF UserTypes

LEMMA SameUser ==
    ASSUME UserTypes, UNCHANGED userVars PROVE UserTypes'
    BY DEF UserTypes, userVars

LEMMA StartTyped == TypeOK /\ Start => TypeOK'
<1> SUFFICES ASSUME TypeOK, Start PROVE TypeOK'
    OBVIOUS
<1>1. UserTypes'
    BY PauseTyped, SameUser DEF Start, TypeOK
<1>2. SoundTypes' /\ full_audio' \in BOOLEAN /\ audio_left' \in BOOLEAN
  <2>1. CASE MayWrite
    <3>1. PICK r \in Fill(paused', Sound0, vpts) :
             /\ SetSound(r.x)
             /\ full_audio' = (r.status >= 0) /\ audio_left' = (r.status > -2)
      BY <2>1 DEF Start
    <3>2. SoundOK(r.x)
      BY <1>1, <3>1, FillTyped DEF UserTypes
    <3>3. SoundTypes'
      BY <3>1, <3>2, SetSoundOK
    <3>4. QED BY <3>1, <3>3
  <2>2. CASE ~MayWrite
    BY <2>2 DEF Start, TypeOK, SoundTypes
  <2>3. QED BY <2>1, <2>2
<1>3. PictureTypes'
    BY DEF Start, TypeOK, PictureTypes, videoVars
<1>4. LoopTypes'
    BY <1>2 DEF Start, TypeOK, LoopTypes
<1>5. QED BY <1>1, <1>2, <1>3, <1>4 DEF TypeOK

LEMMA VideoTyped == TypeOK /\ Video => TypeOK'
<1> SUFFICES ASSUME TypeOK, Video PROVE TypeOK'
    OBVIOUS
<1> DEFINE Part ==
        /\ PictureTypes'
        /\ hractive' \in BOOLEAN /\ delay' \in Int /\ video_left' \in BOOLEAN
        /\ at' = "decide"
<1>1. ASSUME KeepPicture PROVE Part
    BY <1>1 DEF KeepPicture, TypeOK, PictureTypes, SoundTypes, InVideo, videoVars
<1>2. ASSUME TakeHeld PROVE Part
    BY <1>2, NoPictureTyped, TookTyped
       DEF TakeHeld, TypeOK, PictureTypes, SoundTypes, InVideo
<1>3. ASSUME DecodePicture PROVE Part
  <2> DEFINE pic == [t |-> vnext, old |-> FALSE]
  <2>1. vnext' = vnext + 1 /\ vnext \in 1 .. Frames
    BY <1>3, LoopAssumption DEF DecodePicture, TypeOK, PictureTypes
  <2>2. pic \in Pictures
    BY <2>1 DEF Pictures
  <2>3. Took(pic) /\ held' = IF setup.doubling THEN pic ELSE NoPicture
    BY <1>3 DEF DecodePicture
  <2> HIDE DEF pic
  <2>4. held' \in Pictures
    BY <2>2, <2>3, NoPictureTyped
  <2>5. vnext' \in 1 .. Frames + 1
    BY <2>1, LoopAssumption
  <2>6. hasframe' \in BOOLEAN /\ video_left' \in BOOLEAN /\ at' = "decide"
    BY <1>3 DEF DecodePicture, TypeOK, PictureTypes, InVideo
  <2>7. QED BY <2>2, <2>3, <2>4, <2>5, <2>6, TookTyped DEF TypeOK, PictureTypes
<1>4. ASSUME DropPicture PROVE Part
  <2>1. vnext' \in 1 .. Frames + 1
    BY <1>4, LoopAssumption DEF DropPicture, TypeOK, PictureTypes
  <2>2. QED BY <1>4, <2>1 DEF DropPicture, TypeOK, PictureTypes, SoundTypes, InVideo, voVars
<1>5. ASSUME NoMorePictures PROVE Part
    BY <1>5 DEF NoMorePictures, TypeOK, PictureTypes, SoundTypes, InVideo, videoVars
<1>6. Part
    BY <1>1, <1>2, <1>3, <1>4, <1>5 DEF Video
<1> HIDE DEF Part
<1>7. SoundTypes'
    BY <1>6 DEF Part, Video, TypeOK, SoundTypes
<1>8. UserTypes' /\ LoopTypes'
    BY <1>6 DEF Part, Video, TypeOK, UserTypes, LoopTypes, userVars
<1>9. QED BY <1>6, <1>7, <1>8 DEF Part, TypeOK

LEMMA FlipTyped == TypeOK /\ Flip => TypeOK'
<1> SUFFICES ASSUME TypeOK, Flip PROVE TypeOK'
    OBVIOUS
<1>1. UserTypes'
  <2>1. CASE step_frames = 1
    BY <2>1, PauseTyped DEF Flip, TypeOK
  <2>2. CASE step_frames # 1
    <3>1. paused' = paused /\ step_frames' = IF step_frames > 0 THEN step_frames - 1 ELSE 0
      BY <2>2 DEF Flip
    <3>2. QED BY <3>1 DEF TypeOK, UserTypes
  <2>3. QED BY <2>1, <2>2
<1>2. SoundTypes'
  <2>1. CASE restart_playback /\ HasSound
    <3>1. PICK r \in Fill(paused, [Sound0 EXCEPT !.s = TRUE], vpts) : SetSound(r.x)
      BY <2>1 DEF Flip
    <3>2. SoundOK(Sound0)
      BY Sound0OK DEF TypeOK
    <3>3. SoundOK([Sound0 EXCEPT !.s = TRUE])
      BY <3>2 DEF SoundOK
    <3>4. vpts \in Nat /\ hrseek \in Int /\ paused \in BOOLEAN
      BY DEF TypeOK, PictureTypes, LoopTypes, UserTypes
    <3>5. SoundOK(r.x)
      BY <3>1, <3>3, <3>4, FillSound
    <3>6. QED BY <3>1, <3>5, SetSoundOK
  <2>2. CASE ~(restart_playback /\ HasSound)
    BY <2>2 DEF Flip, TypeOK, SoundTypes, LoopTypes
  <2>3. QED BY <2>1, <2>2
<1>3. PictureTypes'
    BY NoPictureTyped DEF Flip, TypeOK, PictureTypes
<1>4. LoopTypes'
  <2>1. video_pts' \in Int
    BY LoopAssumption DEF Flip, TypeOK, PictureTypes
  <2>2. restart_playback' \in BOOLEAN /\ busy' \in BOOLEAN /\ at' = "after"
    BY DEF Flip
  <2>3. QED BY <2>1, <2>2 DEF Flip, TypeOK, LoopTypes
<1>5. QED BY <1>1, <1>2, <1>3, <1>4 DEF TypeOK

LEMMA AfterTyped == TypeOK /\ After => TypeOK'
<1> SUFFICES ASSUME TypeOK, After PROVE TypeOK'
    OBVIOUS
<1>1. UserTypes'
  <2>1. UNCHANGED userVars \/ AddStep
    BY DEF After
  <2>2. QED BY <2>1, StepTyped, SameUser DEF TypeOK
<1>2. SoundTypes' /\ full_audio' \in BOOLEAN /\ audio_left' \in BOOLEAN
  <2>1. CASE HasSound /\ restart_playback /\ ~video_left
    <3>1. PICK r \in Fill(paused, Sound0, vpts) :
             /\ SetSound(r.x)
             /\ full_audio' = (r.status >= 0) /\ audio_left' = (r.status > -2)
      BY <2>1 DEF After
    <3>2. SoundOK(r.x)
      BY <3>1, FillTyped DEF TypeOK, UserTypes
    <3>3. SoundTypes'
      BY <3>1, <3>2, SetSoundOK
    <3>4. QED BY <3>1, <3>3
  <2>2. CASE ~(HasSound /\ restart_playback /\ ~video_left)
    BY <2>2 DEF After, TypeOK, SoundTypes, LoopTypes
  <2>3. QED BY <2>1, <2>2
<1>3. PictureTypes'
    BY DEF After, TypeOK, PictureTypes, videoVars
<1>4. LoopTypes'
  <2>1. stop_play' \in {"no", "eof", "next"} /\ restart_playback' \in BOOLEAN
    BY DEF After, TypeOK, LoopTypes
  <2>2. QED BY <1>2, <2>1 DEF After, TypeOK, LoopTypes
<1>5. QED BY <1>1, <1>2, <1>3, <1>4 DEF TypeOK

LEMMA NowTyped ==
    ASSUME TypeOK PROVE Now \in Int
<1>1. SoundOK(Sound0)
    BY Sound0OK DEF TypeOK
<1>2. Heard \in Int
    BY <1>1 DEF TypeOK, SoundTypes, Heard, Written, SoundOK
<1>3. QED BY <1>2 DEF TypeOK, LoopTypes, Now

\* Where a seek goes to, and the picture that the demuxer finds.
Goal(s) == IF s.type = "relative" THEN s.amount + Now ELSE s.amount
Found(s) == Landing(Goal(s), Backwards(s))

LEMMA FoundTyped ==
    ASSUME TypeOK, NEW s \in SeekTypes
    PROVE  /\ Goal(s) \in Int /\ Found(s) \in 1 .. Frames
           /\ s.exact /\ Goal(s) >= 1 => Found(s) <= Goal(s)
<1>1. Goal(s) \in Int
    BY NowTyped DEF Goal, SeekTypes
<1>2. Backwards(s) \in BOOLEAN /\ (s.exact => Backwards(s))
    BY DEF Backwards, SeekTypes
<1>3. QED BY <1>1, <1>2, LandingBefore DEF Found

LEMMA SeekSteps ==
    ASSUME NEW s, setup.seekable, DoSeek(s)
    PROVE  /\ vnext' = Found(s) /\ held' = Old(held)
           /\ waiting' = Old(waiting) /\ hasframe' = FALSE /\ loaded' = FALSE
           /\ vpts' = NoPts /\ last_pts' = NoPts /\ video_pts' = Goal(s)
           /\ anext' \in IF HasSound THEN (Found(s) - 1 .. Found(s) + 1) \cap (1 .. Sounds + 1)
                         ELSE {1}
           /\ abuf' = 0 /\ ao' = 0 /\ delay' = IF HasVideo THEN 0 ELSE delay
           /\ restart_playback' = TRUE
           /\ hractive' = s.exact /\ hrseek' = IF s.exact THEN Goal(s) ELSE hrseek
           /\ UNCHANGED syncing_audio
    BY DEF DoSeek, Goal, Found, VoSeekReset

LEMMA SeekTyped ==
    ASSUME TypeOK, NEW s \in SeekTypes, DoSeek(s)
    PROVE  /\ PictureTypes' /\ SoundTypes'
           /\ video_pts' \in Int /\ hrseek' \in Int /\ restart_playback' \in BOOLEAN
<1>1. CASE ~setup.seekable
    BY <1>1 DEF DoSeek, TypeOK, PictureTypes, SoundTypes, LoopTypes, videoVars, audioVars
<1>2. CASE setup.seekable
  <2>1. Goal(s) \in Int /\ Found(s) \in 1 .. Frames /\ s.exact \in BOOLEAN
    BY FoundTyped DEF SeekTypes
  <2>2. held' \in Pictures /\ waiting' \in Pictures
    BY <1>2, SeekSteps, OldTyped DEF TypeOK, PictureTypes
  <2>3. PictureTypes'
    <3>1. vnext' \in 1 .. Frames + 1
      <4>1. vnext' = Found(s)
        BY <1>2, SeekSteps
      <4>2. QED BY <2>1, <4>1, LoopAssumption
    <3>2. /\ vpts' \in 0 .. Frames /\ last_pts' \in 0 .. Frames
          /\ hasframe' = FALSE /\ loaded' = FALSE
      BY <1>2, SeekSteps, NoPictureTyped
    <3>3. QED BY <2>2, <3>1, <3>2 DEF PictureTypes
  <2>4. anext' \in 1 .. Sounds + 1
    <3>1. anext' \in IF HasSound THEN (Found(s) - 1 .. Found(s) + 1) \cap (1 .. Sounds + 1)
                     ELSE {1}
      BY <1>2, SeekSteps
    <3>2. QED BY <3>1, LoopAssumption
  <2>5. SoundTypes'
    <3>1. abuf' = 0 /\ ao' = 0 /\ delay' = IF HasVideo THEN 0 ELSE delay
      BY <1>2, SeekSteps
    <3>2. abuf' \in Nat /\ ao' \in 0 .. AoSize /\ delay' \in Int
      BY <3>1, LoopAssumption DEF TypeOK, SoundTypes
    <3>3. syncing_audio' \in BOOLEAN /\ hractive' \in BOOLEAN
      <4>1. syncing_audio' = syncing_audio /\ hractive' = s.exact
        BY <1>2, SeekSteps
      <4>2. QED BY <2>1, <4>1 DEF TypeOK, SoundTypes
    <3>4. QED BY <2>4, <3>2, <3>3 DEF SoundTypes
  <2>6. QED BY <1>2, <2>1, <2>3, <2>5, SeekSteps DEF TypeOK, LoopTypes
<1>3. QED BY <1>1, <1>2

\* The seek at the end of a turn: that of the next round, or the one queued.
SeekOf == IF Again THEN [type |-> "absolute", amount |-> 1, exact |-> FALSE] ELSE seek

LEMMA SeekOfTyped ==
    ASSUME TypeOK PROVE SeekOf \in SeekTypes
    BY DEF TypeOK, LoopTypes, SeekTypes, SeekOf

LEMMA TailTyped == TypeOK /\ Tail => TypeOK'
<1> SUFFICES ASSUME TypeOK, Tail PROVE TypeOK'
    OBVIOUS
<1>1. /\ PictureTypes' /\ SoundTypes'
      /\ video_pts' \in Int /\ hrseek' \in Int /\ restart_playback' \in BOOLEAN
  <2>1. CASE SeekOf.type # "none"
    <3>1. DoSeek(SeekOf)
      BY <2>1 DEF Tail, SeekOf
    <3>2. QED BY <3>1, SeekOfTyped, SeekTyped
  <2>2. CASE SeekOf.type = "none"
    <3>1. UNCHANGED <<videoVars, video_pts, audioVars, restart_playback>>
      BY <2>2 DEF Tail, SeekOf
    <3>2. QED BY <3>1 DEF TypeOK, PictureTypes, SoundTypes, LoopTypes, videoVars, audioVars
  <2>3. QED BY <2>1, <2>2
<1>2. stop_play' \in {"no", "eof", "next"}
    BY DEF Tail, TypeOK, LoopTypes
<1>3. loop_times' \in Nat \union {-1}
    BY DEF Tail, TypeOK, LoopTypes
<1>4. seek' \in SeekTypes
    BY DEF Tail, NoSeek, SeekTypes
<1>5. at' \in {"start", "stopped"}
    BY DEF Tail
<1>6. UserTypes'
    BY DEF Tail, userVars, TypeOK, UserTypes
<1>7. LoopTypes'
    BY <1>1, <1>2, <1>3, <1>4, <1>5 DEF Tail, TypeOK, LoopTypes, turnVars
<1>8. QED BY <1>1, <1>6, <1>7 DEF TypeOK

LEMMA QueueTyped ==
    ASSUME seek \in SeekTypes, NEW type \in {"relative", "absolute"}, NEW amount \in Int,
           NEW exact \in BOOLEAN, QueueSeek(type, amount, exact)
    PROVE  seek' \in SeekTypes
<1>1. seek.amount + amount \in Int /\ (exact \/ seek.exact) \in BOOLEAN
    BY DEF SeekTypes
<1>2. CASE type = "absolute"
    BY <1>2 DEF QueueSeek, SeekTypes
<1>3. CASE type = "relative" /\ seek.type = "absolute"
  <2>1. seek' = [type |-> "absolute", amount |-> seek.amount + amount,
                 exact |-> exact \/ seek.exact]
    BY <1>3 DEF QueueSeek
  <2>2. QED BY <1>1, <2>1 DEF SeekTypes
<1>4. CASE type = "relative" /\ seek.type # "absolute"
  <2>1. seek' = IF seek.amount + amount = 0 THEN NoSeek
                ELSE [type |-> type, amount |-> seek.amount + amount,
                      exact |-> exact \/ seek.exact]
    BY <1>4 DEF QueueSeek
  <2>2. QED BY <1>1, <2>1 DEF SeekTypes, NoSeek
<1>5. QED BY <1>2, <1>3, <1>4

Commands == CommandSeek \/ CommandStep \/ CommandPause \/ CommandNext

LEMMA CommandSteps ==
    ASSUME Commands
    PROVE  /\ at = "commands" /\ at' \in {"commands", "tail"}
           /\ UNCHANGED <<setup, videoVars, video_pts, audioVars, restart_playback, loop_times,
                          turnVars>>
           /\ stop_play' \in {stop_play, "next"}
    BY DEF Commands, CommandSeek, CommandStep, CommandPause, CommandNext, Command, GoOn

LEMMA CommandTyped == TypeOK /\ Commands => TypeOK'
<1> SUFFICES ASSUME TypeOK, Commands PROVE TypeOK'
    OBVIOUS
<1>1. PictureTypes' /\ SoundTypes'
    BY CommandSteps DEF TypeOK, PictureTypes, SoundTypes, videoVars, audioVars
<1>2. commands' \in Nat
  <2>1. commands' = commands + 1
    BY DEF Commands, CommandSeek, CommandStep, CommandPause, CommandNext, Command
  <2>2. QED BY <2>1 DEF TypeOK, LoopTypes
<1>3. UserTypes'
  <2>1. CASE CommandPause
    <3>1. CASE paused
      BY <2>1, <3>1 DEF CommandPause, TypeOK, UserTypes
    <3>2. CASE ~paused
      BY <2>1, <3>2 DEF CommandPause, PausePlayer, UserTypes
    <3>3. QED BY <3>1, <3>2
  <2>2. CASE CommandSeek \/ CommandStep \/ CommandNext
    <3>1. UNCHANGED userVars \/ AddStep
      BY <2>2 DEF CommandSeek, CommandStep, CommandNext, userVars
    <3>2. QED BY <3>1, StepTyped, SameUser DEF TypeOK
  <2>3. QED BY <2>1, <2>2 DEF Commands
<1>4. seek' \in SeekTypes
  <2>1. CASE CommandSeek
    <3>1. PICK exact \in BOOLEAN :
             \/ \E t \in Targets : QueueSeek("absolute", t, exact)
             \/ \E d \in Offsets : QueueSeek("relative", d, exact)
      BY <2>1 DEF CommandSeek
    <3>2. seek \in SeekTypes
      BY DEF TypeOK, LoopTypes
    <3>3. QED BY <3>1, <3>2, QueueTyped, LoopAssumption
  <2>2. CASE CommandStep \/ CommandPause \/ CommandNext
    BY <2>2 DEF CommandStep, CommandPause, CommandNext, TypeOK, LoopTypes
  <2>3. QED BY <2>1, <2>2 DEF Commands
<1>5. LoopTypes'
    BY <1>2, <1>4, CommandSteps DEF TypeOK, LoopTypes, turnVars, audioVars
<1>6. QED BY <1>1, <1>3, <1>5 DEF TypeOK

LEMMA TypeStep == TypeOK /\ [Next]_vars => TypeOK'
<1> SUFFICES ASSUME TypeOK, [Next]_vars PROVE TypeOK'
    OBVIOUS
<1> USE DEF TypeOK, PictureTypes, SoundTypes, UserTypes, LoopTypes
<1>1. CASE ShowNothing
    BY <1>1 DEF ShowNothing, videoVars, audioVars, userVars
<1>2. CASE CommandsDone
    BY <1>2 DEF CommandsDone, videoVars, audioVars, userVars, turnVars
<1>3. CASE AoPlay
  <2>1. ao' \in 0 .. AoSize
    BY <1>3, LoopAssumption DEF AoPlay
  <2>2. QED BY <1>3, <2>1 DEF AoPlay, videoVars, userVars, turnVars
<1>4. CASE UNCHANGED vars
    BY <1>4 DEF vars, videoVars, audioVars, userVars, turnVars
<1> USE DEF Next, Turn
<1>5. QED BY <1>1, <1>2, <1>3, <1>4, StartTyped, VideoTyped, FlipTyped, AfterTyped,
             TailTyped, CommandTyped DEF Commands

(* The audio output is never handed more than it has room for, and every      *)
(* place in the file that the player keeps is one that the file has.          *)
THEOREM TypeCorrect == Spec => []TypeOK
    BY TypeInit, TypeStep, PTL DEF Spec

-----------------------------------------------------------------------------
(* The end of the file.                                                       *)

\* While a seek waits for its picture the audio output is empty.
Silent == restart_playback => ao = 0

\* What a turn found at its start still holds until a picture is shown.
RestartSame ==
    at \in {"video", "decide"} \/ (at = "after" /\ ~video_left) =>
        was_restart = restart_playback

\* When no picture is left they have all been shown, or none was wanted.
NoneLeft ==
    at \in {"decide", "after"} /\ HasVideo /\ ~video_left =>
        \/ vnext = Frames + 1 /\ held = NoPicture /\ ~loaded
        \/ paused /\ ~was_restart

SoundEnded ==
    at \in {"video", "decide", "after"} /\ HasSound /\ ~was_restart /\ ~audio_left =>
        anext = Sounds + 1 /\ abuf = 0

EofAt == stop_play = "eof" => at \in {"commands", "tail", "stopped"}

EndInv == Silent /\ RestartSame /\ NoneLeft /\ SoundEnded /\ EofAt /\ EndHonest

LEMMA EndInit == Init => EndInv
    BY DEF Init, EndInv, Silent, RestartSame, NoneLeft, SoundEnded, EofAt, EndHonest

LEMMA StartEnd == TypeOK /\ EndInv /\ Start => EndInv'
<1> SUFFICES ASSUME TypeOK, EndInv, Start PROVE EndInv'
    OBVIOUS
<1>1. /\ at = "start" /\ at' = (IF HasVideo THEN "video" ELSE "after")
      /\ was_restart' = restart_playback
      /\ UNCHANGED <<setup, videoVars, restart_playback, stop_play>>
    BY DEF Start
<1>2. Silent' /\ SoundEnded'
  <2>1. CASE MayWrite
    <3>1. PICK r \in Fill(paused', Sound0, vpts) :
             /\ SetSound(r.x)
             /\ audio_left' = (r.status > -2)
      BY <2>1 DEF Start
    <3>2. paused' \in BOOLEAN /\ vpts \in Nat /\ hrseek \in Int /\ SoundOK(Sound0)
      <4>1. paused' \in BOOLEAN
        BY StartTyped DEF TypeOK, UserTypes
      <4>2. QED BY <4>1, Sound0OK, LoopAssumption DEF TypeOK, PictureTypes, LoopTypes
    <3>3. r.status \in {-2, -1, 0} /\ (r.status = -2 => r.x.n = Sounds + 1 /\ r.x.b = 0)
      BY <3>1, <3>2, FillSound
    <3>4. ~audio_left' => anext' = Sounds + 1 /\ abuf' = 0
      <4>1. SUFFICES ASSUME ~audio_left' PROVE anext' = Sounds + 1 /\ abuf' = 0
        OBVIOUS
      <4>2. ~(r.status > -2)
        BY <3>1, <4>1, Zenon
      <4>3. r.status = -2
        BY <3>3, <4>2
      <4>4. QED BY <3>1, <3>3, <4>3 DEF SetSound
    <3>5. ~restart_playback'
      BY <1>1, <2>1 DEF MayWrite
    <3>6. QED BY <3>4, <3>5 DEF Silent, SoundEnded
  <2>2. CASE ~MayWrite
    <3>1. ao' = ao
      BY <2>2 DEF Start
    <3>2. HasSound' => was_restart'
      BY <1>1, <2>2 DEF MayWrite, HasSound
    <3>3. QED BY <1>1, <3>1, <3>2 DEF EndInv, Silent, SoundEnded
  <2>3. QED BY <2>1, <2>2
<1>3. RestartSame' /\ NoneLeft'
    BY <1>1 DEF RestartSame, NoneLeft, HasVideo
<1>4. stop_play' # "eof"
    BY <1>1 DEF EndInv, EofAt
<1>5. QED BY <1>2, <1>3, <1>4 DEF EndInv, EofAt, EndHonest

LEMMA VideoEnd == TypeOK /\ EndInv /\ Video => EndInv'
<1> SUFFICES ASSUME TypeOK, EndInv, Video PROVE EndInv'
    OBVIOUS
<1>1. /\ at = "video" /\ at' = "decide"
      /\ UNCHANGED <<setup, anext, abuf, ao, paused, restart_playback, stop_play, was_restart,
                     audio_left>>
    BY DEF Video, KeepPicture, TakeHeld, DecodePicture, DropPicture, NoMorePictures, InVideo,
           userVars
<1>2. NoneLeft'
  <2>1. CASE KeepPicture
    <3>1. ~NeedPicture /\ video_left' = (hasframe \/ loaded) /\ UNCHANGED videoVars
      BY <2>1 DEF KeepPicture
    <3>2. ~video_left' => paused' /\ ~was_restart'
      BY <1>1, <3>1 DEF NeedPicture, EndInv, RestartSame
    <3>3. QED BY <3>2 DEF NoneLeft
  <2>2. CASE TakeHeld \/ DecodePicture \/ DropPicture
    BY <2>2 DEF TakeHeld, DecodePicture, DropPicture, NoneLeft
  <2>3. CASE NoMorePictures
    <3>1. ~loaded /\ held = NoPicture /\ vnext > Frames /\ UNCHANGED videoVars
      BY <2>3 DEF NoMorePictures, NeedPicture
    <3>2. vnext = Frames + 1
      BY <3>1, LoopAssumption DEF TypeOK, PictureTypes
    <3>3. QED BY <3>1, <3>2 DEF NoneLeft, videoVars
  <2>4. QED BY <2>1, <2>2, <2>3 DEF Video
<1>3. Silent' /\ RestartSame' /\ SoundEnded'
    BY <1>1 DEF EndInv, Silent, RestartSame, SoundEnded, HasSound
<1>4. stop_play' # "eof"
    BY <1>1 DEF EndInv, EofAt
<1>5. QED BY <1>2, <1>3, <1>4 DEF EndInv, EofAt, EndHonest

LEMMA FlipEnd == EndInv /\ Flip => EndInv'
<1> SUFFICES ASSUME EndInv, Flip PROVE EndInv'
    OBVIOUS
<1>1. /\ at = "decide" /\ at' = "after" /\ video_left' = TRUE /\ restart_playback' = FALSE
      /\ UNCHANGED <<setup, was_restart, audio_left, stop_play>>
    BY DEF Flip, Shows
<1>2. SoundEnded'
  <2>1. CASE restart_playback
    BY <1>1, <2>1 DEF EndInv, RestartSame, SoundEnded
  <2>2. CASE ~restart_playback
    <3>1. UNCHANGED <<anext, abuf>>
      BY <2>2 DEF Flip
    <3>2. QED BY <1>1, <3>1 DEF EndInv, SoundEnded, HasSound
  <2>3. QED BY <2>1, <2>2
<1>3. stop_play' # "eof"
    BY <1>1 DEF EndInv, EofAt
<1>4. QED BY <1>1, <1>2, <1>3 DEF EndInv, Silent, RestartSame, NoneLeft, EofAt, EndHonest

LEMMA AfterEnd == TypeOK /\ EndInv /\ After => EndInv'
<1> SUFFICES ASSUME TypeOK, EndInv, After PROVE EndInv'
    OBVIOUS
<1>1. /\ at = "after" /\ at' = "commands"
      /\ UNCHANGED <<setup, vnext, held, loaded, was_restart, video_left>>
      /\ restart_playback' = (restart_playback /\ video_left)
      /\ restart_playback \in BOOLEAN /\ paused \in BOOLEAN /\ video_left \in BOOLEAN
    BY DEF After, TypeOK, LoopTypes, UserTypes, videoVars
<1>2. stop_play # "eof"
    BY <1>1 DEF EndInv, EofAt
<1>3. Silent'
  <2>1. CASE restart_playback /\ video_left
    BY <2>1 DEF After, EndInv, Silent
  <2>2. CASE ~(restart_playback /\ video_left)
    BY <1>1, <2>2 DEF Silent
  <2>3. QED BY <2>1, <2>2
<1>4. ASSUME stop_play' = "eof" PROVE EndHonest'
  <2>1. Ended(audio_left', ao')
    BY <1>2, <1>4 DEF After
  <2>2. /\ ~audio_left' /\ ~video_left /\ (~paused \/ was_restart)
        /\ HasSound /\ ~paused => ao' = 0
    BY <2>1 DEF Ended
  <2>3. was_restart = restart_playback
    BY <1>1, <2>2 DEF EndInv, RestartSame
  <2>4. HasVideo => vnext = Frames + 1 /\ held = NoPicture /\ ~loaded
    BY <1>1, <2>2 DEF EndInv, NoneLeft
  <2>5. HasSound => anext' = Sounds + 1 /\ ao' = 0 /\ abuf' = 0
    <3>1. CASE HasSound /\ restart_playback
      <4>1. PICK r \in Fill(paused, Sound0, vpts) :
               /\ SetSound(r.x)
               /\ audio_left' = (r.status > -2)
        BY <2>2, <3>1 DEF After
      <4>2. vpts \in Nat /\ hrseek \in Int /\ SoundOK(Sound0) /\ paused \in BOOLEAN
        BY Sound0OK, LoopAssumption DEF TypeOK, PictureTypes, LoopTypes, UserTypes
      <4>3. /\ r.status \in {-2, -1, 0} /\ (r.status = -2 => r.x.n = Sounds + 1 /\ r.x.b = 0)
            /\ paused => r.x.ao = Sound0.ao
        BY <4>1, <4>2, FillSound
      <4>4. r.status = -2
        <5>1. ~(r.status > -2)
          BY <2>2, <4>1, Zenon
        <5>2. QED BY <4>3, <5>1
      <4>5. paused => ao' = 0
        BY <3>1, <4>1, <4>3 DEF EndInv, Silent, SetSound, Sound0
      <4>6. QED BY <1>1, <2>2, <3>1, <4>1, <4>3, <4>4, <4>5 DEF SetSound
    <3>2. CASE HasSound /\ ~restart_playback
      <4>1. UNCHANGED <<anext, abuf, ao, audio_left>>
        BY <3>2 DEF After
      <4>2. QED BY <1>1, <2>2, <2>3, <3>2, <4>1 DEF EndInv, SoundEnded
    <3>3. QED BY <1>1, <3>1, <3>2
  <2>6. QED BY <1>1, <2>4, <2>5 DEF EndHonest, HasVideo, HasSound
<1>5. QED BY <1>1, <1>3, <1>4 DEF EndInv, RestartSame, NoneLeft, SoundEnded, EofAt, EndHonest

LEMMA TailEnd == EndInv /\ Tail => EndInv'
<1> SUFFICES ASSUME EndInv, Tail PROVE EndInv'
    OBVIOUS
<1>1. at' = IF stop_play' = "no" THEN "start" ELSE "stopped"
    BY DEF Tail
<1>2. CASE SeekOf.type # "none"
  <2>1. DoSeek(SeekOf)
    BY <1>2 DEF Tail, SeekOf
  <2>2. stop_play' # "eof"
    BY <1>2 DEF Tail, SeekOf
  <2>3. Silent'
    <3>1. CASE setup.seekable
      BY <2>1, <3>1, SeekSteps DEF Silent
    <3>2. CASE ~setup.seekable
      BY <2>1, <3>2 DEF DoSeek, audioVars, EndInv, Silent
    <3>3. QED BY <3>1, <3>2
  <2>4. QED BY <1>1, <2>2, <2>3
            DEF EndInv, RestartSame, NoneLeft, SoundEnded, EofAt, EndHonest
<1>3. CASE SeekOf.type = "none"
  <2>1. /\ UNCHANGED <<setup, videoVars, audioVars, restart_playback>>
        /\ stop_play' \in {stop_play, "no"}
    BY <1>3 DEF Tail, SeekOf
  <2>2. QED BY <1>1, <2>1
            DEF EndInv, Silent, RestartSame, NoneLeft, SoundEnded, EofAt, EndHonest, videoVars,
                audioVars, HasVideo, HasSound
<1>4. QED BY <1>2, <1>3

LEMMA EndStep == TypeOK /\ EndInv /\ [Next]_vars => EndInv'
<1> SUFFICES ASSUME TypeOK, EndInv, [Next]_vars PROVE EndInv'
    OBVIOUS
<1> USE DEF EndInv, Silent, RestartSame, NoneLeft, SoundEnded, EofAt, EndHonest, HasVideo, HasSound
<1>1. CASE ShowNothing
    BY <1>1 DEF ShowNothing, videoVars, audioVars, userVars
<1>2. CASE CommandsDone
    BY <1>2 DEF CommandsDone, videoVars, audioVars, userVars, turnVars
<1>3. CASE Commands
    BY <1>3, CommandSteps DEF videoVars, audioVars, turnVars
<1>4. CASE AoPlay
  <2>1. ~(stop_play = "eof" /\ HasSound)
    BY <1>4 DEF AoPlay
  <2>2. ~restart_playback
    BY <1>4 DEF AoPlay
  <2>3. QED BY <1>4, <2>1, <2>2 DEF AoPlay, videoVars, userVars, turnVars
<1>5. CASE UNCHANGED vars
    BY <1>5 DEF vars, videoVars, audioVars, userVars, turnVars
<1> HIDE DEF EndInv
<1> USE DEF Next, Turn
<1>6. QED BY <1>1, <1>2, <1>3, <1>4, <1>5, StartEnd, VideoEnd, FlipEnd, AfterEnd, TailEnd
          DEF Commands

(* Nothing of the sound is handed to the audio output between a start or a    *)
(* seek and the first picture that is shown after it.                         *)
THEOREM SoundWaits == Spec => []SilentUntilShown
<1>1. EndInv => SilentUntilShown
    BY DEF EndInv, Silent, SilentUntilShown
<1>2. QED BY <1>1, TypeInit, TypeStep, EndInit, EndStep, PTL DEF Spec

(* The player takes a file for ended only when every picture was decoded and  *)
(* shown, and every sound decoded, written and played.                        *)
THEOREM NothingIsCutOff == Spec => []EndHonest
<1>1. EndInv => EndHonest
    BY DEF EndInv
<1>2. QED BY <1>1, TypeInit, TypeStep, EndInit, EndStep, PTL DEF Spec

-----------------------------------------------------------------------------
(* Pictures, when no filter holds one over a seek.                            *)

FiltersKeepNone == \A s \in Setups : ~(s.doubling /\ s.seekable)

\* The output has a picture to show only when it is that of vpts.
LoadedIsNext == loaded => waiting.t = vpts /\ ~waiting.old /\ vpts # NoPts

\* What a filter holds is the picture shown before, once more.
HeldIsSame == held # NoPicture => setup.doubling /\ held.t = vpts /\ ~held.old /\ vpts # NoPts

\* A precise seek is under way only while no picture has come.
SeekPending == hractive => setup.seekable /\ vpts = NoPts

\* The target of a precise seek is still to be decoded.
TargetAhead ==
    HasVideo /\ hractive /\ hrseek \in 1 .. Frames =>
        /\ restart_playback /\ ~loaded /\ vnext <= hrseek /\ held = NoPicture
        /\ at \in {"decide", "after"} => video_left

LastIsCurrent == last_pts = vpts /\ vpts < vnext

\* The first picture after a seek stays loaded until it is shown.
FirstIsLoaded == HasVideo /\ restart_playback /\ vpts # NoPts => loaded

\* No picture came after a seek: then none comes any more.
NoneCame ==
    HasVideo /\ ~restart_playback /\ vpts = NoPts => vnext = Frames + 1 /\ held = NoPicture

FrameHasTime == hasframe => vpts # NoPts

SoundKept ==
    HasVideo /\ HasSound /\ ~restart_playback /\ vpts # NoPts => Kept(Sound0, vpts)

Alone == ~HasVideo => ~loaded /\ at \notin {"video", "decide"}

PicInv ==
    /\ LoadedIsNext /\ HeldIsSame /\ SeekPending /\ TargetAhead /\ LastIsCurrent
    /\ FirstIsLoaded /\ NoneCame /\ FrameHasTime /\ SoundKept /\ Alone

LEMMA PicInit == Init => PicInv
<1> SUFFICES ASSUME Init PROVE PicInv
    OBVIOUS
<1>1. /\ ~loaded /\ held = NoPicture /\ ~hractive /\ ~hasframe /\ restart_playback
      /\ last_pts = vpts /\ vpts = 0 /\ vnext = 1 /\ at = "start"
    BY DEF Init, NoPts
<1>2. QED BY <1>1 DEF PicInv, LoadedIsNext, HeldIsSame, SeekPending, TargetAhead, LastIsCurrent,
            FirstIsLoaded, NoneCame, FrameHasTime, SoundKept, Alone, NoPts

\* What the steps that neither decode, show nor seek make of the pictures.
LEMMA SamePictures ==
    ASSUME PicInv, UNCHANGED <<setup, videoVars, hrseek, hractive, restart_playback>>,
           at' \in {"start", "commands", "tail", "stopped"}
               \/ (at = "decide" /\ at' = "after" /\ UNCHANGED video_left)
               \/ UNCHANGED <<at, video_left>>
               \/ (at = "start" /\ at' = IF HasVideo THEN "video" ELSE "after"),
           SoundKept'
    PROVE  PicInv'
<1> USE DEF videoVars, HasVideo
<1>1. /\ LoadedIsNext' /\ HeldIsSame' /\ SeekPending' /\ LastIsCurrent'
      /\ FirstIsLoaded' /\ NoneCame' /\ FrameHasTime'
    BY DEF PicInv, LoadedIsNext, HeldIsSame, SeekPending, LastIsCurrent,
           FirstIsLoaded, NoneCame, FrameHasTime
<1>2. TargetAhead'
    BY DEF PicInv, TargetAhead
<1>3. Alone'
    BY DEF PicInv, Alone
<1>4. QED BY <1>1, <1>2, <1>3 DEF PicInv

LEMMA SameSound ==
    ASSUME PicInv, UNCHANGED <<setup, vpts, anext, abuf, delay, syncing_audio, restart_playback>>
    PROVE  SoundKept'
<1>1. Kept(Sound0, vpts) => Kept(Sound0, vpts)'
    BY DEF Kept, Sound0, Written, HasVideo
<1>2. QED BY <1>1 DEF PicInv, SoundKept, HasVideo, HasSound

\* A fill of the audio output keeps the sound in step with vpts.
LEMMA FillKept ==
    ASSUME TypeOK, NEW p \in BOOLEAN, NEW x, SoundOK(x), HasVideo,
           NEW r \in Fill(p, x, vpts), SetSound(r.x), UNCHANGED <<setup, vpts>>,
           vpts # NoPts, ~x.h, Kept(x, vpts)
    PROVE  Kept(Sound0, vpts)' /\ hractive' = FALSE
<1>1. vpts \in Nat /\ hrseek \in Int
    BY LoopAssumption DEF TypeOK, PictureTypes, LoopTypes
<1>2. SoundOK(r.x) /\ ~r.x.h /\ Kept(r.x, vpts)
    BY <1>1, FillSound
<1>3. anext' = r.x.n /\ abuf' = r.x.b /\ delay' = r.x.d /\ syncing_audio' = r.x.s /\ hractive' = r.x.h
    BY DEF SetSound
<1>4. hractive' = FALSE
    BY <1>2, <1>3 DEF SoundOK
<1>5. Kept(Sound0, vpts)'
    BY <1>2, <1>3 DEF Kept, Sound0, Written, HasVideo
<1>6. QED BY <1>4, <1>5

LEMMA SoundNow ==
    ASSUME TypeOK
    PROVE  /\ SoundOK(Sound0) /\ Sound0.h = hractive
           /\ vpts \in Nat /\ hrseek \in Int /\ paused \in BOOLEAN
           /\ restart_playback \in BOOLEAN /\ hractive \in BOOLEAN /\ video_left \in BOOLEAN
<1>1. Sound0.h = hractive
    BY DEF Sound0
<1>2. QED BY <1>1, Sound0OK, LoopAssumption DEF TypeOK, PictureTypes, LoopTypes, UserTypes, SoundTypes

LEMMA StartPic == TypeOK /\ PicInv /\ Start => PicInv'
<1> SUFFICES ASSUME TypeOK, PicInv, Start PROVE PicInv'
    OBVIOUS
<1>1. /\ at = "start" /\ at' = (IF HasVideo THEN "video" ELSE "after")
      /\ UNCHANGED <<setup, videoVars, hrseek, restart_playback>>
    BY DEF Start
<1>2. CASE ~MayWrite
  <2>1. UNCHANGED <<anext, abuf, ao, delay, syncing_audio, hractive>>
    BY <1>2 DEF Start
  <2>2. SoundKept'
    BY <1>1, <2>1, SameSound DEF videoVars
  <2>3. QED BY <1>1, <2>1, <2>2, SamePictures
<1>3. CASE MayWrite
  <2>1. PICK r \in Fill(paused', Sound0, vpts) : SetSound(r.x)
    BY <1>3 DEF Start
  <2>2. paused' \in BOOLEAN
    BY StartTyped DEF TypeOK, UserTypes
  <2>3. hractive' => hractive
    <3>1. r.x.h => Sound0.h
      BY <2>1, <2>2, SoundNow, FillSound
    <3>2. QED BY <2>1, <3>1, SoundNow DEF SetSound
  <2>4. SoundKept'
    <3>1. SUFFICES ASSUME HasVideo, HasSound, vpts # NoPts PROVE Kept(Sound0, vpts)'
      BY <1>1 DEF SoundKept, HasVideo, HasSound, videoVars
    <3>2. ~restart_playback /\ Kept(Sound0, vpts) /\ ~hractive
      BY <1>3, <3>1 DEF MayWrite, PicInv, SoundKept, SeekPending
    <3>3. QED BY <1>1, <2>1, <2>2, <3>1, <3>2, SoundNow, FillKept DEF videoVars
  <2>5. hractive' = hractive \/ ~hractive'
    BY <2>3, StartTyped DEF TypeOK, SoundTypes
  <2>6. CASE hractive' = hractive
    BY <1>1, <2>4, <2>6, SamePictures
  <2>7. CASE ~hractive'
    BY <1>1, <2>4, <2>7
       DEF PicInv, LoadedIsNext, HeldIsSame, SeekPending, TargetAhead, LastIsCurrent,
           FirstIsLoaded, NoneCame, FrameHasTime, Alone, videoVars, HasVideo
  <2>8. QED BY <2>5, <2>6, <2>7
<1>4. QED BY <1>2, <1>3

\* A picture that update_video has got.
LEMMA TookPic ==
    ASSUME TypeOK, PicInv, NEW pic, pic.t \in 1 .. Frames, ~pic.old, Took(pic),
           pic.t >= vpts, HasVideo, ~restart_playback => vpts # NoPts,
           UNCHANGED <<setup, hrseek, restart_playback, anext, abuf, syncing_audio>>,
           vnext' \in Nat, pic.t < vnext', hasframe' => hasframe, at' = "decide"
    PROVE  /\ LoadedIsNext' /\ SeekPending' /\ LastIsCurrent' /\ FirstIsLoaded' /\ NoneCame'
           /\ FrameHasTime' /\ SoundKept' /\ Alone'
           /\ hractive' => hractive /\ pic.t < hrseek /\ ~loaded'
           /\ ~hractive' => vpts' = pic.t
<1> DEFINE from == IF last_pts = NoPts \/ last_pts > pic.t THEN pic.t ELSE last_pts
<1>1. /\ vpts \in Nat /\ vnext \in Nat /\ hrseek \in Int /\ delay \in Int
      /\ hractive \in BOOLEAN /\ restart_playback \in BOOLEAN
      /\ pic.t \in Nat /\ pic.t # NoPts
    BY LoopAssumption DEF TypeOK, PictureTypes, LoopTypes, SoundTypes, NoPts
<1>2. last_pts = vpts /\ vpts < vnext
    BY DEF PicInv, LastIsCurrent
<1>3. HasVideo' /\ (HasSound' = HasSound)
    BY DEF HasVideo, HasSound
<1>4. CASE hractive /\ pic.t < hrseek
  <2>1. loaded' = FALSE /\ waiting' = pic /\ UNCHANGED <<vpts, last_pts, hractive, delay>>
    BY <1>4 DEF Took
  <2>2. vpts = NoPts /\ setup.seekable
    BY <1>4 DEF PicInv, SeekPending
  <2>3. restart_playback
    BY <2>2
  <2>4. vpts' < vnext'
    BY <1>1, <2>1, <2>2 DEF NoPts
  <2>5. QED BY <1>2, <1>3, <1>4, <2>1, <2>2, <2>3, <2>4
            DEF PicInv, LoadedIsNext, SeekPending, LastIsCurrent, FirstIsLoaded, NoneCame,
                FrameHasTime, SoundKept, Alone
<1>5. CASE ~(hractive /\ pic.t < hrseek)
  <2>1. /\ loaded' = TRUE /\ waiting' = pic /\ hractive' = FALSE
        /\ vpts' = pic.t /\ last_pts' = pic.t
        /\ delay' = IF HasSound THEN delay - (pic.t - from) ELSE delay
    BY <1>5 DEF Took, DrawImage
  <2>2. SoundKept'
    <3>1. SUFFICES ASSUME HasSound, ~restart_playback PROVE Kept(Sound0, vpts)'
      BY <1>3 DEF SoundKept
    <3>2. vpts # NoPts /\ Kept(Sound0, vpts)
      BY <3>1 DEF PicInv, SoundKept
    <3>3. from = vpts
      BY <1>1, <1>2, <3>2
    <3> HIDE DEF from
    <3>4. vpts' + delay' = vpts + delay
      <4>1. delay' = delay - (pic.t - from)
        BY <2>1, <3>1
      <4>2. QED BY <1>1, <2>1, <3>3, <4>1
    <3>5. QED BY <3>2, <3>4 DEF Kept, Sound0, Written, HasVideo
  <2>3. QED BY <1>1, <1>3, <2>1, <2>2
            DEF LoadedIsNext, SeekPending, LastIsCurrent, FirstIsLoaded, NoneCame,
                FrameHasTime, Alone
<1>6. QED BY <1>4, <1>5

LEMMA VideoPic ==
    ASSUME FiltersKeepNone, TypeOK, PicInv, Video
    PROVE  /\ PicInv'
           /\ hractive /\ ~hractive' /\ loaded' /\ hrseek \in 1 .. Frames => waiting'.t = hrseek
<1>1. /\ at = "video" /\ at' = "decide" /\ HasVideo /\ HasVideo'
      /\ UNCHANGED <<setup, hrseek, restart_playback, anext, abuf, ao, syncing_audio>>
    BY DEF Video, KeepPicture, TakeHeld, DecodePicture, DropPicture, NoMorePictures, InVideo,
           PicInv, Alone, HasVideo
<1>2. /\ vnext \in 1 .. Frames + 1 /\ vpts \in Nat /\ hrseek \in Int /\ Frames \in Nat
      /\ restart_playback \in BOOLEAN /\ hractive \in BOOLEAN /\ held \in Pictures
      /\ setup \in Setups
    BY LoopAssumption DEF TypeOK, PictureTypes, LoopTypes, SoundTypes
<1>3. last_pts = vpts /\ vpts < vnext
    BY DEF PicInv, LastIsCurrent
<1>4. hractive => ~setup.doubling /\ held = NoPicture
    BY <1>2 DEF PicInv, SeekPending, HeldIsSame, FiltersKeepNone
<1>5. hractive /\ hrseek \in 1 .. Frames => restart_playback /\ ~loaded /\ vnext <= hrseek
    BY <1>1 DEF PicInv, TargetAhead
<1>6. CASE TakeHeld
  <2>1. held # NoPicture /\ held' = NoPicture /\ Took(held) /\ ~loaded /\ UNCHANGED <<vnext, hasframe>>
    BY <1>6 DEF TakeHeld, NeedPicture
  <2>2. held.t = vpts /\ ~held.old /\ vpts # NoPts /\ ~hractive
    BY <1>4, <2>1 DEF PicInv, HeldIsSame
  <2>3. held.t \in 1 .. Frames /\ held.t < vnext'
    BY <1>2, <1>3, <2>1, <2>2, LoopAssumption DEF NoPts, TypeOK, PictureTypes
  <2>4. held.t >= vpts /\ vnext' \in Nat /\ (hasframe' => hasframe)
    BY <1>2, <2>1, <2>2
  <2>5. /\ LoadedIsNext' /\ SeekPending' /\ LastIsCurrent' /\ FirstIsLoaded' /\ NoneCame'
        /\ FrameHasTime' /\ SoundKept' /\ Alone' /\ ~hractive'
    BY <1>1, <2>1, <2>2, <2>3, <2>4, TookPic
  <2>6. HeldIsSame' /\ TargetAhead'
    BY <2>1, <2>5 DEF HeldIsSame, TargetAhead
  <2>7. QED BY <2>2, <2>5, <2>6 DEF PicInv
<1>7. CASE DecodePicture
  <2> DEFINE pic == [t |-> vnext, old |-> FALSE]
  <2>1. /\ held = NoPicture /\ vnext <= Frames /\ vnext' = vnext + 1 /\ video_left' = TRUE
        /\ Took(pic) /\ held' = (IF setup.doubling THEN pic ELSE NoPicture)
        /\ (hasframe' => hasframe) /\ pic.t = vnext /\ ~pic.old
    <3>1. pic.t = vnext /\ ~pic.old
      OBVIOUS
    <3>2. Took(pic) /\ held' = (IF setup.doubling THEN pic ELSE NoPicture)
      BY <1>7 DEF DecodePicture
    <3> HIDE DEF pic
    <3>3. /\ held = NoPicture /\ vnext <= Frames /\ vnext' = vnext + 1 /\ video_left' = TRUE
          /\ hasframe' \in {hasframe, FALSE}
      BY <1>7 DEF DecodePicture
    <3>4. hasframe' => hasframe
      <4>1. hasframe' = hasframe \/ hasframe' = FALSE
        BY <3>3
      <4>2. QED BY <4>1, Zenon
    <3>5. QED BY <3>1, <3>2, <3>3, <3>4, Zenon
  <2> HIDE DEF pic
  <2>2. /\ pic.t \in 1 .. Frames /\ pic.t >= vpts /\ vnext' \in Nat /\ pic.t < vnext'
    BY <1>2, <1>3, <2>1
  <2>3. ~restart_playback => vpts # NoPts
    BY <1>1, <1>2, <2>1 DEF PicInv, NoneCame
  <2>4. /\ LoadedIsNext' /\ SeekPending' /\ LastIsCurrent' /\ FirstIsLoaded' /\ NoneCame'
        /\ FrameHasTime' /\ SoundKept' /\ Alone'
        /\ hractive' => hractive /\ pic.t < hrseek /\ ~loaded'
        /\ ~hractive' => vpts' = pic.t
    BY <1>1, <2>1, <2>2, <2>3, TookPic
  <2>5. HeldIsSame'
    <3>1. SUFFICES ASSUME held' # NoPicture
                   PROVE  setup'.doubling /\ held'.t = vpts' /\ ~held'.old /\ vpts' # NoPts
      BY DEF HeldIsSame
    <3>2. setup.doubling /\ held' = pic
      BY <2>1, <3>1
    <3>3. ~hractive'
      BY <1>4, <2>4, <3>2
    <3>4. QED BY <1>1, <2>1, <2>2, <2>4, <3>2, <3>3 DEF NoPts
  <2>6. TargetAhead'
    <3>1. SUFFICES ASSUME hractive', hrseek' \in 1 .. Frames
                   PROVE  /\ restart_playback' /\ ~loaded' /\ vnext' <= hrseek'
                          /\ held' = NoPicture /\ video_left'
      BY DEF TargetAhead
    <3>2. hractive /\ vnext < hrseek /\ ~loaded'
      BY <2>1, <2>4, <3>1
    <3>3. restart_playback /\ held' = NoPicture
      BY <1>1, <1>4, <1>5, <2>1, <3>1, <3>2
    <3>4. QED BY <1>1, <1>2, <2>1, <3>2, <3>3
  <2>7. ASSUME hractive, ~hractive', loaded', hrseek \in 1 .. Frames PROVE waiting'.t = hrseek
    <3>1. waiting' = pic /\ ~(pic.t < hrseek)
      BY <2>1, <2>7 DEF Took, DrawImage
    <3>2. vnext <= hrseek
      BY <1>5, <2>7
    <3>3. QED BY <1>2, <2>1, <3>1, <3>2
  <2>8. QED BY <2>4, <2>5, <2>6, <2>7 DEF PicInv
<1>8. CASE KeepPicture \/ NoMorePictures
  <2>1. UNCHANGED <<videoVars, delay, hractive>>
    BY <1>8 DEF KeepPicture, NoMorePictures
  <2>2. /\ LoadedIsNext' /\ HeldIsSame' /\ SeekPending' /\ LastIsCurrent'
        /\ FirstIsLoaded' /\ NoneCame' /\ FrameHasTime' /\ Alone'
    BY <1>1, <2>1 DEF PicInv, LoadedIsNext, HeldIsSame, SeekPending, LastIsCurrent,
           FirstIsLoaded, NoneCame, FrameHasTime, Alone, videoVars
  <2>3. SoundKept'
    BY <1>1, <2>1, SameSound DEF videoVars
  <2>4. ~(hractive /\ hrseek \in 1 .. Frames)
    <3>1. SUFFICES ASSUME hractive, hrseek \in 1 .. Frames PROVE FALSE
      OBVIOUS
    <3>2. NeedPicture /\ vnext <= Frames
      BY <1>2, <1>5, <3>1 DEF NeedPicture
    <3>3. QED BY <1>2, <1>8, <3>2 DEF KeepPicture, NoMorePictures
  <2>5. TargetAhead'
    BY <1>1, <2>1, <2>4 DEF TargetAhead
  <2>6. QED BY <2>2, <2>3, <2>4, <2>5 DEF PicInv
<1>9. CASE DropPicture
  <2>1. /\ ~loaded /\ held = NoPicture /\ vnext <= Frames /\ vnext' = vnext + 1
        /\ video_left' = TRUE
        /\ UNCHANGED <<held, voVars, vpts, last_pts, delay, hractive>>
        /\ (~restart_playback \/ (hractive /\ vnext < hrseek))
    BY <1>9 DEF DropPicture, NeedPicture
  <2>2. ~restart_playback => vpts # NoPts
    BY <1>1, <1>2, <2>1 DEF PicInv, NoneCame
  <2>3. LastIsCurrent'
    BY <1>2, <1>3, <2>1 DEF LastIsCurrent
  <2>4. /\ LoadedIsNext' /\ HeldIsSame' /\ SeekPending' /\ FirstIsLoaded' /\ NoneCame'
        /\ FrameHasTime' /\ Alone'
    BY <1>1, <2>1, <2>2 DEF PicInv, LoadedIsNext, HeldIsSame, SeekPending,
           FirstIsLoaded, NoneCame, FrameHasTime, Alone, voVars
  <2>5. SoundKept'
    BY <1>1, <2>1, SameSound
  <2>6. TargetAhead'
    <3>1. SUFFICES ASSUME hractive, hrseek \in 1 .. Frames
                   PROVE  restart_playback /\ vnext' <= hrseek
      BY <1>1, <2>1 DEF TargetAhead, voVars
    <3>2. QED BY <1>2, <1>5, <2>1, <3>1
  <2>7. QED BY <2>1, <2>3, <2>4, <2>5, <2>6 DEF PicInv
<1>10. QED BY <1>6, <1>7, <1>8, <1>9 DEF Video

LEMMA FlipPic ==
    ASSUME TypeOK, PicInv, Flip
    PROVE  PicInv' /\ HasVideo /\ ~hractive /\ waiting.t = vpts /\ ~waiting.old
<1>1. /\ at = "decide" /\ at' = "after" /\ loaded
      /\ loaded' = FALSE /\ restart_playback' = FALSE
      /\ UNCHANGED <<setup, vnext, held, vpts, last_pts, hrseek>>
    BY DEF Flip
<1>2. HasVideo /\ HasVideo'
    BY <1>1 DEF PicInv, Alone, HasVideo
<1>3. waiting.t = vpts /\ ~waiting.old /\ vpts # NoPts /\ ~hractive
    BY <1>1 DEF PicInv, LoadedIsNext, SeekPending
<1>4. ~hractive' /\ SoundKept'
  <2>1. CASE restart_playback /\ HasSound
    <3> DEFINE x == [Sound0 EXCEPT !.s = TRUE]
    <3>1. PICK r \in Fill(paused, x, vpts) : SetSound(r.x)
      BY <2>1 DEF Flip
    <3>2. SoundOK(x) /\ x.s = TRUE /\ x.h = Sound0.h
      BY SoundNow DEF SoundOK
    <3> HIDE DEF x
    <3>3. Kept(x, vpts) /\ ~x.h
      BY <1>3, <3>2, SoundNow DEF Kept
    <3>4. Kept(Sound0, vpts)' /\ hractive' = FALSE
      BY <1>1, <1>2, <1>3, <3>1, <3>2, <3>3, SoundNow, FillKept
    <3>5. QED BY <3>4 DEF SoundKept
  <2>2. CASE restart_playback /\ ~HasSound
    BY <1>1, <1>3, <2>2 DEF Flip, SoundKept, HasSound
  <2>3. CASE ~restart_playback
    <3>1. UNCHANGED <<setup, vpts, anext, abuf, delay, syncing_audio, restart_playback, hractive>>
      <4>1. UNCHANGED <<anext, abuf, delay, hractive>>
        BY <2>3 DEF Flip
      <4>2. syncing_audio' = syncing_audio
        BY <2>3 DEF Flip, TypeOK, SoundTypes
      <4>3. restart_playback' = restart_playback
        BY <1>1, <2>3, SoundNow
      <4>4. QED BY <1>1, <4>1, <4>2, <4>3
    <3>2. QED BY <1>3, <3>1, SameSound
  <2>4. QED BY <2>1, <2>2, <2>3
<1>5. QED BY <1>1, <1>2, <1>3, <1>4
          DEF PicInv, LoadedIsNext, HeldIsSame, SeekPending, TargetAhead, LastIsCurrent,
              FirstIsLoaded, NoneCame, FrameHasTime, Alone

LEMMA AfterPic ==
    ASSUME TypeOK, EndInv, PicInv, After PROVE PicInv'
<1>1. /\ at = "after" /\ at' = "commands"
      /\ UNCHANGED <<setup, videoVars, hrseek>>
      /\ restart_playback' = (restart_playback /\ video_left)
    BY DEF After
<1>2. CASE restart_playback /\ ~video_left
  <2>1. hractive' => hractive
    <3>1. CASE HasSound
      <4>1. PICK r \in Fill(paused, Sound0, vpts) : SetSound(r.x)
        BY <1>2, <3>1 DEF After
      <4>2. r.x.h => Sound0.h
        BY <4>1, SoundNow, FillSound
      <4>3. QED BY <4>1, <4>2, SoundNow DEF SetSound
    <3>2. CASE ~HasSound
      BY <1>2, <3>2 DEF After
    <3>3. QED BY <3>1, <3>2
  <2>2. HasVideo => vnext = Frames + 1 /\ held = NoPicture /\ ~loaded /\ vpts = NoPts
    <3>1. SUFFICES ASSUME HasVideo
                   PROVE  vnext = Frames + 1 /\ held = NoPicture /\ ~loaded /\ vpts = NoPts
      OBVIOUS
    <3>2. was_restart
      BY <1>1, <1>2 DEF EndInv, RestartSame
    <3>3. vnext = Frames + 1 /\ held = NoPicture /\ ~loaded
      BY <1>1, <1>2, <3>1, <3>2 DEF EndInv, NoneLeft
    <3>4. QED BY <1>2, <3>1, <3>3 DEF PicInv, FirstIsLoaded
  <2>3. ~(HasVideo /\ hractive' /\ hrseek \in 1 .. Frames)
    BY <1>1, <1>2, <2>1 DEF PicInv, TargetAhead
  <2>4. QED BY <1>1, <1>2, <2>1, <2>2, <2>3
            DEF PicInv, LoadedIsNext, HeldIsSame, SeekPending, TargetAhead, LastIsCurrent,
                FirstIsLoaded, NoneCame, FrameHasTime, SoundKept, Alone, videoVars, HasVideo
<1>3. CASE ~(restart_playback /\ ~video_left)
  <2>1. UNCHANGED <<anext, abuf, ao, delay, syncing_audio, hractive>>
    BY <1>3 DEF After
  <2>2. restart_playback' = restart_playback
    BY <1>1, <1>3, SoundNow
  <2>3. SoundKept'
    BY <1>1, <2>1, <2>2, SameSound DEF videoVars
  <2>4. QED BY <1>1, <2>1, <2>2, <2>3, SamePictures
<1>4. QED BY <1>2, <1>3

LEMMA TailPic ==
    ASSUME FiltersKeepNone, TypeOK, PicInv, Tail
    PROVE  /\ PicInv'
           /\ loaded' => loaded /\ hractive' = hractive
<1>1. setup' = setup /\ at' \in {"start", "stopped"}
    BY DEF Tail
<1>2. CASE SeekOf.type # "none" /\ setup.seekable
  <2>1. DoSeek(SeekOf)
    BY <1>2 DEF Tail, SeekOf
  <2>2. /\ vnext' = Found(SeekOf) /\ held' = Old(held)
        /\ hasframe' = FALSE /\ loaded' = FALSE /\ vpts' = NoPts /\ last_pts' = NoPts
        /\ restart_playback' = TRUE /\ hractive' = SeekOf.exact
        /\ hrseek' = IF SeekOf.exact THEN Goal(SeekOf) ELSE hrseek
    BY <1>2, <2>1, SeekSteps
  <2>3. /\ Goal(SeekOf) \in Int /\ Found(SeekOf) \in 1 .. Frames
        /\ SeekOf.exact /\ Goal(SeekOf) >= 1 => Found(SeekOf) <= Goal(SeekOf)
    BY SeekOfTyped, FoundTyped
  <2>4. held' = NoPicture
    <3>1. held = NoPicture
      BY <1>2 DEF PicInv, HeldIsSame, FiltersKeepNone, TypeOK, LoopTypes
    <3>2. QED BY <2>2, <3>1 DEF Old
  <2>5. LastIsCurrent'
    BY <2>2, <2>3, LoopAssumption DEF LastIsCurrent, NoPts
  <2>6. TargetAhead'
    <3>1. SUFFICES ASSUME SeekOf.exact, hrseek' \in 1 .. Frames PROVE vnext' <= hrseek'
      BY <1>1, <2>2, <2>4 DEF TargetAhead
    <3>2. hrseek' = Goal(SeekOf)
      BY <2>2, <3>1
    <3>3. QED BY <2>2, <2>3, <3>1, <3>2, LoopAssumption
  <2>7. QED BY <1>1, <1>2, <2>2, <2>4, <2>5, <2>6
            DEF PicInv, LoadedIsNext, HeldIsSame, SeekPending, FirstIsLoaded, NoneCame,
                FrameHasTime, SoundKept, Alone
<1>3. CASE ~(SeekOf.type # "none" /\ setup.seekable)
  <2>1. UNCHANGED <<videoVars, video_pts, audioVars, restart_playback>>
    <3>1. CASE SeekOf.type # "none"
      <4>1. DoSeek(SeekOf)
        BY <3>1 DEF Tail, SeekOf
      <4>2. QED BY <1>3, <3>1, <4>1 DEF DoSeek
    <3>2. CASE SeekOf.type = "none"
      BY <3>2 DEF Tail, SeekOf
    <3>3. QED BY <3>1, <3>2
  <2>2. SoundKept'
    BY <1>1, <2>1, SameSound DEF videoVars, audioVars
  <2>3. PicInv'
    BY <1>1, <2>1, <2>2, SamePictures DEF audioVars
  <2>4. QED BY <2>1, <2>3 DEF videoVars, audioVars
<1>4. QED BY <1>2, <1>3

LEMMA PicStep ==
    ASSUME FiltersKeepNone, TypeOK, EndInv, PicInv, [Next]_vars
    PROVE  /\ PicInv'
           /\ hractive /\ ~hractive' /\ loaded' /\ hrseek \in 1 .. Frames => waiting'.t = hrseek
<1>1. CASE Video
    BY <1>1, VideoPic
<1>2. CASE Flip
    BY <1>2, FlipPic
<1>3. CASE After
  <2>1. PicInv'
    BY <1>3, AfterPic
  <2>2. loaded' = loaded /\ (HasVideo /\ hractive /\ hrseek \in 1 .. Frames => ~loaded)
    BY <1>3 DEF After, videoVars, PicInv, TargetAhead
  <2>3. QED BY <2>1, <2>2 DEF PicInv, Alone
<1>4. CASE Start
  <2>1. PicInv'
    BY <1>4, StartPic
  <2>2. loaded' = loaded /\ (HasVideo /\ hractive /\ hrseek \in 1 .. Frames => ~loaded)
    BY <1>4 DEF Start, videoVars, PicInv, TargetAhead
  <2>3. QED BY <2>1, <2>2 DEF PicInv, Alone
<1>5. CASE Tail
  <2>1. PicInv' /\ (loaded' => loaded /\ hractive' = hractive)
    BY <1>5, TailPic
  <2>2. QED BY <2>1
<1>6. CASE ShowNothing \/ CommandsDone \/ Commands \/ AoPlay \/ UNCHANGED vars
  <2>1. /\ UNCHANGED <<setup, videoVars, anext, abuf, delay, syncing_audio, hrseek, hractive,
                       restart_playback>>
        /\ \/ at' \in {"start", "commands", "tail", "stopped"}
           \/ at = "decide" /\ at' = "after" /\ UNCHANGED video_left
           \/ UNCHANGED <<at, video_left>>
    <3>1. CASE Commands
      BY <3>1, CommandSteps DEF audioVars, turnVars
    <3>2. CASE ShowNothing \/ CommandsDone \/ AoPlay \/ UNCHANGED vars
      BY <3>2 DEF ShowNothing, CommandsDone, AoPlay, vars, audioVars, turnVars
    <3>3. QED BY <1>6, <3>1, <3>2
  <2>2. SoundKept'
    BY <2>1, SameSound DEF videoVars
  <2>3. PicInv'
    BY <2>1, <2>2, SamePictures
  <2>4. QED BY <2>1, <2>3
<1>7. QED BY <1>1, <1>2, <1>3, <1>4, <1>5, <1>6 DEF Next, Turn, Commands

LEMMA PicAlways ==
    ASSUME FiltersKeepNone
    PROVE  Spec => [](TypeOK /\ EndInv /\ PicInv)
<1>1. TypeOK /\ EndInv /\ PicInv /\ [Next]_vars => PicInv'
    BY PicStep
<1>2. QED BY <1>1, TypeInit, TypeStep, EndInit, EndStep, PicInit, PTL DEF Spec

(* Sound and picture stay in step: what was written to the audio output is    *)
(* ahead of the picture by exactly the delay that the player reckons with.    *)
THEOREM SoundStaysInStep ==
    ASSUME FiltersKeepNone
    PROVE  Spec => []InStep
<1>1. ASSUME TypeOK, PicInv PROVE InStep
  <2>1. SUFFICES ASSUME setup.kind = "both", hasframe, ~restart_playback, ~syncing_audio,
                        anext <= Sounds
                 PROVE  Written(Sound0) = vpts + delay
    BY DEF InStep
  <2>2. HasVideo /\ HasSound /\ vpts # NoPts
    BY <1>1, <2>1 DEF HasVideo, HasSound, PicInv, FrameHasTime
  <2>3. Kept(Sound0, vpts)
    BY <1>1, <2>1, <2>2 DEF PicInv, SoundKept
  <2>4. anext # Sounds + 1 /\ Sound0.n = anext /\ ~Sound0.s /\ Sound0.d = delay
    BY <1>1, <2>1, LoopAssumption DEF TypeOK, SoundTypes, Sound0
  <2>5. QED BY <2>3, <2>4 DEF Kept
<1>2. TypeOK /\ EndInv /\ PicInv => InStep
    BY <1>1
<1>3. QED BY <1>2, PicAlways, PTL

(* No picture from before a seek is shown after it, and the player's time is  *)
(* that of the picture on the screen.                                         *)
THEOREM NoStalePicture ==
    ASSUME FiltersKeepNone
    PROVE  Spec => ShownIsCurrent
<1>1. TypeOK /\ EndInv /\ PicInv /\ [Next]_vars => [Flip => waiting.t = vpts /\ ~waiting.old]_vars
    BY FlipPic
<1>2. QED BY <1>1, PicAlways, PTL DEF Spec, ShownIsCurrent

(* A precise seek ends at the picture that was asked for.                     *)
THEOREM SeeksArePrecise ==
    ASSUME FiltersKeepNone
    PROVE  Spec => PreciseSeek
<1>1. TypeOK /\ EndInv /\ PicInv /\ [Next]_vars
        => [hractive /\ ~hractive' /\ loaded' /\ hrseek \in 1 .. Frames =>
                waiting'.t = hrseek]_vars
    BY PicStep
<1>2. QED BY <1>1, PicAlways, PTL DEF Spec, PreciseSeek
=============================================================================
