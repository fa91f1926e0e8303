-------------------------- MODULE RtpReorderProofs --------------------------
(***************************************************************************)
(* Theorems about RtpReorder, for a cache of any size and any number of    *)
(* packets and losses: as long as the sequence numbers do not wrap and the *)
(* network keeps within CalmNetwork,                                       *)
(*   - PacketsInOrder: the caller gets no packet twice or out of order;    *)
(*   - OnlyLostSkipped: nor does it miss one that the network brought.     *)
(* The first sequence number is FirstSeq, so the packet expected next is   *)
(* known from the sequence number in the first slot.                       *)
(***************************************************************************)
EXTENDS RtpReorder, FiniteSetTheorems, WellFoundedInduction, TLAPS

(* The sequence numbers of the packets sent do not wrap.                      *)
OneRound == FirstSeq + Packets < SeqMod

(* What the network may do for the cache to work: a loss is shorter than      *)
(* the tries for a packet last, or longer than the cache, and losses, late    *)
(* and repeated packets and bad reads are few at a time.  The bounds are      *)
(* those of the code: with Displace above a burst, n + Displace = 4,          *)
(* RepeatLag = 3 * Slots, or all tries used up, TLC finds SkipsOnlyLost or    *)
(* InOrder violated on a small cache; only Apart could be somewhat less.      *)
CalmNetwork ==
    /\ \A n \in Bursts : Displace <= n /\ (n > Slots \/ n + Displace <= 3)
    /\ Apart >= Slots - 1
    /\ RepeatLag < 3 * Slots
    /\ 2 * Displace + MaxRepeat + MaxBad < Tries

-----------------------------------------------------------------------------
(* What the cache holds is known from what has been received: the packets     *)
(* from the expected one on, each in the slot at its distance from it.        *)

Expected == seq[first] - FirstSeq
Slot(n)  == (first + n) % Slots
Received == (0 .. sent - 1) \ (flight \cup lost)
Waiting  == {p \in Received : Expected <= p}
Late     == {p \in flight : p < Expected}

NetTypes ==
    /\ sent \in 0 .. Packets
    /\ flight \in SUBSET (0 .. sent - 1) /\ lost \in SUBSET (0 .. sent - 1)
    /\ flight \cap lost = {}
    /\ repeats \in 0 .. MaxRepeat /\ bad \in 0 .. MaxBad

(* A packet under way has been overtaken by Displace others at most.          *)
Overtaken ==
    \A p \in flight : \A q \in (0 .. sent - 1) \ lost : q <= p + Displace

(* Losses are bursts, Apart packets from each other.                          *)
Burst(b, n) ==
    /\ b .. b + n - 1 \subseteq lost
    /\ \A q \in lost : \/ q \in b .. b + n - 1
                       \/ q + Apart < b \/ b + n - 1 + Apart < q

Losses == \A p \in lost : \E b \in lost, n \in Bursts :
              b <= p /\ p < b + n /\ Burst(b, n)

CacheTypes ==
    /\ data \in [SlotNos -> Nat \cup {Empty}] /\ seq \in [SlotNos -> Nat]
    /\ first \in SlotNos /\ is_first \in BOOLEAN
    /\ pc \in {"idle", "loop"} /\ tries \in 0 .. Tries
    /\ pc = "idle" => tries = 0
    /\ delivered \in Seq(Nat)

Starting ==
    is_first => /\ data = NoData /\ delivered = <<>>
                /\ tries <= bad /\ Received = {}

Stream ==
    /\ Len(delivered) > 0 /\ delivered[Len(delivered)] = Expected - 1
    /\ Expected - 1 \in Received

Contents ==
    /\ \A p \in Received : p < Expected + Slots
    /\ \A n \in SlotNos :
           data[Slot(n)] = IF Expected + n \in Received THEN Expected + n ELSE Empty
    /\ \A n \in SlotNos :
           Expected + n \in Received => seq[Slot(n)] = FirstSeq + Expected + n

(* A try in vain is a packet that waits, or comes late, or again, or no       *)
(* packet; so the tries do not run out while the expected packet is under     *)
(* way.  When it is lost each of the waiting packets has been a try.          *)
Counted ==
    /\ tries + Cardinality(Late)
           <= Cardinality(Waiting) + repeats + bad + Displace
    /\ Expected \in lost => Cardinality(Waiting) <= tries

(* No packet waits from beyond a loss that is still ahead.                    *)
NoneBeyond ==
    \A p \in lost : p > Expected /\ p - 1 \notin lost =>
        \A q \in Waiting : q < p

Running == ~is_first => Stream /\ Contents /\ Counted /\ NoneBeyond

RtpInv ==
    /\ NetTypes /\ Overtaken /\ Losses
    /\ CacheTypes /\ Starting /\ Running
    /\ InOrder /\ SkipsOnlyLost

-----------------------------------------------------------------------------
(* Numbers, positions and sizes of sets.                                      *)

LEMMA SizeTypes ==
    /\ Slots \in Nat /\ Slots > 3 /\ Tries \in Nat /\ Tries = Slots - 3
    /\ FirstSeq \in Nat /\ SeqMod \in Nat /\ Packets \in Nat /\ Displace \in Nat
    /\ MaxRepeat \in Nat /\ RepeatLag \in Nat /\ MaxBad \in Nat /\ Apart \in Nat
    /\ Bursts \subseteq Nat \ {0}
BY RtpAssumption DEF Tries

LEMMA ModBelow == \A m \in Nat, x \in Int : 0 <= x /\ x < m => x % m = x
OBVIOUS

LEMMA ModOver ==
    \A m \in Nat, x \in Int :
        0 < m /\ m <= x /\ x < 2 * m => x % m = x - m
OBVIOUS

(* Sequence numbers, as long as they do not wrap.                             *)
LEMMA SeqOfIs ==
    ASSUME OneRound, NEW p \in 0 .. Packets
    PROVE  SeqOf(p) = FirstSeq + p
BY ModBelow, SizeTypes DEF OneRound, SeqOf

LEMMA NextSeqIs ==
    ASSUME OneRound, NEW p \in Nat, p < Packets
    PROVE  NextSeq(FirstSeq + p) = FirstSeq + p + 1
BY ModBelow, SizeTypes DEF OneRound, NextSeq

(* The slot n after slot k.                                                   *)
LEMMA SlotAfter ==
    ASSUME NEW k \in SlotNos, NEW n \in 0 .. Slots
    PROVE  /\ (k + n) % Slots = IF k + n < Slots THEN k + n ELSE k + n - Slots
           /\ (k + n) % Slots \in SlotNos
<1>1. (k + n) % Slots = IF k + n < Slots THEN k + n ELSE k + n - Slots
  BY ModBelow, ModOver, SizeTypes DEF SlotNos
<1>2. QED BY <1>1, SizeTypes DEF SlotNos

LEMMA NextSlotIs ==
    ASSUME NEW k \in SlotNos
    PROVE  /\ NextSlot(k) = IF k + 1 < Slots THEN k + 1 ELSE 0
           /\ NextSlot(k) \in SlotNos
<1>1. 1 \in 0 .. Slots /\ Slots \in Nat
  BY SizeTypes
<1>2. /\ NextSlot(k) = IF k + 1 < Slots THEN k + 1 ELSE k + 1 - Slots
      /\ NextSlot(k) \in SlotNos
  BY <1>1, SlotAfter DEF NextSlot
<1>3. k + 1 <= Slots
  BY <1>1 DEF SlotNos
<1>4. QED BY <1>1, <1>2, <1>3 DEF SlotNos

LEMMA SlotIs ==
    ASSUME first \in SlotNos
    PROVE  /\ \A n \in SlotNos :
                  Slot(n) = IF first + n < Slots THEN first + n
                                                 ELSE first + n - Slots
           /\ \A n \in SlotNos : Slot(n) \in SlotNos
           /\ Slot(0) = first /\ 0 \in SlotNos
           /\ \A m, n \in SlotNos : Slot(m) = Slot(n) => m = n
           /\ \A k \in SlotNos : \E n \in SlotNos : Slot(n) = k
<1>1. \A n \in SlotNos :
          /\ Slot(n) = IF first + n < Slots THEN first + n ELSE first + n - Slots
          /\ Slot(n) \in SlotNos
  <2> SUFFICES ASSUME NEW n \in SlotNos
               PROVE  /\ Slot(n) = IF first + n < Slots THEN first + n
                                                        ELSE first + n - Slots
                      /\ Slot(n) \in SlotNos
    OBVIOUS
  <2>1. n \in 0 .. Slots
    BY SizeTypes DEF SlotNos
  <2>2. QED BY <2>1, SlotAfter DEF Slot
<1>2. Slot(0) = first /\ 0 \in SlotNos
  BY <1>1, SizeTypes DEF SlotNos
<1>3. \A m, n \in SlotNos : Slot(m) = Slot(n) => m = n
  BY <1>1, SizeTypes DEF SlotNos
<1>4. ASSUME NEW k \in SlotNos PROVE \E n \in SlotNos : Slot(n) = k
  <2>1. CASE first <= k
    <3>1. k - first \in SlotNos /\ first + (k - first) = k /\ k < Slots
      BY <2>1, SizeTypes DEF SlotNos
    <3>2. Slot(k - first) = k
      BY <1>1, <3>1
    <3>3. QED BY <3>1, <3>2
  <2>2. CASE k < first
    <3>1. k - first + Slots \in SlotNos /\ first + (k - first + Slots) >= Slots
      BY <2>2, SizeTypes DEF SlotNos
    <3>2. PICK n \in SlotNos : n = k - first + Slots
      BY <3>1
    <3>3. Slot(n) = first + n - Slots
      BY <1>1, <3>1, <3>2, SizeTypes DEF SlotNos
    <3>4. Slot(n) = k
      BY <3>2, <3>3, SizeTypes DEF SlotNos
    <3>5. QED BY <3>4
  <2>3. QED BY <2>1, <2>2, SizeTypes DEF SlotNos
<1>5. QED BY <1>1, <1>2, <1>3, <1>4

(* A set of numbers has no more members than its range, and no fewer than     *)
(* any range in it.                                                           *)
LEMMA Few ==
    ASSUME NEW a \in Int, NEW b \in Int, a <= b + 1, NEW S \in SUBSET (a .. b)
    PROVE  /\ IsFiniteSet(S) /\ Cardinality(S) \in Nat
           /\ Cardinality(S) <= b - a + 1
<1>1. IsFiniteSet(a .. b) /\ Cardinality(a .. b) = b - a + 1
  BY FS_Interval
<1>2. IsFiniteSet(S) /\ Cardinality(S) <= Cardinality(a .. b)
  BY <1>1, FS_Subset
<1>3. QED BY <1>1, <1>2, FS_CardinalityType

LEMMA Many ==
    ASSUME NEW a \in Int, NEW b \in Int, a <= b + 1,
           NEW S, IsFiniteSet(S), a .. b \subseteq S
    PROVE  Cardinality(S) \in Nat /\ b - a + 1 <= Cardinality(S)
<1>1. Cardinality(a .. b) = b - a + 1
  BY FS_Interval
<1>2. Cardinality(a .. b) <= Cardinality(S)
  BY FS_Subset
<1>3. QED BY <1>1, <1>2, FS_CardinalityType

LEMMA LessWellFounded ==
    IsWellFoundedOn({ss \in Nat \X Nat : ss[1] < ss[2]}, Nat)
BY NatLessThanWellFounded DEF OpToRel

LEMMA LeastNumber ==
    ASSUME NEW T \in SUBSET Nat, T # {}
    PROVE  \E m \in T : \A k \in T : m <= k
<1> DEFINE R == {ss \in Nat \X Nat : ss[1] < ss[2]}
<1>1. \A x, y \in Nat : x < y => <<x, y>> \in R
  OBVIOUS
<1>2. IsWellFoundedOn(R, Nat)
  BY LessWellFounded
<1> HIDE DEF R
<1>3. PICK m \in T : \A k \in T : ~ (<<k, m>> \in R)
  BY <1>2, WFMin
<1>4. ASSUME NEW k \in T PROVE m <= k
  <2>1. k \in Nat /\ m \in Nat
    OBVIOUS
  <2>2. ~ (k < m)
    BY <1>1, <1>3, <2>1
  <2>3. QED BY <2>1, <2>2
<1>5. QED BY <1>4

-----------------------------------------------------------------------------
(* The network, whatever rtp_cache makes of the packets.                      *)

LEMMA NetInit == Init => NetTypes /\ Overtaken /\ Losses
BY SizeTypes DEF Init, NetTypes, Overtaken, Losses

LEMMA SendNet ==
    ASSUME NetTypes, Overtaken, Losses, Send
    PROVE  NetTypes' /\ Overtaken' /\ Losses' /\ Received' = Received
<1>1. /\ sent < Packets /\ sent' = sent + 1 /\ flight' = flight \cup {sent}
      /\ lost' = lost /\ repeats' = repeats /\ bad' = bad
      /\ \A p \in flight : p + Displace >= sent
  BY DEF Send
<1>2. sent \in Nat
  BY SizeTypes DEF NetTypes
<1>3. NetTypes'
  BY <1>1, <1>2, SizeTypes DEF NetTypes
<1>4. Overtaken'
  BY <1>1, <1>2, SizeTypes DEF NetTypes, Overtaken
<1>5. Losses'
  BY <1>1 DEF Losses, Burst
<1>6. Received' = Received
  BY <1>1, <1>2 DEF Received, NetTypes
<1>7. QED BY <1>3, <1>4, <1>5, <1>6

LEMMA LoseNet ==
    ASSUME NetTypes, Overtaken, Losses, NEW n \in Bursts, Lose(n)
    PROVE  NetTypes' /\ Overtaken' /\ Losses' /\ Received' = Received
<1>1. /\ sent + n <= Packets /\ sent' = sent + n
      /\ lost' = lost \cup (sent .. sent + n - 1)
      /\ flight' = flight /\ repeats' = repeats /\ bad' = bad
      /\ \A p \in lost : p + Apart < sent
  BY DEF Lose
<1>2. sent \in Nat /\ n \in Nat /\ n > 0
  BY SizeTypes DEF NetTypes
<1>3. NetTypes'
  BY <1>1, <1>2, SizeTypes DEF NetTypes
<1>4. (0 .. sent' - 1) \ lost' = (0 .. sent - 1) \ lost
  BY <1>1, <1>2 DEF NetTypes
<1>5. Overtaken'
  BY <1>1, <1>4 DEF Overtaken
<1>6. Received' = Received
  BY <1>1, <1>4 DEF Received
<1>7. ASSUME NEW p \in lost'
      PROVE  \E b \in lost', m \in Bursts :
                 b <= p /\ p < b + m /\ Burst(b, m)'
  <2>1. CASE p \in lost
    <3>1. PICK b \in lost, m \in Bursts :
              b <= p /\ p < b + m /\ Burst(b, m)
      BY <2>1 DEF Losses
    <3>2. b \in Nat /\ m \in Nat /\ m > 0 /\ b + m - 1 \in b .. b + m - 1
      BY SizeTypes DEF NetTypes
    <3>3. b + m - 1 \in lost
      BY <3>1, <3>2 DEF Burst
    <3>4. ASSUME NEW q \in lost'
          PROVE  \/ q \in b .. b + m - 1
                 \/ q + Apart < b \/ b + m - 1 + Apart < q
      <4>1. CASE q \in lost
        BY <3>1, <4>1 DEF Burst
      <4>2. CASE q \in sent .. sent + n - 1
        <5>1. b + m - 1 + Apart < sent
          BY <1>1, <3>3
        <5>2. q \in Int /\ sent <= q
          BY <1>2, <4>2
        <5>3. QED BY <1>2, <3>2, <5>1, <5>2, SizeTypes
      <4>3. QED BY <1>1, <4>1, <4>2
    <3>5. b .. b + m - 1 \subseteq lost' /\ b \in lost'
      BY <1>1, <3>1 DEF Burst
    <3>6. Burst(b, m)'
      BY <3>4, <3>5 DEF Burst
    <3>7. QED BY <3>1, <3>5, <3>6
  <2>2. CASE p \in sent .. sent + n - 1
    <3>1. \A q \in lost' : q \in sent .. sent + n - 1 \/ q + Apart < sent
      BY <1>1
    <3>2. PICK b \in lost' : b = sent
      BY <1>1, <1>2
    <3>3. b .. b + n - 1 \subseteq lost'
      BY <1>1, <3>2
    <3>4. Burst(b, n)'
      BY <3>1, <3>2, <3>3 DEF Burst
    <3>5. b <= p /\ p < b + n
      BY <1>2, <2>2, <3>2
    <3>6. QED BY <3>4, <3>5
  <2>3. QED BY <1>1, <2>1, <2>2
<1>8. Losses'
  BY <1>7 DEF Losses
<1>9. QED BY <1>3, <1>5, <1>6, <1>8

LEMMA FreshNet ==
    ASSUME NetTypes, Overtaken, Losses, NEW p, Fresh(p)
    PROVE  /\ NetTypes' /\ Overtaken' /\ Losses'
           /\ p \notin Received /\ Received' = Received \cup {p}
<1>1. /\ p \in flight /\ flight' = flight \ {p} /\ sent' = sent /\ lost' = lost
      /\ repeats' = repeats /\ bad' = bad
  BY DEF Fresh
<1>2. NetTypes'
  BY <1>1 DEF NetTypes
<1>3. Overtaken'
  BY <1>1 DEF Overtaken
<1>4. Losses'
  BY <1>1 DEF Losses, Burst
<1>5. p \notin Received /\ Received' = Received \cup {p}
  BY <1>1 DEF Received, NetTypes
<1>6. QED BY <1>2, <1>3, <1>4, <1>5

LEMMA AgainNet ==
    ASSUME NetTypes, Overtaken, Losses, NEW p, Again(p)
    PROVE  /\ NetTypes' /\ Overtaken' /\ Losses'
           /\ p \in Received /\ Received' = Received
<1>1. /\ p \in 0 .. sent - 1 /\ p \notin flight /\ p \notin lost
      /\ repeats < MaxRepeat /\ repeats' = repeats + 1
      /\ sent' = sent /\ flight' = flight /\ lost' = lost /\ bad' = bad
  BY DEF Again
<1>2. NetTypes'
  BY <1>1, SizeTypes DEF NetTypes
<1>3. Overtaken' /\ Losses'
  BY <1>1 DEF Overtaken, Losses, Burst
<1>4. p \in Received /\ Received' = Received
  BY <1>1 DEF Received
<1>5. QED BY <1>2, <1>3, <1>4

LEMMA QuietNet ==
    ASSUME NetTypes, Overtaken, Losses, UNCHANGED <<sent, flight, lost, repeats>>,
           bad' = bad \/ (bad < MaxBad /\ bad' = bad + 1)
    PROVE  NetTypes' /\ Overtaken' /\ Losses' /\ Received' = Received
<1>1. NetTypes'
  BY SizeTypes DEF NetTypes
<1>2. QED BY <1>1 DEF Overtaken, Losses, Burst, Received

(* Of the packets before one that has come, few are still under way.          *)
LEMMA FewBehind ==
    ASSUME NEW fl \in SUBSET Nat, NEW x \in Nat, x \notin fl,
           \A p \in fl : x <= p + Displace
    PROVE  LET behind == {p \in fl : p < x + 1}
           IN  Cardinality(behind) \in Nat /\ Cardinality(behind) <= Displace
<1> DEFINE behind == {p \in fl : p < x + 1}
<1>1. ASSUME NEW p \in behind PROVE p \in x - Displace .. x - 1
  <2>1. p \in Nat /\ p < x + 1 /\ p # x /\ x <= p + Displace
    OBVIOUS
  <2>2. QED BY <2>1, SizeTypes
<1>2. x - Displace \in Int /\ x - 1 \in Int /\ x - Displace <= (x - 1) + 1
      /\ (x - 1) - (x - Displace) + 1 = Displace
  BY SizeTypes
<1> HIDE DEF behind
<1>3. Cardinality(behind) \in Nat
      /\ Cardinality(behind) <= (x - 1) - (x - Displace) + 1
  BY <1>1, <1>2, Few
<1>4. Cardinality(behind) \in Nat /\ Cardinality(behind) <= Displace
  BY <1>2, <1>3
<1>5. QED BY <1>4 DEF behind

-----------------------------------------------------------------------------
(* The types of the cache.                                                    *)

(* Gap is the distance of the first packet there is.                          *)
LEMMA GapIs ==
    ASSUME first \in SlotNos
    PROVE  /\ Gap \in SlotNos
           /\ \A n \in SlotNos : n < Gap => data[Slot(n)] = Empty
           /\ data[Slot(Gap)] = Empty =>
                  \A n \in SlotNos : data[Slot(n)] = Empty
<1> DEFINE held == {n \in SlotNos : data[(first + n) % Slots] # Empty}
<1>1. Gap = IF held = {} THEN 0
                         ELSE CHOOSE n \in held : \A m \in held : n <= m
  BY DEF Gap
<1>2. \A n \in SlotNos : n \in held <=> data[Slot(n)] # Empty
  BY DEF Slot
<1>3. held \in SUBSET Nat /\ held \subseteq SlotNos
  BY DEF SlotNos
<1> HIDE DEF held
<1>4. CASE held = {}
  <2>1. Gap = 0
    BY <1>1, <1>4
  <2>2. \A n \in SlotNos : data[Slot(n)] = Empty
    BY <1>2, <1>4
  <2>3. QED BY <2>1, <2>2, SlotIs
<1>5. CASE held # {}
  <2>1. \E m \in held : \A k \in held : m <= k
    BY <1>3, <1>5, LeastNumber
  <2>2. Gap \in held /\ \A k \in held : Gap <= k
    BY <1>1, <1>5, <2>1
  <2>3. Gap \in SlotNos /\ data[Slot(Gap)] # Empty
    BY <1>2, <1>3, <2>2
  <2>4. \A n \in SlotNos : n < Gap => n \notin held
    BY <2>2, <2>3 DEF SlotNos
  <2>5. QED BY <1>2, <2>3, <2>4
<1>6. QED BY <1>4, <1>5

LEMMA NextSeqType == \A n \in Nat : NextSeq(n) \in Nat
BY RtpAssumption DEF NextSeq

LEMMA CacheInit == Init => CacheTypes
BY RtpAssumption, SizeTypes DEF Init, CacheTypes, SlotNos, Empty

LEMMA InSequenceTypes ==
    ASSUME CacheTypes, NEW p \in Nat, InSequence(p)
    PROVE  CacheTypes'
<1>1. SeqOf(p) \in Nat
  BY RtpAssumption DEF SeqOf
<1>2. NextSlot(first) \in SlotNos /\ NextSeq(SeqOf(p)) \in Nat
  BY <1>1, NextSlotIs, NextSeqType DEF CacheTypes
<1>3. /\ seq' = [seq EXCEPT ![NextSlot(first)] = NextSeq(SeqOf(p))]
      /\ first' = NextSlot(first) /\ data' = data /\ is_first' = FALSE
      /\ pc' = "idle" /\ tries' = 0 /\ delivered' = Append(delivered, p)
  BY DEF InSequence, Feed
<1>4. seq' \in [SlotNos -> Nat]
  BY <1>2, <1>3 DEF CacheTypes
<1>5. delivered' \in Seq(Nat)
  BY <1>3 DEF CacheTypes
<1>6. is_first' \in BOOLEAN
  BY <1>3
<1>7. tries' \in 0 .. Tries
  BY <1>3, SizeTypes
<1>8. data' \in [SlotNos -> Nat \cup {Empty}] /\ first' \in SlotNos
  BY <1>2, <1>3 DEF CacheTypes
<1>9. pc' \in {"idle", "loop"} /\ (pc' = "idle" => tries' = 0)
  BY <1>3
<1>10. QED BY <1>4, <1>5, <1>6, <1>7, <1>8, <1>9 DEF CacheTypes

LEMMA ResetTypes ==
    ASSUME CacheTypes, NEW p \in Nat, ResetTo(p)
    PROVE  CacheTypes'
<1>1. SeqOf(p) \in Nat
  BY RtpAssumption DEF SeqOf
<1>2. NextSeq(SeqOf(p)) \in Nat /\ 0 \in SlotNos
  BY <1>1, NextSeqType, SizeTypes DEF SlotNos
<1>3. QED BY <1>2, SizeTypes DEF CacheTypes, ResetTo, Feed, NoData

LEMMA TryTypes ==
    ASSUME CacheTypes, NEW p \in Nat, Reading, Drop(p) \/ Store(p)
    PROVE  CacheTypes'
<1>1. tries + 1 \in 0 .. Tries
  BY SizeTypes DEF CacheTypes, Reading
<1>2. SeqOf(p) \in Nat
  BY RtpAssumption DEF SeqOf
<1>3. CASE Drop(p)
  BY <1>1, <1>3 DEF CacheTypes, Drop, TryOn, rtpbuf
<1>4. CASE Store(p)
  <2>1. data' \in [SlotNos -> Nat \cup {Empty}] /\ seq' \in [SlotNos -> Nat]
    BY <1>2, <1>4 DEF CacheTypes, Store
  <2>2. QED BY <1>1, <1>4, <2>1 DEF CacheTypes, Store, TryOn
<1>5. QED BY <1>3, <1>4

LEMMA TakeTypes ==
    ASSUME CacheTypes, Take
    PROVE  CacheTypes'
<1> DEFINE k == Slot(Gap)
<1>1. k \in SlotNos
  BY GapIs, SlotIs DEF CacheTypes
<1>2. /\ data' = [data EXCEPT ![k] = Empty]
      /\ seq' = [seq EXCEPT ![NextSlot(k)] = NextSeq(seq[k])]
      /\ first' = NextSlot(k) /\ tries' = 0 /\ is_first' = is_first
      /\ IF data[k] = Empty
         THEN pc' = "loop" /\ delivered' = delivered
         ELSE pc' = "idle" /\ delivered' = Append(delivered, data[k])
  BY DEF Take, Slot, After
<1> HIDE DEF k
<1>3. NextSlot(k) \in SlotNos
  BY <1>1, NextSlotIs
<1>4. seq[k] \in Nat
  BY <1>1 DEF CacheTypes
<1>5. NextSeq(seq[k]) \in Nat
  BY <1>4, NextSeqType
<1>6. data' \in [SlotNos -> Nat \cup {Empty}] /\ seq' \in [SlotNos -> Nat]
  BY <1>2, <1>5 DEF CacheTypes
<1>7. pc' \in {"idle", "loop"} /\ delivered' \in Seq(Nat)
  <2>1. CASE data[k] = Empty
    BY <1>2, <2>1 DEF CacheTypes
  <2>2. CASE data[k] # Empty
    <3>1. data[k] \in Nat
      BY <1>1, <2>2 DEF CacheTypes
    <3>2. pc' = "idle" /\ delivered' = Append(delivered, data[k])
      BY <1>2, <2>2
    <3>3. delivered \in Seq(Nat)
      BY DEF CacheTypes
    <3>4. Append(delivered, data[k]) \in Seq(Nat)
      BY <3>1, <3>3
    <3>5. QED BY <3>2, <3>4
  <2>3. QED BY <2>1, <2>2
<1>8. QED BY <1>2, <1>3, <1>6, <1>7, SizeTypes DEF CacheTypes

LEMMA TypesStep ==
    ASSUME NetTypes, CacheTypes, [Next]_vars
    PROVE  CacheTypes'
<1>1. ASSUME Send \/ (\E n \in Bursts : Lose(n)) \/ UNCHANGED vars
      PROVE  CacheTypes'
  BY <1>1 DEF CacheTypes, Send, Lose, vars, rtpbuf
<1>2. CASE Call
  BY <1>2, SizeTypes DEF CacheTypes, Call, rtpbuf
<1>3. CASE BadRead
  <2>1. tries + 1 \in 0 .. Tries
    BY <1>3, SizeTypes DEF CacheTypes, BadRead, Reading
  <2>2. QED BY <1>3, <2>1 DEF CacheTypes, BadRead, rtpbuf, Reading
<1>4. CASE Take
  BY <1>4, TakeTypes
<1>5. ASSUME NEW p \in 0 .. sent - 1, Receive(p) PROVE CacheTypes'
  <2>1. p \in Nat
    OBVIOUS
  <2>2. QED
    BY <1>5, <2>1, InSequenceTypes, ResetTypes, TryTypes
    DEF Receive, Overrun, Underrun
<1>6. QED BY <1>1, <1>2, <1>3, <1>4, <1>5 DEF Next

-----------------------------------------------------------------------------
(* What a step leaves alone, and what a delivery has to show.                 *)

LEMMA Places ==
    ASSUME NetTypes, CacheTypes, Stream
    PROVE  /\ Expected \in 1 .. sent /\ seq[first] = FirstSeq + Expected
           /\ Received \subseteq 0 .. sent - 1 /\ sent \in Nat /\ sent <= Packets
<1>1. Received \subseteq 0 .. sent - 1 /\ sent \in Nat /\ sent <= Packets
  BY SizeTypes DEF Received, NetTypes
<1>2. seq[first] \in Nat
  BY DEF CacheTypes
<1>3. Expected \in Int /\ seq[first] = FirstSeq + Expected
  BY <1>2, SizeTypes DEF Expected
<1>4. Expected - 1 \in 0 .. sent - 1
  BY <1>1 DEF Stream
<1>5. QED BY <1>1, <1>3, <1>4

LEMMA SetsAreFinite ==
    ASSUME NetTypes
    PROVE  /\ IsFiniteSet(Waiting) /\ Cardinality(Waiting) \in Nat
           /\ IsFiniteSet(Late) /\ Cardinality(Late) \in Nat
<1>1. sent \in Nat /\ 0 \in Int /\ sent - 1 \in Int /\ 0 <= (sent - 1) + 1
  BY SizeTypes DEF NetTypes
<1>2. Waiting \in SUBSET (0 .. sent - 1) /\ Late \in SUBSET (0 .. sent - 1)
  BY DEF NetTypes, Waiting, Received, Late
<1>3. QED BY <1>1, <1>2, Few

LEMMA LossIsForGood ==
    ASSUME lost \subseteq lost', LongLoss
    PROVE  LongLoss'
BY DEF LongLoss

LEMMA DeliveredKept ==
    ASSUME lost \subseteq lost', delivered' = delivered, InOrder, SkipsOnlyLost
    PROVE  InOrder' /\ SkipsOnlyLost'
<1>1. InOrder'
  BY DEF InOrder
<1>2. \A i : SkippedAreLost(i) => SkippedAreLost(i)'
  BY DEF SkippedAreLost
<1>3. SkipsOnlyLost'
  BY <1>2, LossIsForGood DEF SkipsOnlyLost
<1>4. QED BY <1>1, <1>3

LEMMA DeliveredMore ==
    ASSUME lost \subseteq lost', delivered \in Seq(Nat), NEW x \in Nat,
           delivered' = Append(delivered, x), InOrder, SkipsOnlyLost,
           Len(delivered) > 0 =>
               /\ delivered[Len(delivered)] < x
               /\ \/ LongLoss
                  \/ \A p \in delivered[Len(delivered)] + 1 .. x - 1 : p \in lost
    PROVE  InOrder' /\ SkipsOnlyLost'
<1> DEFINE n == Len(delivered)
<1>1. /\ n \in Nat /\ Len(delivered') = n + 1 /\ delivered'[n + 1] = x
      /\ \A i \in 1 .. n : delivered'[i] = delivered[i] /\ delivered[i] \in Nat
  OBVIOUS
<1>2. \A i, j \in 1 .. n : i < j => delivered[i] < delivered[j]
  BY DEF InOrder
<1>3. \A i \in 1 .. n : i < n => delivered[i] < delivered[n]
  BY <1>1, <1>2
<1>4. n > 0 => /\ delivered[n] < x
               /\ LongLoss \/ \A p \in delivered[n] + 1 .. x - 1 : p \in lost
  OBVIOUS
<1>5. \A i \in 1 .. Len(delivered) - 1 :
          SkippedAreLost(i) => i \in 1 .. n - 1 /\ SkippedAreLost(i)
  OBVIOUS
<1>6. LongLoss \/ \A i \in 1 .. n - 1 : SkippedAreLost(i)
  BY DEF SkipsOnlyLost
<1> HIDE DEF n
<1>7. InOrder'
  <2>1. \A i \in 1 .. n : delivered[i] < x
    <3>1. ASSUME NEW i \in 1 .. n PROVE delivered[i] < x
      <4>1. n \in 1 .. n /\ (i = n \/ i < n) /\ n > 0
        BY <1>1
      <4>2. delivered[i] \in Nat /\ delivered[n] \in Nat /\ delivered[n] < x
        BY <1>1, <1>4, <4>1
      <4>3. QED BY <1>3, <4>1, <4>2
    <3>2. QED BY <3>1
  <2>2. ASSUME NEW i \in 1 .. n + 1, NEW j \in 1 .. n + 1, i < j
        PROVE  delivered'[i] < delivered'[j]
    <3>1. i \in 1 .. n /\ (j \in 1 .. n \/ j = n + 1)
      BY <1>1, <2>2
    <3>2. QED BY <1>1, <1>2, <2>1, <2>2, <3>1
  <2>3. QED BY <1>1, <2>2 DEF InOrder
<1>8. SkipsOnlyLost'
  <2>1. CASE LongLoss
    BY <2>1, LossIsForGood DEF SkipsOnlyLost
  <2>2. CASE ~LongLoss
    <3>1. ASSUME NEW i \in 1 .. n PROVE SkippedAreLost(i)'
      <4>1. CASE i = n
        <5>1. delivered'[i] = delivered[n] /\ delivered'[i + 1] = x /\ n > 0
          BY <1>1, <4>1
        <5>2. QED BY <1>4, <2>2, <5>1 DEF SkippedAreLost
      <4>2. CASE i # n
        <5>1. i \in 1 .. n - 1 /\ i + 1 \in 1 .. n
          BY <1>1, <4>2
        <5>2. /\ delivered'[i] = delivered[i]
              /\ delivered'[i + 1] = delivered[i + 1] /\ SkippedAreLost(i)
          BY <1>1, <1>6, <2>2, <5>1
        <5>3. QED BY <5>2 DEF SkippedAreLost
      <4>3. QED BY <4>1, <4>2
    <3>2. 1 .. Len(delivered') - 1 = 1 .. n
      BY <1>1
    <3>3. QED BY <3>1, <3>2 DEF SkipsOnlyLost
  <2>3. QED BY <2>1, <2>2
<1>9. QED BY <1>7, <1>8

(* As long as rtpbuf and what was delivered are left alone, and nothing has   *)
(* come but a packet behind the expected one, the same packets wait.          *)
LEMMA CacheKept ==
    ASSUME RtpInv, ~is_first, UNCHANGED <<data, seq, first, delivered>>,
           Received \subseteq Received', Received' \subseteq Nat,
           \A p \in Received' \ Received : p < Expected
    PROVE  /\ Expected' = Expected /\ Waiting' = Waiting
           /\ Stream' /\ Contents'
<1>1. /\ NetTypes /\ CacheTypes /\ Stream /\ Contents
      /\ Expected \in 1 .. sent /\ sent \in Nat
  BY Places DEF RtpInv, Running
<1>2. Expected' = Expected
  BY DEF Expected
<1>3. Waiting' = Waiting
  <2>1. Waiting' = {p \in Received' : Expected <= p}
    BY <1>2 DEF Waiting
  <2>2. \A p \in Received' : Expected <= p => p \in Received
    BY <1>1
  <2>3. QED BY <2>1, <2>2 DEF Waiting
<1>4. Stream'
  BY <1>1, <1>2 DEF Stream
<1>5. \A n \in SlotNos : Expected + n \in Received' <=> Expected + n \in Received
  BY <1>1, SizeTypes DEF SlotNos
<1>6. \A n : Slot(n)' = Slot(n)
  BY DEF Slot
<1>7. \A p \in Received' : p < Expected + Slots
  BY <1>1, SizeTypes DEF Contents
<1>8. Contents'
  BY <1>1, <1>2, <1>5, <1>6, <1>7 DEF Contents
<1>9. QED BY <1>2, <1>3, <1>4, <1>8

(* When packet Expected' - 1 has just been delivered the tries begin anew,    *)
(* and of the packets before it few are still under way.                      *)
LEMMA CountedAnew ==
    ASSUME NetTypes', Overtaken', tries' = 0,
           NEW x \in Nat, Expected' = x + 1, x \in Received',
           x + 1 \in lost' => Waiting' = {}
    PROVE  Counted'
<1>0. PICK s \in Nat : s = sent'
  BY SizeTypes DEF NetTypes
<1>1. /\ x \notin flight' /\ x \in (0 .. s - 1) \ lost' /\ s = sent'
      /\ flight' \in SUBSET Nat /\ Waiting' \in SUBSET (0 .. s - 1)
  <2>1. Received' = (0 .. s - 1) \ (flight' \cup lost')
    BY <1>0 DEF Received
  <2>2. flight' \in SUBSET (0 .. s - 1)
    BY <1>0 DEF NetTypes
  <2>3. x \notin flight' /\ x \in (0 .. s - 1) \ lost'
    BY <2>1
  <2>4. flight' \in SUBSET Nat
    BY <2>2
  <2>5. Waiting' \subseteq Received'
    BY DEF Waiting
  <2>6. Waiting' \in SUBSET (0 .. s - 1)
    BY <2>1, <2>5
  <2>7. QED BY <1>0, <2>3, <2>4, <2>6
<1>2. \A p \in flight' : x <= p + Displace
  BY <1>1 DEF Overtaken
<1>3. Late' = {p \in flight' : p < x + 1}
  BY <1>1 DEF Late
<1>4. Cardinality(Late') \in Nat /\ Cardinality(Late') <= Displace
  BY <1>1, <1>2, <1>3, FewBehind
<1>5. 0 \in Int /\ s - 1 \in Int /\ 0 <= (s - 1) + 1
  OBVIOUS
<1>7. Cardinality(Waiting') \in Nat
  BY <1>1, <1>5, Few
<1>8. repeats' \in Nat /\ bad' \in Nat
  BY SizeTypes DEF NetTypes
<1>9. Waiting' = {} => Cardinality(Waiting') = 0
  BY FS_EmptySet
<1>10. QED BY <1>4, <1>7, <1>8, <1>9, SizeTypes DEF Counted

-----------------------------------------------------------------------------
(* The steps that bring no packet.                                            *)

LEMMA SendRtp ==
    ASSUME RtpInv, Send
    PROVE  Starting' /\ Running' /\ InOrder' /\ SkipsOnlyLost'
<1>1. /\ NetTypes /\ Overtaken /\ Losses /\ CacheTypes /\ Starting /\ Running
      /\ InOrder /\ SkipsOnlyLost
  BY DEF RtpInv
<1>2. /\ sent' = sent + 1 /\ flight' = flight \cup {sent} /\ lost' = lost
      /\ UNCHANGED <<repeats, bad, data, seq, first, is_first, tries, delivered>>
  BY DEF Send, rtpbuf
<1>3. Received' = Received
  BY <1>1, SendNet
<1>4. InOrder' /\ SkipsOnlyLost'
  BY <1>1, <1>2, DeliveredKept
<1>5. Starting'
  BY <1>1, <1>2, <1>3 DEF Starting
<1>6. ASSUME ~is_first
      PROVE  Stream' /\ Contents' /\ Counted' /\ NoneBeyond'
  <2>1. /\ Stream /\ Contents /\ Counted /\ NoneBeyond
        /\ Expected \in 1 .. sent /\ sent \in Nat /\ Received \subseteq Nat
    BY <1>1, <1>6, Places DEF Running
  <2>2. /\ Expected' = Expected /\ Waiting' = Waiting /\ Stream' /\ Contents'
    BY <1>2, <1>3, <1>6, <2>1, CacheKept
  <2>3. Late' = Late
    BY <1>2, <2>1, <2>2 DEF Late
  <2>4. Counted'
    BY <1>2, <2>1, <2>2, <2>3 DEF Counted
  <2>5. NoneBeyond'
    BY <1>2, <2>1, <2>2 DEF NoneBeyond
  <2>6. QED BY <2>2, <2>4, <2>5
<1>7. QED BY <1>2, <1>4, <1>5, <1>6 DEF Running

LEMMA LoseRtp ==
    ASSUME RtpInv, NEW n \in Bursts, Lose(n)
    PROVE  Starting' /\ Running' /\ InOrder' /\ SkipsOnlyLost'
<1>1. /\ NetTypes /\ Overtaken /\ Losses /\ CacheTypes /\ Starting /\ Running
      /\ InOrder /\ SkipsOnlyLost
  BY DEF RtpInv
<1>2. /\ sent' = sent + n /\ flight' = flight
      /\ lost' = lost \cup (sent .. sent + n - 1)
      /\ UNCHANGED <<repeats, bad, data, seq, first, is_first, tries, delivered>>
  BY DEF Lose, rtpbuf
<1>3. Received' = Received
  BY <1>1, LoseNet
<1>4. InOrder' /\ SkipsOnlyLost'
  BY <1>1, <1>2, DeliveredKept
<1>5. Starting'
  BY <1>1, <1>2, <1>3 DEF Starting
<1>6. ASSUME ~is_first
      PROVE  Stream' /\ Contents' /\ Counted' /\ NoneBeyond'
  <2>1. /\ Stream /\ Contents /\ Counted /\ NoneBeyond
        /\ Expected \in 1 .. sent /\ sent \in Nat
        /\ Received \subseteq 0 .. sent - 1
    BY <1>1, <1>6, Places DEF Running
  <2>2. /\ Expected' = Expected /\ Waiting' = Waiting /\ Stream' /\ Contents'
    BY <1>2, <1>3, <1>6, <2>1, CacheKept
  <2>3. Late' = Late
    BY <1>2, <2>2 DEF Late
  <2>4. Expected \in lost' => Cardinality(Waiting) <= tries
    <3>1. CASE Expected \in lost
      BY <2>1, <3>1 DEF Counted
    <3>2. CASE Expected \in sent .. sent + n - 1
      <4>0. sent <= Expected /\ Expected \in Nat
        BY <2>1, <3>2
      <4>1. Waiting = {}
        <5>1. \A q \in Received : q \in Nat /\ q < sent
          BY <2>1
        <5>2. \A q \in Received : ~(Expected <= q)
          BY <2>1, <4>0, <5>1
        <5>3. QED BY <5>2 DEF Waiting
      <4>2. Cardinality(Waiting) = 0 /\ tries \in Nat
        BY <1>1, <4>1, FS_EmptySet, SizeTypes DEF CacheTypes
      <4>3. QED BY <4>2
    <3>3. QED BY <1>2, <3>1, <3>2
  <2>5. Counted'
    BY <1>2, <2>1, <2>2, <2>3, <2>4 DEF Counted
  <2>6. ASSUME NEW p \in lost', p > Expected, p - 1 \notin lost',
               NEW q \in Waiting
        PROVE  q < p
    <3>1. CASE p \in lost
      BY <1>2, <2>1, <2>6, <3>1 DEF NoneBeyond
    <3>2. CASE p \in sent .. sent + n - 1
      BY <2>1, <3>2 DEF Waiting
    <3>3. QED BY <1>2, <3>1, <3>2
  <2>7. NoneBeyond'
    BY <2>2, <2>6 DEF NoneBeyond
  <2>8. QED BY <2>2, <2>5, <2>7
<1>7. QED BY <1>2, <1>4, <1>5, <1>6 DEF Running

LEMMA QuietRtp ==
    ASSUME RtpInv, Call \/ BadRead \/ UNCHANGED vars
    PROVE  Starting' /\ Running' /\ InOrder' /\ SkipsOnlyLost'
<1>1. /\ NetTypes /\ Overtaken /\ Losses /\ CacheTypes /\ Starting /\ Running
      /\ InOrder /\ SkipsOnlyLost
  BY DEF RtpInv
<1>2. /\ UNCHANGED <<sent, flight, lost, repeats>>
      /\ UNCHANGED <<data, seq, first, is_first, delivered>>
  BY DEF Call, BadRead, vars, net, rtpbuf
<1>3. /\ tries \in Nat /\ bad \in Nat
      /\ \/ tries' = tries /\ bad' = bad
         \/ tries' = tries + 1 /\ bad' = bad + 1
  BY <1>1, SizeTypes DEF Call, BadRead, vars, net, CacheTypes, NetTypes
<1>4. Received' = Received
  BY <1>2 DEF Received
<1>5. InOrder' /\ SkipsOnlyLost'
  BY <1>1, <1>2, DeliveredKept
<1>6. Starting'
  BY <1>1, <1>2, <1>3, <1>4 DEF Starting
<1>7. ASSUME ~is_first
      PROVE  Stream' /\ Contents' /\ Counted' /\ NoneBeyond'
  <2>1. /\ Stream /\ Contents /\ Counted /\ NoneBeyond
        /\ Received \subseteq Nat /\ repeats \in Nat
        /\ Cardinality(Late) \in Nat /\ Cardinality(Waiting) \in Nat
    BY <1>1, <1>7, Places, SetsAreFinite, SizeTypes DEF Running, NetTypes
  <2>2. /\ Expected' = Expected /\ Waiting' = Waiting /\ Stream' /\ Contents'
    BY <1>2, <1>4, <1>7, <2>1, CacheKept
  <2>3. Late' = Late
    BY <1>2, <2>2 DEF Late
  <2>4. Counted'
    BY <1>2, <1>3, <2>1, <2>2, <2>3, SizeTypes DEF Counted
  <2>5. NoneBeyond'
    BY <1>2, <2>1, <2>2 DEF NoneBeyond
  <2>6. QED BY <2>2, <2>4, <2>5
<1>8. QED BY <1>2, <1>5, <1>6, <1>7 DEF Running

-----------------------------------------------------------------------------
(* A packet behind the expected one is dropped.                               *)

LEMMA DropRtp ==
    ASSUME RtpInv, ~is_first, NEW p \in 0 .. sent - 1, p < Expected,
           Fresh(p) \/ Again(p), Drop(p)
    PROVE  Starting' /\ Running' /\ InOrder' /\ SkipsOnlyLost'
<1>1. /\ NetTypes /\ Overtaken /\ Losses /\ CacheTypes
      /\ Stream /\ Contents /\ Counted /\ NoneBeyond
      /\ InOrder /\ SkipsOnlyLost
  BY DEF RtpInv, Running
<1>2. /\ UNCHANGED <<data, seq, first, is_first, delivered>>
      /\ tries' = tries + 1
  BY DEF Drop, TryOn, rtpbuf
<1>3. sent' = sent /\ lost' = lost /\ bad' = bad
  BY DEF Fresh, Again
<1>4. Received' = Received \/ Received' = Received \cup {p}
  BY <1>1, FreshNet, AgainNet
<1>5. /\ Received \subseteq 0 .. sent - 1 /\ Expected \in 1 .. sent
      /\ sent \in Nat
  BY <1>1, Places
<1>6. /\ Expected' = Expected /\ Waiting' = Waiting /\ Stream' /\ Contents'
  <2>1. p \in Nat /\ Received \subseteq Nat
    BY <1>5
  <2>2. Received \subseteq Received' /\ Received' \subseteq Nat
    BY <1>4, <2>1
  <2>3. \A q \in Received' \ Received : q = p
    BY <1>4
  <2>4. QED BY <1>2, <2>2, <2>3, CacheKept
<1>7. /\ Cardinality(Late) \in Nat /\ IsFiniteSet(Late)
      /\ Cardinality(Waiting) \in Nat
      /\ tries \in Nat /\ repeats \in Nat /\ bad \in Nat
  BY <1>1, SetsAreFinite, SizeTypes DEF CacheTypes, NetTypes
<1>8. Counted'
  <2>1. CASE Fresh(p)
    <3>1. Late' = Late \ {p} /\ p \in Late /\ repeats' = repeats
      BY <1>6, <2>1 DEF Fresh, Late
    <3>2. Cardinality(Late') = Cardinality(Late) - 1
      BY <1>7, <3>1, FS_RemoveElement
    <3>3. QED BY <1>1, <1>2, <1>3, <1>6, <1>7, <3>1, <3>2, SizeTypes DEF Counted
  <2>2. CASE Again(p)
    <3>1. Late' = Late /\ repeats' = repeats + 1
      BY <1>6, <2>2 DEF Again, Late
    <3>2. QED BY <1>1, <1>2, <1>3, <1>6, <1>7, <3>1, SizeTypes DEF Counted
  <2>3. QED BY <2>1, <2>2
<1>9. NoneBeyond'
  BY <1>1, <1>3, <1>6 DEF NoneBeyond
<1>10. InOrder' /\ SkipsOnlyLost'
  BY <1>1, <1>2, <1>3, DeliveredKept
<1>11. QED BY <1>2, <1>6, <1>8, <1>9, <1>10 DEF Running, Starting

-----------------------------------------------------------------------------
(* How far ahead of the expected packet one can be that comes.                *)

LEMMA CalmSizes ==
    ASSUME CalmNetwork
    PROVE  /\ Displace < Slots /\ Displace + MaxRepeat + MaxBad < Tries
           /\ 2 * Displace + MaxRepeat + MaxBad < Tries
BY SizeTypes DEF CalmNetwork

(* A packet that is lost, and the one before it is not, begins a burst.       *)
LEMMA BurstStart ==
    ASSUME NetTypes, Losses, NEW r \in lost, r - 1 \notin lost
    PROVE  \E n \in Bursts : Burst(r, n)
<1>1. PICK b \in lost, n \in Bursts : b <= r /\ r < b + n /\ Burst(b, n)
  BY DEF Losses
<1>2. b \in Nat /\ r \in Nat /\ n \in Nat
  BY SizeTypes DEF NetTypes
<1>3. ~(b < r)
  <2>1. SUFFICES ASSUME b < r PROVE FALSE
    OBVIOUS
  <2>2. r - 1 \in b .. b + n - 1
    BY <1>1, <1>2, <2>1
  <2>3. QED BY <1>1, <2>2 DEF Burst
<1>4. b = r
  BY <1>1, <1>2, <1>3
<1>5. QED BY <1>1, <1>4

LEMMA NotReceived ==
    ASSUME RtpInv, ~is_first, data[first] = Empty
    PROVE  Expected \notin Received
<1>1. /\ Contents /\ Expected \in Nat /\ first \in SlotNos
  BY Places DEF RtpInv, Running, CacheTypes
<1>2. Slot(0) = first /\ 0 \in SlotNos /\ Expected + 0 = Expected
  BY <1>1, SlotIs
<1>3. data[first] = IF Expected \in Received THEN Expected ELSE Empty
  BY <1>1, <1>2 DEF Contents
<1>4. QED BY <1>1, <1>3 DEF Empty

(* While a short loss is the next thing expected nothing comes from beyond    *)
(* the cache: so many packets would wait that the tries had run out.          *)
LEMMA ShortLoss ==
    ASSUME RtpInv, CalmNetwork, ~is_first, Reading, Expected \in lost,
           NEW n \in Bursts, Burst(Expected, n), n + Displace <= 3,
           NEW p \in 0 .. sent - 1, p \notin lost
    PROVE  p < Expected + Slots
<1>1. SUFFICES ASSUME p >= Expected + Slots PROVE FALSE
  <2>1. Expected \in Nat /\ p \in Nat /\ Slots \in Nat
    BY Places, SizeTypes DEF RtpInv, Running
  <2>2. QED BY <1>1, <2>1
<1>2. PICK e \in Nat : e = Expected
  BY Places DEF RtpInv, Running
<1>3. /\ NetTypes /\ Overtaken /\ Contents /\ Counted
      /\ IsFiniteSet(Waiting) /\ sent \in Nat
      /\ n \in Nat /\ n > 0 /\ p \in Nat
      /\ p >= e + Slots
  BY <1>1, <1>2, SetsAreFinite, SizeTypes DEF RtpInv, Running, NetTypes
<1> DEFINE a == e + n
           b == e + Slots - 1 - Displace
<1>4. ASSUME NEW q \in a .. b PROVE q \in Waiting
  <2>1. q \in Nat /\ e + n <= q /\ q + Displace < e + Slots /\ q < p
    BY <1>3, SizeTypes
  <2>2. q \notin lost
    <3>1. q <= e + n - 1 + Apart
      BY <1>3, <2>1, SizeTypes DEF CalmNetwork
    <3>2. ~(q + Apart < e) /\ q \notin e .. e + n - 1
          /\ ~(e + n - 1 + Apart < q)
      BY <1>3, <2>1, <3>1, SizeTypes
    <3>3. QED BY <1>2, <3>2 DEF Burst
  <2>3. q \notin flight
    <3>1. q \in flight => p <= q + Displace
      BY <1>3 DEF Overtaken
    <3>2. QED BY <1>3, <2>1, <3>1, SizeTypes
  <2>4. q \in 0 .. sent - 1
    BY <1>3, <2>1
  <2>5. q \in Received
    BY <2>2, <2>3, <2>4 DEF Received
  <2>6. Expected <= q
    BY <1>2, <1>3, <2>1
  <2>7. QED BY <2>5, <2>6 DEF Waiting
<1>5. /\ a \in Int /\ b \in Int /\ a <= b + 1 /\ Tries <= b - a + 1
  BY <1>3, SizeTypes
<1> HIDE DEF a, b
<1>6. Cardinality(Waiting) \in Nat /\ b - a + 1 <= Cardinality(Waiting)
  BY <1>3, <1>4, <1>5, Many
<1>7. Cardinality(Waiting) <= tries /\ tries < Tries /\ tries \in Nat
  BY <1>3, SizeTypes DEF Counted, Reading, RtpInv, CacheTypes
<1>8. QED BY <1>5, <1>6, <1>7, SizeTypes

LEMMA ComesAhead ==
    ASSUME RtpInv, CalmNetwork, ~is_first, Reading,
           NEW p \in 0 .. sent - 1, p \notin lost, Expected < p
    PROVE  \/ /\ p < Expected + Slots
              /\ \A r \in lost : Expected < r /\ r - 1 \notin lost => p < r
           \/ LongLoss /\ Expected + Slots < p /\ p \notin Received
<1>1. PICK e \in Nat : e = Expected
  BY Places DEF RtpInv, Running
<1>2. /\ NetTypes /\ Overtaken /\ Losses /\ Contents /\ Stream
      /\ sent \in Nat /\ p \in Nat /\ e < p /\ p < sent
      /\ \A r \in lost : r \in Nat
  BY <1>1, SizeTypes DEF RtpInv, Running, NetTypes
<1>3. e \in flight \/ e \in lost
  <2>1. e \notin Received
    BY <1>1, NotReceived DEF Reading
  <2>2. e \in 0 .. sent - 1
    BY <1>2
  <2>3. QED BY <2>1, <2>2 DEF Received
<1>4. CASE e \in flight
  <2>1. p <= e + Displace
    BY <1>2, <1>4 DEF Overtaken
  <2>2. p < e + Slots
    BY <1>2, <2>1, CalmSizes, SizeTypes
  <2>3. ASSUME NEW r \in lost, e < r, r - 1 \notin lost PROVE p < r
    <3>1. PICK n \in Bursts : Burst(r, n)
      BY <1>2, <2>3, BurstStart
    <3>2. Displace <= n /\ n \in Nat /\ r \in Nat
      BY <1>2, SizeTypes DEF CalmNetwork
    <3>3. p \notin r .. r + n - 1
      BY <3>1 DEF Burst
    <3>4. p < r \/ r + n <= p
      BY <1>2, <3>2, <3>3
    <3>5. QED BY <1>2, <2>1, <2>3, <3>2, <3>4, SizeTypes
  <2>4. QED BY <1>1, <2>2, <2>3
<1>5. CASE e \in lost
  <2>1. e - 1 \notin lost
    BY <1>1, <1>2 DEF Stream, Received
  <2>2. PICK n \in Bursts : Burst(e, n)
    BY <1>2, <1>5, <2>1, BurstStart
  <2>3. n \in Nat /\ n > 0 /\ (n > Slots \/ n + Displace <= 3)
    BY SizeTypes DEF CalmNetwork
  <2>4. e + n <= p
    <3>1. p \notin e .. e + n - 1
      BY <2>2 DEF Burst
    <3>2. QED BY <1>2, <2>3, <3>1
  <2>5. CASE n > Slots
    <3>1. \A m \in 1 .. Slots : e + m \in e .. e + n - 1
      BY <2>3, <2>5, SizeTypes
    <3>2. LongLoss
      BY <1>5, <2>2, <3>1 DEF LongLoss, Burst
    <3>3. e + Slots < p
      BY <1>2, <2>3, <2>4, <2>5, SizeTypes
    <3>4. p \notin Received
      <4>1. p \in Received => p < e + Slots
        BY <1>1, <1>2 DEF Contents
      <4>2. QED BY <1>2, <3>3, <4>1, SizeTypes
    <3>5. QED BY <1>1, <3>2, <3>3, <3>4
  <2>6. CASE n + Displace <= 3
    <3>1. p < e + Slots
      BY <1>1, <1>5, <2>2, <2>6, ShortLoss
    <3>2. ASSUME NEW r \in lost, e < r, r - 1 \notin lost PROVE p < r
      <4>1. r \in Nat
        BY <1>2
      <4>2. r \notin e .. e + n - 1
        <5>1. r \in e .. e + n - 1 => r - 1 \in e .. e + n - 1
          BY <2>3, <3>2, <4>1
        <5>2. QED BY <2>2, <3>2, <5>1 DEF Burst
      <4>3. r + Apart < e \/ e + n - 1 + Apart < r
        BY <2>2, <4>2 DEF Burst
      <4>4. QED BY <1>2, <2>3, <3>1, <3>2, <4>1, <4>3, SizeTypes DEF CalmNetwork
    <3>3. QED BY <1>1, <3>1, <3>2
  <2>7. QED BY <2>3, <2>5, <2>6
<1>6. QED BY <1>3, <1>4, <1>5

-----------------------------------------------------------------------------
(* The steps that deliver a packet x: it is expected next after the one       *)
(* before, or what lies between them is lost.                                 *)

LEMMA Delivery ==
    ASSUME RtpInv, NetTypes', Overtaken', CacheTypes', NEW x \in Nat,
           lost \subseteq lost',
           ~is_first', tries' = 0, delivered' = Append(delivered, x),
           Expected' = x + 1, x \in Received', Contents', NoneBeyond',
           x + 1 \in lost' => Waiting' = {},
           ~is_first => /\ Expected <= x
                        /\ LongLoss \/ \A p \in Expected .. x - 1 : p \in lost
    PROVE  Starting' /\ Running' /\ InOrder' /\ SkipsOnlyLost'
<1>1. /\ NetTypes /\ CacheTypes /\ Starting /\ Running
      /\ InOrder /\ SkipsOnlyLost /\ delivered \in Seq(Nat)
  BY DEF RtpInv, CacheTypes
<1>2. Len(delivered') = Len(delivered) + 1 /\ delivered'[Len(delivered')] = x
  BY <1>1
<1>3. Stream'
  BY <1>1, <1>2 DEF Stream
<1>4. Counted'
  BY CountedAnew
<1>5. CASE is_first
  <2>1. Len(delivered) = 0
    BY <1>1, <1>5 DEF Starting
  <2>2. InOrder' /\ SkipsOnlyLost'
    BY <1>1, <2>1, DeliveredMore
  <2>3. QED BY <1>3, <1>4, <2>2 DEF Starting, Running
<1>6. CASE ~is_first
  <2>1. PICK e \in Nat : e = Expected
    BY <1>1, <1>6, Places DEF Running
  <2>2. delivered[Len(delivered)] = e - 1
    BY <1>1, <1>6, <2>1 DEF Running, Stream
  <2>3. e - 1 < x
    BY <1>6, <2>1
  <2>4. LongLoss \/ \A p \in (e - 1) + 1 .. x - 1 : p \in lost
    BY <1>6, <2>1
  <2>5. InOrder' /\ SkipsOnlyLost'
    BY <1>1, <2>2, <2>3, <2>4, DeliveredMore
  <2>6. QED BY <1>3, <1>4, <2>5 DEF Starting, Running
<1>7. QED BY <1>5, <1>6

(* The first packet of all, and a packet that restarts the cache, leave it    *)
(* empty: that is what has to be received when nothing waits.                 *)
LEMMA EmptyCache ==
    ASSUME NetTypes', CacheTypes', data' = NoData, NEW x \in Nat,
           Expected' = x + 1, \A p \in Received' : p <= x
    PROVE  Contents' /\ NoneBeyond' /\ Waiting' = {}
<1>1. PICK s \in Nat : s = sent'
  BY SizeTypes DEF NetTypes
<1>2. Received' \subseteq Nat
  BY <1>1 DEF Received
<1>3. \A p \in Received' : ~(x + 1 <= p)
  BY <1>2
<1>4. Waiting' = {}
  BY <1>3 DEF Waiting
<1>5. \A n \in SlotNos : x + 1 + n \notin Received'
  BY <1>3, SizeTypes DEF SlotNos
<1>6. \A n \in SlotNos : Slot(n)' \in SlotNos /\ data'[Slot(n)'] = Empty
  <2>1. first' \in SlotNos
    BY DEF CacheTypes
  <2>2. \A n \in SlotNos : (first' + n) % Slots \in SlotNos
    <3>1. ASSUME NEW n \in SlotNos PROVE (first' + n) % Slots \in SlotNos
      <4>1. n \in 0 .. Slots
        BY SizeTypes DEF SlotNos
      <4>2. QED BY <2>1, <4>1, SlotAfter
    <3>2. QED BY <3>1
  <2>3. QED BY <2>2 DEF Slot, NoData
<1>7. \A p \in Received' : p < x + 1 + Slots
  BY <1>2, SizeTypes
<1>8. Contents'
  BY <1>5, <1>6, <1>7 DEF Contents
<1>9. QED BY <1>4, <1>8 DEF NoneBeyond

LEMMA FirstRtp ==
    ASSUME RtpInv, OneRound, CalmNetwork, is_first, NEW p \in 0 .. sent - 1,
           Receive(p), CacheTypes'
    PROVE  Starting' /\ Running' /\ InOrder' /\ SkipsOnlyLost'
<1>1. /\ NetTypes /\ Overtaken /\ Losses /\ CacheTypes /\ Starting
      /\ sent \in Nat /\ p \in Nat /\ p < sent /\ sent <= Packets
  BY SizeTypes DEF RtpInv, NetTypes
<1>2. InSequence(p) /\ (Fresh(p) \/ Again(p))
  BY DEF Receive, Overrun, Drop, Underrun, Store
<1>3. Fresh(p)
  BY <1>1, <1>2, AgainNet DEF Starting
<1>4. NetTypes' /\ Overtaken' /\ Received' = {p}
  BY <1>1, <1>3, FreshNet DEF Starting
<1>5. /\ data' = data /\ data = NoData /\ ~is_first' /\ tries' = 0
      /\ delivered' = Append(delivered, p) /\ lost' = lost
      /\ first' = NextSlot(first)
      /\ seq' = [seq EXCEPT ![NextSlot(first)] = NextSeq(SeqOf(p))]
  BY <1>1, <1>2, <1>3 DEF InSequence, Feed, Starting, Fresh
<1>6. Expected' = p + 1
  <2>1. NextSlot(first) \in SlotNos
    BY <1>1, NextSlotIs DEF CacheTypes
  <2>2. seq'[first'] = NextSeq(SeqOf(p))
    BY <1>1, <1>5, <2>1 DEF CacheTypes
  <2>3. SeqOf(p) = FirstSeq + p
    BY <1>1, SeqOfIs, SizeTypes
  <2>4. seq'[first'] = FirstSeq + p + 1
    BY <1>1, <2>2, <2>3, NextSeqIs, SizeTypes
  <2>5. QED BY <1>1, <2>4, SizeTypes DEF Expected
<1>7. Contents' /\ NoneBeyond' /\ Waiting' = {}
  BY <1>1, <1>4, <1>5, <1>6, EmptyCache
<1>8. QED BY <1>1, <1>4, <1>5, <1>6, <1>7, Delivery

LEMMA OverrunRtp ==
    ASSUME RtpInv, OneRound, ~is_first, NEW p \in 0 .. sent - 1,
           Fresh(p), LongLoss, Expected + Slots < p, ResetTo(p), CacheTypes'
    PROVE  Starting' /\ Running' /\ InOrder' /\ SkipsOnlyLost'
<1>1. PICK e \in Nat : e = Expected
  BY Places DEF RtpInv, Running
<1>2. /\ NetTypes /\ Overtaken /\ Losses /\ CacheTypes /\ Contents
      /\ sent \in Nat /\ p \in Nat /\ p < sent /\ sent <= Packets
      /\ e + Slots < p
  BY <1>1, SizeTypes DEF RtpInv, NetTypes, Running
<1>3. NetTypes' /\ Overtaken' /\ Received' = Received \cup {p}
  BY <1>2, FreshNet
<1>4. /\ data' = NoData /\ ~is_first' /\ tries' = 0
      /\ delivered' = Append(delivered, p) /\ lost' = lost
      /\ first' = 0 /\ seq' = [seq EXCEPT ![0] = NextSeq(SeqOf(p))]
  BY DEF ResetTo, Feed, Fresh
<1>5. Expected' = p + 1
  <2>1. seq'[first'] = NextSeq(SeqOf(p))
    BY <1>2, <1>4, SizeTypes DEF CacheTypes, SlotNos
  <2>2. SeqOf(p) = FirstSeq + p
    BY <1>2, SeqOfIs, SizeTypes
  <2>3. seq'[first'] = FirstSeq + p + 1
    BY <1>2, <2>1, <2>2, NextSeqIs, SizeTypes
  <2>4. QED BY <1>2, <2>3, SizeTypes DEF Expected
<1>6. \A q \in Received' : q <= p
  <2>1. \A q \in Received : q \in Nat /\ q < e + Slots
    BY <1>1, <1>2 DEF Contents, Received
  <2>2. \A q \in Received : q <= p
    BY <1>2, <2>1, SizeTypes
  <2>3. QED BY <1>2, <1>3, <2>2
<1>7. Contents' /\ NoneBeyond' /\ Waiting' = {}
  BY <1>2, <1>3, <1>4, <1>5, <1>6, EmptyCache
<1>8. e <= p
  BY <1>2, SizeTypes
<1>9. QED BY <1>1, <1>2, <1>3, <1>4, <1>5, <1>7, <1>8, Delivery

(* The cache moves past the slot g: the slots before it are empty, and they   *)
(* come last now.                                                             *)
LEMMA SlotMoved ==
    ASSUME first \in SlotNos, NEW g \in SlotNos, first' = NextSlot(Slot(g))
    PROVE  /\ first' \in SlotNos /\ Slot(0)' = first'
           /\ \A n \in SlotNos :
                  Slot(n)' = IF g + 1 + n < Slots THEN Slot(g + 1 + n)
                                                  ELSE Slot(g + 1 + n - Slots)
<1>1. /\ Slot(g) = IF first + g < Slots THEN first + g ELSE first + g - Slots
      /\ Slot(g) \in SlotNos
  BY SlotIs
<1>2. /\ first' = IF Slot(g) + 1 < Slots THEN Slot(g) + 1 ELSE 0
      /\ first' \in SlotNos
  BY <1>1, NextSlotIs
<1>3. ASSUME NEW n \in SlotNos
      PROVE  (first' + n) % Slots = IF first' + n < Slots THEN first' + n
                                                       ELSE first' + n - Slots
  <2>1. n \in 0 .. Slots
    BY SizeTypes DEF SlotNos
  <2>2. QED BY <1>2, <2>1, SlotAfter
<1>4. ASSUME NEW n \in SlotNos
      PROVE  (first' + n) % Slots = IF g + 1 + n < Slots
                                    THEN Slot(g + 1 + n)
                                    ELSE Slot(g + 1 + n - Slots)
  <2>1. PICK f \in SlotNos : f = first'
    BY <1>2
  <2>2. (f + n) % Slots = IF f + n < Slots THEN f + n ELSE f + n - Slots
    BY <1>3, <2>1
  <2>3. CASE g + 1 + n < Slots
    <3>1. PICK m \in SlotNos : m = g + 1 + n
      BY <2>3, SizeTypes DEF SlotNos
    <3>2. Slot(m) = IF first + m < Slots THEN first + m ELSE first + m - Slots
      BY SlotIs
    <3>3. (f + n) % Slots = Slot(m)
      BY <1>1, <1>2, <2>1, <2>2, <2>3, <3>1, <3>2, SizeTypes DEF SlotNos
    <3>4. QED BY <2>1, <2>3, <3>1, <3>3
  <2>4. CASE ~(g + 1 + n < Slots)
    <3>1. PICK m \in SlotNos : m = g + 1 + n - Slots
      BY <2>4, SizeTypes DEF SlotNos
    <3>2. Slot(m) = IF first + m < Slots THEN first + m ELSE first + m - Slots
      BY SlotIs
    <3>3. (f + n) % Slots = Slot(m)
      BY <1>1, <1>2, <2>1, <2>2, <2>4, <3>1, <3>2, SizeTypes DEF SlotNos
    <3>4. QED BY <2>1, <2>4, <3>1, <3>3
  <2>5. QED BY <2>3, <2>4
<1>5. 0 \in SlotNos /\ (first' + 0) % Slots = first'
  <2>1. 0 \in SlotNos
    BY SizeTypes DEF SlotNos
  <2>2. QED BY <1>2, <1>3, <2>1, SizeTypes DEF SlotNos
<1>6. QED BY <1>2, <1>4, <1>5 DEF Slot

LEMMA ContentsMoved ==
    ASSUME CacheTypes, CacheTypes', Contents,
           NEW e \in Nat, e = Expected, NEW g \in SlotNos, NEW x \in Nat, x = e + g,
           Received \subseteq Nat, Received' = Received \cup {x},
           \A n \in SlotNos : n < g => data[Slot(n)] = Empty,
           data' = [data EXCEPT ![Slot(g)] = Empty],
           seq' = [seq EXCEPT ![NextSlot(Slot(g))] = FirstSeq + x + 1],
           first' = NextSlot(Slot(g))
    PROVE  Contents' /\ Expected' = x + 1
<1>1. /\ first \in SlotNos /\ first' \in SlotNos /\ Slot(0)' = first'
      /\ \A n \in SlotNos :
             Slot(n)' = IF g + 1 + n < Slots THEN Slot(g + 1 + n)
                                             ELSE Slot(g + 1 + n - Slots)
  BY SlotMoved DEF CacheTypes
<1>2. Expected' = x + 1
  <2>1. seq'[first'] = FirstSeq + x + 1
    BY <1>1 DEF CacheTypes
  <2>2. QED BY <2>1, SizeTypes DEF Expected
<1>3. /\ \A n \in SlotNos : Slot(n) \in SlotNos
      /\ \A m, n \in SlotNos : Slot(m) = Slot(n) => m = n
  BY <1>1, SlotIs
<1>4. /\ \A p \in Received : p < e + Slots
      /\ \A n \in SlotNos :
             data[Slot(n)] = IF e + n \in Received THEN e + n ELSE Empty
      /\ \A n \in SlotNos :
             e + n \in Received => seq[Slot(n)] = FirstSeq + e + n
  BY DEF Contents
<1>5. \A n \in SlotNos : data'[Slot(n)] = IF n = g THEN Empty ELSE data[Slot(n)]
  BY <1>3 DEF CacheTypes
<1>6. \A p \in Received' : p < (x + 1) + Slots
  BY <1>4, SizeTypes DEF SlotNos
<1>7. ASSUME NEW n \in SlotNos
      PROVE  /\ data'[Slot(n)'] = IF (x + 1) + n \in Received'
                                  THEN (x + 1) + n ELSE Empty
             /\ (x + 1) + n \in Received' =>
                    seq'[Slot(n)'] = FirstSeq + (x + 1) + n
  <2>1. (x + 1) + n \in Received' <=> (x + 1) + n \in Received
    BY DEF SlotNos
  <2>2. CASE g + 1 + n < Slots
    <3>1. PICK m \in SlotNos : m = g + 1 + n
      BY <2>2, SizeTypes DEF SlotNos
    <3>2. Slot(n)' = Slot(m) /\ m # g /\ e + m = (x + 1) + n
      BY <1>1, <2>2, <3>1, SizeTypes DEF SlotNos
    <3>3. data'[Slot(n)'] = IF e + m \in Received THEN e + m ELSE Empty
      BY <1>4, <1>5, <3>2
    <3>4. ASSUME e + m \in Received
          PROVE  seq'[Slot(n)'] = FirstSeq + (x + 1) + n
      <4>1. CASE Slot(m) = first'
        <5>1. PICK z \in SlotNos : z = 0
          BY SizeTypes DEF SlotNos
        <5>2. g + 1 < Slots
          BY <2>2, SizeTypes DEF SlotNos
        <5>3. PICK l \in SlotNos : l = g + 1
          BY <5>2, SizeTypes DEF SlotNos
        <5>4. Slot(z)' = Slot(l)
          BY <1>1, <5>1, <5>2, <5>3, SizeTypes DEF SlotNos
        <5>5. m = l
          BY <1>1, <1>3, <4>1, <5>1, <5>4
        <5>6. n = 0
          BY <3>1, <5>3, <5>5, SizeTypes DEF SlotNos
        <5>7. seq'[Slot(n)'] = FirstSeq + x + 1
          BY <1>1, <3>2, <4>1 DEF CacheTypes
        <5>8. QED BY <5>6, <5>7, SizeTypes
      <4>2. CASE Slot(m) # first'
        <5>1. seq'[Slot(m)] = seq[Slot(m)]
          BY <1>3, <4>2 DEF CacheTypes
        <5>2. seq[Slot(m)] = FirstSeq + e + m
          BY <1>4, <3>4
        <5>3. FirstSeq + e + m = FirstSeq + (x + 1) + n
          BY <3>2, SizeTypes DEF SlotNos
        <5>4. QED BY <3>2, <5>1, <5>2, <5>3
      <4>3. QED BY <4>1, <4>2
    <3>5. QED BY <2>1, <3>2, <3>3, <3>4
  <2>3. CASE ~(g + 1 + n < Slots)
    <3>1. PICK m \in SlotNos : m = g + 1 + n - Slots
      BY <2>3, SizeTypes DEF SlotNos
    <3>2. Slot(n)' = Slot(m) /\ m <= g
      BY <1>1, <2>3, <3>1, SizeTypes DEF SlotNos
    <3>3. data'[Slot(n)'] = Empty
      <4>1. m = g \/ m < g
        BY <3>2 DEF SlotNos
      <4>2. QED BY <1>5, <3>2, <4>1
    <3>4. ~((x + 1) + n < e + Slots)
      BY <2>3, SizeTypes DEF SlotNos
    <3>5. (x + 1) + n \notin Received'
      BY <1>4, <2>1, <3>4
    <3>6. QED BY <3>3, <3>5
  <2>4. QED BY <2>2, <2>3
<1>8. Contents'
  BY <1>2, <1>6, <1>7 DEF Contents
<1>9. QED BY <1>2, <1>8

(* When nothing waits before x, and x is delivered: what waits then does      *)
(* not lie beyond a loss ahead; if x + 1 is one, nothing waits.               *)
LEMMA BeyondMoved ==
    ASSUME NoneBeyond, lost' = lost, NEW e \in Nat, e = Expected,
           NEW x \in Nat, e <= x, x \notin lost, lost \subseteq Nat,
           Received \subseteq Nat, Received' = Received \cup {x},
           Expected' = x + 1
    PROVE  NoneBeyond' /\ (x + 1 \in lost' => Waiting' = {})
<1>1. Waiting' = {p \in Received' : x + 1 <= p}
  BY DEF Waiting
<1>2. \A q \in Waiting' : q \in Waiting /\ q \in Nat /\ x + 1 <= q
  BY <1>1 DEF Waiting
<1>3. x + 1 \in lost => \A q \in Waiting : q < x + 1
  BY DEF NoneBeyond
<1>4. x + 1 \in lost' => Waiting' = {}
  BY <1>2, <1>3
<1>5. \A p \in lost' : p > x + 1 => p > e
  OBVIOUS
<1>6. NoneBeyond'
  BY <1>2, <1>5 DEF NoneBeyond
<1>7. QED BY <1>4, <1>6

LEMMA InTurnRtp ==
    ASSUME RtpInv, OneRound, ~is_first, Reading, NEW p \in 0 .. sent - 1,
           p = Expected, Fresh(p), InSequence(p), CacheTypes'
    PROVE  Starting' /\ Running' /\ InOrder' /\ SkipsOnlyLost'
<1>1. /\ NetTypes /\ Overtaken /\ Losses /\ CacheTypes /\ Contents /\ NoneBeyond
      /\ sent \in Nat /\ p \in Nat /\ p < sent /\ sent <= Packets
      /\ lost \subseteq Nat /\ Received \subseteq Nat /\ first \in SlotNos
      /\ p \notin lost
  BY SizeTypes DEF RtpInv, NetTypes, Running, CacheTypes, Received, Fresh
<1>2. NetTypes' /\ Overtaken' /\ Received' = Received \cup {p}
  BY <1>1, FreshNet
<1>3. PICK g \in SlotNos : g = 0
  BY SizeTypes DEF SlotNos
<1>4. Slot(g) = first
  BY <1>1, <1>3, SlotIs
<1>5. /\ data' = data /\ ~is_first' /\ tries' = 0
      /\ delivered' = Append(delivered, p) /\ lost' = lost
      /\ first' = NextSlot(Slot(g))
      /\ seq' = [seq EXCEPT ![NextSlot(Slot(g))] = NextSeq(SeqOf(p))]
  BY <1>4 DEF InSequence, Feed, Fresh
<1>6. NextSeq(SeqOf(p)) = FirstSeq + p + 1
  BY <1>1, SeqOfIs, NextSeqIs, SizeTypes
<1>7. data' = [data EXCEPT ![Slot(g)] = Empty]
  BY <1>1, <1>4, <1>5 DEF CacheTypes, Reading
<1>8. /\ \A n \in SlotNos : n < g => data[Slot(n)] = Empty
      /\ p = p + g
  BY <1>1, <1>3 DEF SlotNos
<1>9. Contents' /\ Expected' = p + 1
  BY <1>1, <1>2, <1>5, <1>6, <1>7, <1>8, ContentsMoved
<1>10. NoneBeyond' /\ (p + 1 \in lost' => Waiting' = {})
  BY <1>1, <1>2, <1>5, <1>9, BeyondMoved
<1>11. /\ p \in Received' /\ Expected <= p
       /\ \A q \in Expected .. p - 1 : q \in lost
  BY <1>1, <1>2
<1>12. QED BY <1>1, <1>2, <1>5, <1>9, <1>10, <1>11, Delivery

-----------------------------------------------------------------------------
(* A packet ahead of the expected one, within the cache, waits.               *)

LEMMA StoreRtp ==
    ASSUME RtpInv, OneRound, ~is_first, Reading, NEW p \in 0 .. sent - 1,
           Fresh(p) \/ Again(p), Expected < p, p < Expected + Slots,
           \A r \in lost : Expected < r /\ r - 1 \notin lost => p < r,
           Store(p)
    PROVE  Starting' /\ Running' /\ InOrder' /\ SkipsOnlyLost'
<1>1. PICK e \in Nat : e = Expected /\ seq[first] = FirstSeq + e
  BY Places DEF RtpInv, Running
<1>2. /\ NetTypes /\ Overtaken /\ Losses /\ CacheTypes
      /\ Stream /\ Contents /\ Counted /\ NoneBeyond /\ InOrder /\ SkipsOnlyLost
      /\ sent \in Nat /\ sent <= Packets /\ p \in Nat /\ e < p /\ p < e + Slots
      /\ Received \subseteq Nat /\ first \in SlotNos
  BY <1>1, SizeTypes DEF RtpInv, Running, NetTypes, CacheTypes, Received
<1>3. sent' = sent /\ lost' = lost /\ bad' = bad
  BY DEF Fresh, Again
<1>4. Received' = Received \cup {p}
  BY <1>2, FreshNet, AgainNet
<1>5. PICK m \in SlotNos : m = p - e
  BY <1>2, SizeTypes DEF SlotNos
<1>6. SeqOf(p) = FirstSeq + p
  BY <1>2, SeqOfIs, SizeTypes
<1>7. (Newseq(p) + first) % Slots = Slot(m)
  <2>1. Newseq(p) = m
    BY <1>1, <1>2, <1>5, <1>6, SizeTypes DEF Newseq
  <2>2. m + first = first + m
    BY <1>2 DEF SlotNos
  <2>3. QED BY <2>1, <2>2 DEF Slot
<1>8. /\ data' = [data EXCEPT ![Slot(m)] = p]
      /\ seq' = [seq EXCEPT ![Slot(m)] = FirstSeq + p]
      /\ first' = first /\ is_first' = is_first
      /\ tries' = tries + 1 /\ delivered' = delivered
  BY <1>6, <1>7 DEF Store, TryOn
<1>9. /\ \A n \in SlotNos : Slot(n) \in SlotNos /\ Slot(n)' = Slot(n)
      /\ \A k, n \in SlotNos : Slot(k) = Slot(n) => k = n
      /\ Slot(0) = first /\ 0 \in SlotNos
  BY <1>2, <1>8, SlotIs DEF Slot
<1>10. Expected' = Expected
  <2>1. m # 0
    BY <1>2, <1>5
  <2>2. Slot(m) # first
    BY <1>9, <2>1
  <2>3. seq'[first] = seq[first]
    BY <1>2, <1>8, <2>2 DEF CacheTypes
  <2>4. QED BY <1>8, <2>3 DEF Expected
<1>11. Stream'
  BY <1>2, <1>4, <1>8, <1>10 DEF Stream
<1>12. Contents'
  <2>1. \A q \in Received' : q < e + Slots
    BY <1>1, <1>2, <1>4 DEF Contents
  <2>2. ASSUME NEW n \in SlotNos
        PROVE  /\ data'[Slot(n)] = IF e + n \in Received' THEN e + n ELSE Empty
               /\ e + n \in Received' => seq'[Slot(n)] = FirstSeq + e + n
    <3>1. CASE n = m
      <4>1. e + n = p /\ FirstSeq + p = FirstSeq + e + n
        BY <1>2, <1>5, <3>1, SizeTypes
      <4>2. data'[Slot(n)] = p /\ seq'[Slot(n)] = FirstSeq + p
        BY <1>2, <1>8, <1>9, <3>1 DEF CacheTypes
      <4>3. QED BY <1>4, <4>1, <4>2
    <3>2. CASE n # m
      <4>1. e + n # p
        BY <1>2, <1>5, <3>2 DEF SlotNos
      <4>2. data'[Slot(n)] = data[Slot(n)] /\ seq'[Slot(n)] = seq[Slot(n)]
        BY <1>2, <1>8, <1>9, <3>2 DEF CacheTypes
      <4>3. /\ data[Slot(n)] = IF e + n \in Received THEN e + n ELSE Empty
            /\ e + n \in Received => seq[Slot(n)] = FirstSeq + e + n
        BY <1>1, <1>2 DEF Contents
      <4>4. QED BY <1>4, <4>1, <4>2, <4>3
    <3>3. QED BY <3>1, <3>2
  <2>3. QED BY <1>1, <1>9, <1>10, <2>1, <2>2 DEF Contents
<1>13. Waiting' = Waiting \cup {p}
  BY <1>1, <1>2, <1>4, <1>10 DEF Waiting
<1>14. Late' = Late
  <2>1. \A q \in flight : q \in Nat
    BY <1>2 DEF NetTypes
  <2>2. flight' = flight \/ flight' = flight \ {p}
    BY DEF Fresh, Again
  <2>3. ~(p < e)
    BY <1>2
  <2>4. QED BY <1>1, <1>10, <2>1, <2>2, <2>3 DEF Late
<1>15. /\ IsFiniteSet(Waiting) /\ Cardinality(Waiting) \in Nat
       /\ Cardinality(Late) \in Nat
       /\ tries \in Nat /\ repeats \in Nat /\ bad \in Nat
  BY <1>2, SetsAreFinite, SizeTypes DEF CacheTypes, NetTypes
<1>16. Counted'
  <2>1. CASE Fresh(p)
    <3>1. p \notin Waiting
      BY <1>2, <2>1, FreshNet DEF Waiting
    <3>2. Cardinality(Waiting') = Cardinality(Waiting) + 1
      BY <1>13, <1>15, <3>1, FS_AddElement
    <3>3. repeats' = repeats
      BY <2>1 DEF Fresh
    <3>4. QED BY <1>2, <1>3, <1>8, <1>10, <1>14, <1>15, <3>2, <3>3, SizeTypes
              DEF Counted
  <2>2. CASE Again(p)
    <3>1. p \in Waiting
      BY <1>1, <1>2, <2>2, AgainNet DEF Waiting
    <3>2. Waiting' = Waiting
      BY <1>13, <3>1
    <3>3. repeats' = repeats + 1
      BY <2>2 DEF Again
    <3>4. QED BY <1>2, <1>3, <1>8, <1>10, <1>14, <1>15, <3>2, <3>3, SizeTypes
              DEF Counted
  <2>3. QED BY <2>1, <2>2
<1>17. NoneBeyond'
  BY <1>2, <1>3, <1>10, <1>13 DEF NoneBeyond
<1>18. InOrder' /\ SkipsOnlyLost'
  BY <1>2, <1>3, <1>8, DeliveredKept
<1>19. QED BY <1>8, <1>11, <1>12, <1>16, <1>17, <1>18 DEF Running, Starting

-----------------------------------------------------------------------------
(* Whatever comes: it is the first packet of all, or dropped, or the one      *)
(* expected, or waits, or has come past a loss too long for the cache.        *)

LEMMA ReceiveRtp ==
    ASSUME RtpInv, OneRound, CalmNetwork, NEW p \in 0 .. sent - 1, Receive(p),
           CacheTypes'
    PROVE  Starting' /\ Running' /\ InOrder' /\ SkipsOnlyLost'
<1>1. CASE is_first
  BY <1>1, FirstRtp
<1>2. CASE ~is_first
  <2>1. PICK e \in Nat : e = Expected /\ seq[first] = FirstSeq + e /\ e <= sent
    BY <1>2, Places DEF RtpInv, Running
  <2>2. /\ NetTypes /\ Overtaken /\ Losses /\ Stream /\ Contents
        /\ sent \in Nat /\ sent <= Packets /\ p \in Nat /\ p < sent
    BY <1>2, SizeTypes DEF RtpInv, Running, NetTypes
  <2>3. Reading /\ (Fresh(p) \/ Again(p))
    BY DEF Receive
  <2>4. SeqOf(p) = FirstSeq + p
    BY <2>2, SeqOfIs, SizeTypes
  <2>5. Newseq(p) = p - e
    BY <2>1, <2>2, <2>4, SizeTypes DEF Newseq
  <2>6. p \notin lost
    BY <2>2, <2>3 DEF Fresh, Again, NetTypes
  <2>7. CASE p < e
    <3>1. p - e > -(3 * Slots)
      <4>1. CASE Fresh(p)
        <5>1. e - 1 \in (0 .. sent - 1) \ lost
          BY <2>1, <2>2 DEF Stream, Received
        <5>2. e - 1 <= p + Displace
          BY <2>2, <4>1, <5>1 DEF Overtaken, Fresh
        <5>3. Displace < Slots
          BY CalmSizes
        <5>4. QED BY <2>1, <2>2, <5>2, <5>3, SizeTypes
      <4>2. CASE Again(p)
        BY <2>1, <2>2, <4>2, SizeTypes DEF Again, CalmNetwork
      <4>3. QED BY <2>3, <4>1, <4>2
    <3>2. TooOld(p)
      BY <2>5, <3>1 DEF TooOld
    <3>3. p - e < 0
      BY <2>2, <2>7
    <3>4. Drop(p)
      BY <1>2, <2>5, <3>2, <3>3, SizeTypes
      DEF Receive, InSequence, Overrun, Underrun, Store
    <3>5. QED BY <1>2, <2>1, <2>3, <2>7, <3>4, DropRtp
  <2>8. CASE p = e
    <3>1. p \notin Received
      BY <1>2, <2>1, <2>3, <2>8, NotReceived DEF Reading
    <3>2. Fresh(p)
      BY <2>2, <2>3, <3>1, AgainNet
    <3>3. Newseq(p) = 0
      BY <2>2, <2>5, <2>8
    <3>4. InSequence(p)
      BY <3>3, SizeTypes DEF Receive, Overrun, Drop, Underrun, Store
    <3>5. QED BY <1>2, <2>1, <2>3, <2>8, <3>2, <3>4, InTurnRtp
  <2>9. CASE e < p
    <3>1. \/ /\ p < e + Slots
             /\ \A r \in lost : e < r /\ r - 1 \notin lost => p < r
          \/ LongLoss /\ e + Slots < p /\ p \notin Received
      BY <1>2, <2>1, <2>3, <2>6, <2>9, ComesAhead
    <3>2. CASE /\ p < e + Slots
               /\ \A r \in lost : e < r /\ r - 1 \notin lost => p < r
      <4>1. Newseq(p) # 0 /\ ~(Newseq(p) < 0) /\ ~(Newseq(p) > Slots)
        BY <2>2, <2>5, <2>9, <3>2, SizeTypes
      <4>2. Store(p)
        BY <1>2, <4>1 DEF Receive, InSequence, Overrun, Drop, Underrun
      <4>3. QED BY <1>2, <2>1, <2>3, <2>9, <3>2, <4>2, StoreRtp
    <3>3. CASE LongLoss /\ e + Slots < p /\ p \notin Received
      <4>1. /\ Newseq(p) # 0 /\ ~(Newseq(p) < 0)
            /\ Newseq(p) \notin 1 .. Slots
        BY <2>2, <2>5, <2>9, <3>3, SizeTypes
      <4>2. ResetTo(p)
        BY <1>2, <4>1 DEF Receive, InSequence, Overrun, Drop, Underrun, Store
      <4>3. Fresh(p)
        BY <2>2, <2>3, <3>3, AgainNet
      <4>4. QED BY <1>2, <2>1, <3>3, <4>2, <4>3, OverrunRtp
    <3>4. QED BY <3>1, <3>2, <3>3
  <2>10. QED BY <2>2, <2>7, <2>8, <2>9
<1>3. QED BY <1>1, <1>2

-----------------------------------------------------------------------------
(* The first packet there is, is delivered past those that are lost.          *)

(* When rtp_get_next takes from an empty slot the tries have run out.         *)
LEMMA TriesRunOut ==
    ASSUME RtpInv, Take, data[first] = Empty
    PROVE  Tries <= tries /\ tries \in Nat
BY SizeTypes DEF RtpInv, CacheTypes, Take, Reading

LEMMA TriesBound ==
    ASSUME RtpInv, ~is_first
    PROVE  tries <= Cardinality(Waiting) + MaxRepeat + MaxBad + Displace
<1>1. /\ Cardinality(Late) \in Nat /\ Cardinality(Waiting) \in Nat
      /\ tries \in Nat /\ repeats \in Nat /\ bad \in Nat
      /\ repeats <= MaxRepeat /\ bad <= MaxBad
  BY SetsAreFinite, SizeTypes DEF RtpInv, CacheTypes, NetTypes
<1>2. tries + Cardinality(Late)
          <= Cardinality(Waiting) + repeats + bad + Displace
  BY DEF RtpInv, Running, Counted
<1>3. QED BY <1>1, <1>2, SizeTypes

LEMMA NotTakenFirst ==
    ASSUME RtpInv, CalmNetwork, Take
    PROVE  ~is_first
<1>1. SUFFICES ASSUME is_first PROVE FALSE
  OBVIOUS
<1>2. data[first] = Empty
  BY <1>1 DEF RtpInv, Starting, CacheTypes, NoData
<1>3. tries <= bad /\ bad \in Nat /\ bad <= MaxBad
  BY <1>1, SizeTypes DEF RtpInv, Starting, NetTypes
<1>4. QED BY <1>2, <1>3, TriesRunOut, CalmSizes, SizeTypes

(* All that waits is at the gap or behind it, and there is something.         *)
LEMMA GapWaits ==
    ASSUME RtpInv, CalmNetwork, Take
    PROVE  /\ Gap \in SlotNos /\ Expected + Gap \in Received
           /\ \A q \in Waiting : Expected + Gap <= q
<1>1. ~is_first
  BY NotTakenFirst
<1>2. PICK e \in Nat : e = Expected
  BY <1>1, Places DEF RtpInv, Running
<1>3. /\ Contents /\ first \in SlotNos /\ Received \subseteq Nat
  BY <1>1, SizeTypes DEF RtpInv, Running, CacheTypes, Received, NetTypes
<1>4. /\ Gap \in SlotNos /\ \A n \in SlotNos : n < Gap => data[Slot(n)] = Empty
      /\ data[Slot(Gap)] = Empty => \A n \in SlotNos : data[Slot(n)] = Empty
  BY <1>3, GapIs
<1>5. PICK g \in SlotNos : g = Gap
  BY <1>4
<1>6. \A n \in SlotNos : data[Slot(n)] = IF e + n \in Received THEN e + n ELSE Empty
  BY <1>2, <1>3 DEF Contents
<1>7. \A n \in SlotNos : data[Slot(n)] = Empty => e + n \notin Received
  BY <1>6 DEF SlotNos, Empty
<1>8. \A q \in Waiting :
          q \in Received /\ q \in Nat /\ q - e \in SlotNos /\ e + (q - e) = q
  <2>1. ASSUME NEW q \in Waiting
        PROVE  q \in Received /\ q \in Nat /\ q - e \in SlotNos /\ e + (q - e) = q
    <3>1. q \in Received /\ q \in Nat /\ e <= q
      BY <1>2, <1>3 DEF Waiting
    <3>2. q < e + Slots
      BY <1>2, <1>3, <3>1 DEF Contents
    <3>3. QED BY <3>1, <3>2, SizeTypes DEF SlotNos
  <2>2. QED BY <2>1
<1>9. \A q \in Waiting : data[Slot(q - e)] # Empty
  BY <1>7, <1>8
<1>10. data[Slot(g)] # Empty
  <2>1. SUFFICES ASSUME data[Slot(g)] = Empty PROVE FALSE
    OBVIOUS
  <2>2. \A n \in SlotNos : data[Slot(n)] = Empty
    BY <1>4, <1>5, <2>1
  <2>3. Waiting = {}
    BY <1>8, <1>9, <2>2
  <2>4. Cardinality(Waiting) = 0
    BY <2>3, FS_EmptySet
  <2>5. data[first] = Empty
    BY <1>3, <2>2, SlotIs
  <2>6. QED BY <1>1, <2>4, <2>5, TriesRunOut, TriesBound, CalmSizes, SizeTypes
<1>11. e + g \in Received
  BY <1>6, <1>10
<1>12. ASSUME NEW q \in Waiting PROVE e + g <= q
  <2>1. ~(q - e < g)
    BY <1>4, <1>5, <1>8, <1>9
  <2>2. QED BY <1>8, <2>1, SizeTypes DEF SlotNos
<1>13. QED BY <1>2, <1>5, <1>11, <1>12

(* What is skipped is lost: were it still under way, few would wait.          *)
LEMMA GapIsLost ==
    ASSUME RtpInv, CalmNetwork, Take,
           NEW q \in Expected .. Expected + Gap - 1
    PROVE  q \in lost
<1>1. ~is_first
  BY NotTakenFirst
<1>2. PICK e \in Nat : e = Expected
  BY <1>1, Places DEF RtpInv, Running
<1>3. PICK g \in SlotNos : g = Gap
  BY GapWaits
<1>4. /\ e + g \in Received /\ (\A r \in Waiting : e + g <= r)
      /\ first \in SlotNos /\ sent \in Nat /\ Overtaken
      /\ Received = (0 .. sent - 1) \ (flight \cup lost)
  BY <1>2, <1>3, GapWaits, SizeTypes
  DEF RtpInv, CacheTypes, NetTypes, Received
<1>5. q \in Nat /\ e <= q /\ q < e + g /\ g \in Nat
  BY <1>2, <1>3, SizeTypes DEF SlotNos
<1>6. q \in 0 .. sent - 1
  BY <1>4, <1>5
<1>7. q \notin Received
  BY <1>2, <1>4, <1>5 DEF Waiting
<1>8. q \notin flight
  <2>1. SUFFICES ASSUME q \in flight PROVE FALSE
    OBVIOUS
  <2>2. \A r \in Received : r \in Nat /\ r <= q + Displace
    BY <1>4, <2>1 DEF Overtaken
  <2>3. Waiting \in SUBSET (e + g .. q + Displace)
    <3>1. ASSUME NEW r \in Waiting PROVE r \in e + g .. q + Displace
      <4>1. r \in Nat /\ r <= q + Displace /\ e + g <= r
        BY <1>4, <2>2 DEF Waiting
      <4>2. QED BY <1>5, <4>1, SizeTypes
    <3>2. QED BY <3>1
  <2>4. /\ e + g \in Int /\ q + Displace \in Int
        /\ e + g <= (q + Displace) + 1
        /\ (q + Displace) - (e + g) + 1 <= Displace
    BY <1>4, <1>5, <2>2, SizeTypes
  <2>5. /\ Cardinality(Waiting) \in Nat
        /\ Cardinality(Waiting) <= (q + Displace) - (e + g) + 1
    BY <2>3, <2>4, Few
  <2>6. Cardinality(Waiting) <= Displace
    BY <1>5, <2>4, <2>5, SizeTypes
  <2>7. data[first] = Empty
    <3>1. 0 \in SlotNos /\ 0 < g /\ Slot(0) = first
      BY <1>4, <1>5, SlotIs
    <3>2. QED BY <1>3, <1>4, <3>1, GapIs
  <2>8. QED BY <1>1, <2>5, <2>6, <2>7, TriesRunOut, TriesBound, CalmSizes,
               SizeTypes
<1>9. QED BY <1>4, <1>6, <1>7, <1>8

LEMMA TakeRtp ==
    ASSUME RtpInv, OneRound, CalmNetwork, Take, NetTypes', Overtaken', CacheTypes'
    PROVE  Starting' /\ Running' /\ InOrder' /\ SkipsOnlyLost'
<1>1. ~is_first
  BY NotTakenFirst
<1>2. PICK e \in Nat : e = Expected
  BY <1>1, Places DEF RtpInv, Running
<1>3. PICK g \in SlotNos : g = Gap
  BY GapWaits
<1>4. PICK x \in Nat : x = e + g
  BY <1>3 DEF SlotNos
<1>5. /\ CacheTypes /\ Contents /\ NoneBeyond /\ NetTypes
      /\ Received \subseteq Nat /\ lost \subseteq Nat /\ sent \in Nat
      /\ sent <= Packets /\ first \in SlotNos
      /\ Received \subseteq 0 .. sent - 1 /\ Received \cap lost = {}
  BY <1>1, SizeTypes DEF RtpInv, Running, CacheTypes, NetTypes, Received
<1>6. x \in Received /\ x < sent /\ x \notin lost
  BY <1>2, <1>3, <1>4, <1>5, GapWaits
<1>7. data[Slot(g)] = x /\ seq[Slot(g)] = FirstSeq + x /\ x # Empty
  <2>1. data[Slot(g)] = e + g
    BY <1>2, <1>4, <1>5, <1>6 DEF Contents
  <2>2. seq[Slot(g)] = FirstSeq + e + g
    BY <1>2, <1>4, <1>5, <1>6 DEF Contents
  <2>3. FirstSeq + e + g = FirstSeq + x
    BY <1>4, SizeTypes DEF SlotNos
  <2>4. QED BY <1>4, <2>1, <2>2, <2>3 DEF Empty
<1>8. NextSeq(seq[Slot(g)]) = FirstSeq + x + 1
  BY <1>5, <1>6, <1>7, NextSeqIs, SizeTypes
<1>9. /\ data' = [data EXCEPT ![Slot(g)] = Empty]
      /\ seq' = [seq EXCEPT ![NextSlot(Slot(g))] = FirstSeq + x + 1]
      /\ first' = NextSlot(Slot(g)) /\ tries' = 0 /\ is_first' = is_first
      /\ delivered' = Append(delivered, x)
      /\ UNCHANGED <<sent, flight, lost>>
  BY <1>3, <1>7, <1>8 DEF Take, Slot, After, net
<1>10. Received' = Received \cup {x}
  BY <1>6, <1>9 DEF Received
<1>11. \A n \in SlotNos : n < g => data[Slot(n)] = Empty
  BY <1>3, <1>5, GapIs
<1>12. Contents' /\ Expected' = x + 1
  BY <1>2, <1>4, <1>5, <1>9, <1>10, <1>11, ContentsMoved
<1>13. e <= x
  BY <1>4 DEF SlotNos
<1>14. NoneBeyond' /\ (x + 1 \in lost' => Waiting' = {})
  BY <1>2, <1>5, <1>6, <1>9, <1>10, <1>12, <1>13, BeyondMoved
<1>15. \A q \in e .. x - 1 : q \in lost
  <2>1. \A y : y = e + g - 1 => y = x - 1
    BY <1>4 DEF SlotNos
  <2>2. \A q \in Expected .. Expected + Gap - 1 : q \in lost
    BY GapIsLost
  <2>3. QED BY <1>2, <1>3, <2>1, <2>2
<1>16. QED
  BY <1>1, <1>2, <1>9, <1>10, <1>12, <1>13, <1>14, <1>15, Delivery

-----------------------------------------------------------------------------
LEMMA RtpInit == Init => RtpInv
<1> SUFFICES ASSUME Init PROVE RtpInv
  OBVIOUS
<1>1. Starting
  BY DEF Init, Starting, NoData, Received
<1>2. Running
  BY DEF Init, Running
<1>3. InOrder /\ SkipsOnlyLost
  BY DEF Init, InOrder, SkipsOnlyLost
<1>4. QED BY <1>1, <1>2, <1>3, NetInit, CacheInit DEF RtpInv

LEMMA NetStep ==
    ASSUME RtpInv, [Next]_vars
    PROVE  NetTypes' /\ Overtaken' /\ Losses'
<1>1. NetTypes /\ Overtaken /\ Losses
  BY DEF RtpInv
<1>2. CASE Send
  BY <1>1, <1>2, SendNet
<1>3. ASSUME NEW n \in Bursts, Lose(n) PROVE NetTypes' /\ Overtaken' /\ Losses'
  BY <1>1, <1>3, LoseNet
<1>4. ASSUME NEW p \in 0 .. sent - 1, Receive(p)
      PROVE  NetTypes' /\ Overtaken' /\ Losses'
  BY <1>1, <1>4, FreshNet, AgainNet DEF Receive
<1>5. CASE Call \/ BadRead \/ Take \/ UNCHANGED vars
  <2>1. /\ UNCHANGED <<sent, flight, lost, repeats>>
        /\ bad' = bad \/ (bad < MaxBad /\ bad' = bad + 1)
    BY <1>5 DEF Call, BadRead, Take, vars, net
  <2>2. QED BY <1>1, <2>1, QuietNet
<1>6. QED BY <1>2, <1>3, <1>4, <1>5 DEF Next

LEMMA RtpStep ==
    ASSUME OneRound, CalmNetwork, RtpInv, [Next]_vars
    PROVE  RtpInv'
<1>1. NetTypes' /\ Overtaken' /\ Losses'
  BY NetStep
<1>2. CacheTypes'
  BY TypesStep DEF RtpInv
<1>3. Starting' /\ Running' /\ InOrder' /\ SkipsOnlyLost'
  BY <1>1, <1>2, SendRtp, LoseRtp, QuietRtp, ReceiveRtp, TakeRtp DEF Next
<1>4. QED BY <1>1, <1>2, <1>3 DEF RtpInv

THEOREM RtpAlways ==
    ASSUME OneRound, CalmNetwork
    PROVE  Spec => []RtpInv
<1>1. RtpInv /\ [Next]_vars => RtpInv'
  BY RtpStep
<1>2. QED BY <1>1, RtpInit, PTL DEF Spec

(* However the packets come, late, twice or not at all, read_rtp_from_server  *)
(* returns them in the order they were sent in and none twice: nothing that   *)
(* waits in rtpbuf is handed out again, or after a later one.                 *)
THEOREM PacketsInOrder ==
    ASSUME OneRound, CalmNetwork
    PROVE  Spec => []InOrder
<1>1. RtpInv => InOrder
  BY DEF RtpInv
<1>2. QED BY <1>1, RtpAlways, PTL

(* rtp_get_next gives no packet up that is still to come, and rtp_cache       *)
(* drops, overwrites or forgets none: what the caller misses is lost, unless  *)
(* a loss was longer than the cache.                                          *)
THEOREM OnlyLostSkipped ==
    ASSUME OneRound, CalmNetwork
    PROVE  Spec => [](SkipsOnlyLost /\ SkipsOnlyLostUnwrapped)
<1>1. RtpInv => SkipsOnlyLost
  BY DEF RtpInv
<1>2. SkipsOnlyLost => SkipsOnlyLostUnwrapped
  BY DEF SkipsOnlyLost, SkipsOnlyLostUnwrapped
<1>3. QED BY <1>1, <1>2, RtpAlways, PTL
=============================================================================
