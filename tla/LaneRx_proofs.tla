---------------------------- MODULE LaneRx_proofs ----------------------------
(***************************************************************************)
(* The receiver's promises for every number of lanes, depth of the memory  *)
(* and length of a burst, and for all skews within the aligners' reach.    *)
(*                                                                         *)
(* Arrives(l) is the byte clock after which lane l has put out its sync    *)
(* byte.  The byte aligners are told in full by it (ByteInv); the counters *)
(* of the lane aligner are the distances between the arrivals up to now    *)
(* (InBurst), and what is left of a burst in low power is one word         *)
(* (AfterBurst).                                                           *)
(***************************************************************************)
EXTENDS LaneRx, FiniteSetTheorems, TLAPS

(* The skews for which the byte aligner works.  A sync byte that lies on a   *)
(* byte boundary of the deserialiser is found one byte early, and repeated.  *)
OffBoundary == \A s \in Skews : s % 8 # 0

(* The skews for which the lane aligner works: no lane is ahead of another   *)
(* by more than the memory holds, nor by more than its four-bit counters.    *)
WithinReach ==
  /\ ALIGN_DEPTH <= 16
  /\ \A s, r \in Skews : (s \div 8) - (r \div 8) < ALIGN_DEPTH

Arrives(l) == skew[l] \div 8

ByteTypes ==
  /\ lp \in BOOLEAN /\ low \in 0..MinLow /\ t \in Nat
  /\ last_byte \in [Lanes -> Int] /\ offset \in [Lanes -> 0..7]
  /\ byte_valid \in [Lanes -> BOOLEAN] /\ byte_o \in [Lanes -> Int]
  /\ lp => \A l \in Lanes : last_byte[l] = Silence /\ ~byte_valid[l]
  /\ ~lp => low = 0 /\ skew \in [Lanes -> Skews]

(* Within a burst, what a byte aligner has found and puts out.               *)
LaneBytes(l) ==
  /\ last_byte[l] = 8 * t - skew[l]
  /\ byte_valid[l] <=> Arrives(l) < t
  /\ byte_valid[l] => /\ offset[l] = skew[l] % 8
                      /\ byte_o[l] = 8 * (t - 1 - Arrives(l))

ByteInv == ByteTypes /\ (~lp => \A l \in Lanes : LaneBytes(l))

-----------------------------------------------------------------------------
(* A skew in bytes and bits.                                                 *)
LEMMA Skewed ==
  ASSUME OffBoundary, NEW s \in Skews
  PROVE  s \in Nat /\ s = 8 * (s \div 8) + (s % 8) /\ s \div 8 \in Nat /\ s % 8 \in 1..7
<1>1. s \in Nat
  BY LaneRxAssumption
<1>2. s % 8 # 0
  BY DEF OffBoundary
<1> QED
  BY <1>1, <1>2

(* One lane's byte aligner in a burst.                                       *)
LEMMA AlignerStep ==
  ASSUME OffBoundary, ByteInv, ~lp', t' \in Nat, NEW l \in Lanes, skew'[l] \in Skews,
         (lp /\ t' = 0) \/ (~lp /\ t' = t + 1 /\ skew' = skew)
  PROVE  LET a == ByteAligner(l) IN
         /\ a.last = 8 * t' - skew'[l]
         /\ a.valid \in BOOLEAN /\ a.offset \in 0..7 /\ a.out \in Int
         /\ a.valid <=> skew'[l] \div 8 < t'
         /\ a.valid => a.offset = skew'[l] % 8 /\ a.out = 8 * (t' - 1 - skew'[l] \div 8)
<1> DEFINE a == ByteAligner(l)
           s == skew'[l]
           c == s \div 8
           r == s % 8
<1>1. s = 8 * c + r /\ c \in Nat /\ r \in 1..7 /\ s \in Nat
  BY Skewed
<1>2. /\ last_byte[l] \in Int /\ offset[l] \in 0..7 /\ byte_valid[l] \in BOOLEAN /\ byte_o[l] \in Int
      /\ t \in Nat
  BY DEF ByteInv, ByteTypes
<1>3. lp => last_byte[l] = Silence /\ ~byte_valid[l]
  BY DEF ByteInv, ByteTypes
<1>4. ~lp => /\ last_byte[l] = 8 * t - s
             /\ byte_valid[l] <=> c < t
             /\ byte_valid[l] => offset[l] = r /\ byte_o[l] = 8 * (t - 1 - c)
  BY DEF ByteInv, LaneBytes, Arrives
<1> HIDE DEF s, c, r
<1>5. CASE ~byte_valid[l] /\ FoundAt(l) # {}
  <2> DEFINE i == CHOOSE i \in FoundAt(l) : TRUE
  <2>1. i \in FoundAt(l)
    BY <1>5
  <2>2. i \in 0..7 /\ last_byte[l] + i + 1 = 0
    BY <2>1 DEF FoundAt
  <2> HIDE DEF i
  <2>3. ~lp /\ t' = t + 1
    BY <1>3, <2>2 DEF Silence
  <2>4. t <= c /\ 8 * t - s + i + 1 = 0
    BY <1>1, <1>2, <1>4, <1>5, <2>2, <2>3
  <2>5. t = c /\ i + 1 = r
    BY <1>1, <1>2, <2>2, <2>4
  <2>6. a = [last |-> 8 * t' - s, offset |-> OffsetFor(i), valid |-> TRUE, out |-> 0]
    BY <1>5 DEF ByteAligner, ByteIn, i, s
  <2>7. OffsetFor(i) = r
    BY <1>1, <2>2, <2>5 DEF OffsetFor
  <2> QED
    BY <1>1, <1>2, <2>3, <2>5, <2>6, <2>7 DEF s, c, r
<1>6. CASE ~(~byte_valid[l] /\ FoundAt(l) # {})
  <2>1. a = [last |-> 8 * t' - s, offset |-> offset[l], valid |-> byte_valid[l],
             out |-> IF byte_valid[l] THEN last_byte[l] + offset[l] ELSE byte_o[l]]
    BY <1>6 DEF ByteAligner, ByteIn, s
  <2>2. CASE byte_valid[l]
    <3>1. ~lp /\ t' = t + 1 /\ c < t /\ last_byte[l] = 8 * t - s /\ offset[l] = r
      BY <1>3, <1>4, <2>2
    <3>2. a.out = 8 * (t' - 1 - c)
      BY <1>1, <1>2, <2>1, <2>2, <3>1
    <3> QED
      BY <1>1, <1>2, <2>1, <2>2, <3>1, <3>2 DEF s, c, r
  <2>3. CASE ~byte_valid[l]
    <3>1. FoundAt(l) = {}
      BY <1>6, <2>3
    <3>2. ~lp => t < c
      <4> SUFFICES ASSUME ~lp, t = c PROVE FALSE
        BY <1>1, <1>2, <1>4, <2>3
      <4>1. r - 1 \in 0..7 /\ last_byte[l] + (r - 1) + 1 = 0
        BY <1>1, <1>2, <1>4
      <4> QED
        BY <3>1, <4>1 DEF FoundAt
    <3>3. ~(c < t')
      BY <1>1, <1>2, <3>2
    <3> QED
      BY <1>1, <1>2, <2>1, <2>3, <3>3 DEF s, c, r
  <2> QED
    BY <1>2, <2>2, <2>3
<1> QED
  BY <1>5, <1>6

(* The byte aligners of all lanes, whatever the transmitter does.            *)
LEMMA ByteStep == OffBoundary /\ ByteInv /\ ByteClock => ByteInv'
<1> SUFFICES ASSUME OffBoundary, ByteInv, ByteClock PROVE ByteInv'
  OBVIOUS
<1>1. ByteAligners /\ (Rests \/ BeginsBurst \/ Continues \/ EndsBurst)
  BY DEF ByteClock
<1>2. CASE lp'
  <2>1. \A l \in Lanes : ByteAligner(l) = [last |-> Silence, offset |-> 0, valid |-> FALSE,
                                           out |-> byte_o[l]]
    BY <1>2 DEF ByteAligner
  <2>2. Silence \in Int
    BY DEF Silence
  <2>3. low' \in 0..MinLow /\ t' \in Nat
    <3>1. low \in 0..3 /\ t \in Nat
      BY DEF ByteInv, ByteTypes, MinLow
    <3>2. (low' = IF low < 3 THEN low + 1 ELSE low) \/ low' = 1
      BY <1>1, <1>2 DEF Rests, BeginsBurst, Continues, EndsBurst, MinLow
    <3>3. t' = t \/ t' = 0
      BY <1>1, <1>2 DEF Rests, BeginsBurst, Continues, EndsBurst
    <3> QED
      BY <3>1, <3>2, <3>3 DEF MinLow
  <2>4. \A l \in Lanes : byte_o[l] \in Int
    BY DEF ByteInv, ByteTypes
  <2>5. /\ last_byte' = [l \in Lanes |-> Silence] /\ offset' = [l \in Lanes |-> 0]
        /\ byte_valid' = [l \in Lanes |-> FALSE] /\ byte_o' = [l \in Lanes |-> byte_o[l]]
    <3>1. \A l \in Lanes : /\ ByteAligner(l).last = Silence /\ ByteAligner(l).offset = 0
                           /\ ByteAligner(l).valid = FALSE /\ ByteAligner(l).out = byte_o[l]
      BY <2>1
    <3>2. last_byte' = [l \in Lanes |-> Silence]
      BY <1>1, <3>1 DEF ByteAligners
    <3>3. offset' = [l \in Lanes |-> 0]
      BY <1>1, <3>1 DEF ByteAligners
    <3>4. byte_valid' = [l \in Lanes |-> FALSE]
      BY <1>1, <3>1 DEF ByteAligners
    <3>5. byte_o' = [l \in Lanes |-> byte_o[l]]
      BY <1>1, <3>1 DEF ByteAligners
    <3> QED
      BY <3>2, <3>3, <3>4, <3>5
  <2>6. lp' \in BOOLEAN
    BY <1>1 DEF Rests, BeginsBurst, Continues, EndsBurst, ByteInv, ByteTypes
  <2> QED
    BY <1>2, <2>2, <2>3, <2>4, <2>5, <2>6 DEF ByteInv, ByteTypes
<1>3. CASE ~lp'
  <2>1. /\ t' \in Nat /\ low' = 0 /\ lp' = FALSE /\ skew' \in [Lanes -> Skews]
        /\ (lp /\ t' = 0) \/ (~lp /\ t' = t + 1 /\ skew' = skew)
    BY <1>1, <1>3 DEF Rests, BeginsBurst, Continues, EndsBurst, ByteInv, ByteTypes
  <2>2. \A l \in Lanes : LET a == ByteAligner(l) IN
           /\ a.last = 8 * t' - skew'[l]
           /\ a.valid \in BOOLEAN /\ a.offset \in 0..7 /\ a.out \in Int
           /\ a.valid <=> skew'[l] \div 8 < t'
           /\ a.valid => a.offset = skew'[l] % 8 /\ a.out = 8 * (t' - 1 - skew'[l] \div 8)
    BY <1>3, <2>1, AlignerStep
  <2>3. \A l \in Lanes : 8 * t' - skew'[l] \in Int
    <3>1. \A l \in Lanes : skew'[l] \in Skews
      BY <2>1
    <3>2. \A l \in Lanes : skew'[l] \in Nat
      BY <3>1, Skewed
    <3> QED
      BY <2>1, <3>2
  <2>4. ByteTypes'
    <3>1. last_byte' \in [Lanes -> Int]
      BY <1>1, <2>2, <2>3 DEF ByteAligners
    <3>2. offset' \in [Lanes -> 0..7] /\ byte_valid' \in [Lanes -> BOOLEAN] /\ byte_o' \in [Lanes -> Int]
      BY <1>1, <2>2 DEF ByteAligners
    <3>3. 0 \in 0..MinLow
      BY DEF MinLow
    <3> QED
      BY <2>1, <3>1, <3>2, <3>3 DEF ByteTypes
  <2>5. \A l \in Lanes : LaneBytes(l)'
    BY <1>1, <2>2 DEF ByteAligners, LaneBytes, Arrives
  <2> QED
    BY <2>4, <2>5 DEF ByteInv
<1> QED
  BY <1>2, <1>3

(* What the byte aligners know, always.                                      *)
LEMMA Bytes == ASSUME OffBoundary PROVE Spec => []ByteInv
<1>1. Init => ByteInv
  BY DEF Init, ByteInv, ByteTypes, All, MinLow, Silence
<1>2. ByteInv /\ [ByteClock]_vars => ByteInv'
  <2>1. ByteInv /\ UNCHANGED vars => ByteInv'
    BY DEF ByteInv, ByteTypes, LaneBytes, Arrives, vars, burstVars, byteVars
  <2> QED
    BY <2>1, ByteStep
<1> QED
  BY <1>1, <1>2, PTL DEF Spec

(* Once a lane is valid, its bytes follow each other on the byte boundary    *)
(* (mipi_rx_byte_aligner.v), wherever else than on a boundary of the         *)
(* deserialiser the sync byte lies.                                          *)
THEOREM BytesFollow == ASSUME OffBoundary PROVE Spec => EveryByteOnce
<1>1. ByteInv /\ [ByteClock]_vars
        => [\A l \in Lanes : byte_valid[l] /\ byte_valid'[l] => byte_o'[l] = byte_o[l] + 8]_vars
  <2> SUFFICES ASSUME ByteInv, ByteClock, NEW l \in Lanes, byte_valid[l], byte_valid'[l]
               PROVE  byte_o'[l] = byte_o[l] + 8
    OBVIOUS
  <2>1. ByteInv'
    BY ByteStep
  <2>2. ~lp /\ ~lp'
    BY <2>1 DEF ByteInv, ByteTypes
  <2>3. t' = t + 1 /\ skew' = skew /\ skew[l] \in Skews /\ t \in Nat
    BY <2>2 DEF ByteClock, Rests, BeginsBurst, Continues, EndsBurst, ByteInv, ByteTypes
  <2>4. byte_o[l] = 8 * (t - 1 - Arrives(l)) /\ byte_o'[l] = 8 * (t' - 1 - Arrives(l))
    BY <2>1, <2>2, <2>3 DEF ByteInv, LaneBytes, Arrives
  <2>5. Arrives(l) \in Nat
    BY <2>3, Skewed DEF Arrives
  <2> QED
    BY <2>3, <2>4, <2>5
<1> QED
  BY <1>1, Bytes, PTL DEF Spec, EveryByteOnce
-----------------------------------------------------------------------------
(* The clock up to which a lane has kept the others waiting.                 *)
Seen(l) == IF Arrives(l) < t THEN Arrives(l) ELSE t

LaneTypes ==
  /\ last_bytes_valid = byte_valid
  /\ sync_byte_index \in [Lanes -> 0..15] /\ last_sync \in Lanes
  /\ lane_valid \in BOOLEAN /\ together \in Nat /\ words \in Nat

(* The counters are the distances from the first lane, last_sync is one of   *)
(* the last, the words lag one clock behind, and the memory holds the bytes. *)
Counted == \E f \in Lanes : \A l \in Lanes : sync_byte_index[l] = Seen(l) - Seen(f)
Waited ==
  /\ \A l \in Lanes : Seen(l) <= Seen(last_sync)
  /\ together = t - Seen(last_sync)
  /\ lane_valid <=> together > 1
  /\ lane_valid => words = together - 1
  /\ ~lane_valid => words = 0
Remembered ==
  \A d \in 0..(ALIGN_DEPTH - 1), l \in Lanes :
    Arrives(l) + d < t => last_bytes[d][l] = 8 * (t - 1 - d - Arrives(l))
InBurst == Counted /\ Waited /\ Remembered /\ Aligned

AfterBurst ==
  /\ lane_valid => low = 1
  /\ together # 1 => words = together
  /\ Aligned

LaneInv == LaneTypes /\ (lp => AfterBurst) /\ (~lp => InBurst)

(* The last of the lanes that are late is one of them.                       *)
LEMMA LastIsLate ==
  ASSUME NEW S \in SUBSET Lanes, S # {}
  PROVE  LastSync(S) \in S
<1> DEFINE T == {LANES - l : l \in S}
           R == OpToRel(<, Nat)
<1>1. \A l \in S : l \in Nat /\ LANES - l \in Nat /\ LANES \in Nat
  BY LaneRxAssumption DEF Lanes
<1>2. T \in SUBSET Nat /\ T # {}
  BY <1>1
<1>3. PICK x \in T : \A y \in T : ~(<<y, x>> \in R)
  <2> HIDE DEF T
  <2> QED
    BY <1>2, NatLessThanWellFounded, WFMin
<1>4. \A y \in T : x <= y
  <2> TAKE y \in T
  <2> HIDE DEF T
  <2>1. x \in Nat /\ y \in Nat
    BY <1>2
  <2>2. ~(y < x)
    BY <1>3, <2>1 DEF OpToRel
  <2> QED
    BY <2>1, <2>2
<1>5. PICK m \in S : x = LANES - m
  OBVIOUS
<1>6. \A l \in S : m >= l
  <2> TAKE l \in S
  <2>1. x <= LANES - l
    BY <1>4
  <2> QED
    BY <1>1, <1>5, <2>1
<1> QED
  BY <1>5, <1>6 DEF LastSync, Max

(* What the histories count: nothing in low power, where no lane is valid.   *)
LEMMA Silenced ==
  ASSUME ByteInv', lp', History, together \in Nat
  PROVE  /\ ~SomeValid /\ together' = together
         /\ words' = words + (IF lane_valid' THEN 1 ELSE 0)
<1>1. \A l \in Lanes : byte_valid'[l] = FALSE
  BY DEF ByteInv, ByteTypes
<1>2. 0 \in Lanes
  BY LaneRxAssumption DEF Lanes
<1>3. ~(\A l \in Lanes : byte_valid'[l])
  BY <1>1, <1>2
<1> QED
  BY <1>1, <1>3 DEF SomeValid, History

(* A cleared lane aligner.                                                   *)
LEMMA Cleared ==
  ASSUME ByteInv', LaneReset, ~SomeValid
  PROVE  /\ last_bytes_valid' = byte_valid'
         /\ \A l \in Lanes : sync_byte_index'[l] = 0 /\ ~byte_valid'[l]
         /\ sync_byte_index' \in [Lanes -> 0..15] /\ last_sync' \in Lanes
         /\ lane_valid' = FALSE
<1>1. \A l \in Lanes : byte_valid'[l] = FALSE
  BY DEF SomeValid, ByteInv, ByteTypes
<1>2. byte_valid' = [l \in Lanes |-> FALSE]
  BY <1>1 DEF ByteInv, ByteTypes
<1>3. 0 \in Lanes
  BY LaneRxAssumption DEF Lanes
<1> QED
  BY <1>1, <1>2, <1>3 DEF LaneReset, All

(* What the aligner does at the end of a burst: the last word leaves it, and *)
(* a clock later there is none.                                              *)
LEMMA Drains ==
  ASSUME ByteInv', LaneTypes, LaneShift, ~SomeValid
  PROVE  /\ last_bytes_valid' = byte_valid' /\ lane_valid' = byte_valid[last_sync]
         /\ last_sync' = last_sync /\ sync_byte_index' = sync_byte_index
         /\ lane_byte' = [l \in Lanes |-> IF Delay(l) < ALIGN_DEPTH
                                          THEN last_bytes[Delay(l)][l] ELSE Silence]
<1>1. ~Waiting
  BY DEF Waiting
<1>2. \A l \in Lanes : sync_byte_index'[l] = sync_byte_index[l]
  BY <1>1 DEF LaneShift
<1> QED
  BY <1>1, <1>2 DEF LaneShift, LaneTypes, LaneValidFrom

(* Between bursts.                                                           *)
LEMMA RestKeeps ==
  ASSUME ByteInv, ByteInv', LaneInv, ByteClock, lp, lp'
  PROVE  LaneInv'
<1>1. History /\ LaneAligner /\ LaneTypes /\ AfterBurst
  BY DEF ByteClock, LaneInv
<1>2. /\ ~SomeValid /\ together' = together
      /\ words' = words + (IF lane_valid' THEN 1 ELSE 0)
  BY <1>1, Silenced DEF LaneTypes
<1>3. ~lane_valid' /\ lane_valid' \in BOOLEAN /\ last_bytes_valid' = byte_valid'
      /\ sync_byte_index' \in [Lanes -> 0..15] /\ last_sync' \in Lanes
  <2>1. CASE LaneReset
    BY <1>2, <2>1, Cleared
  <2>2. CASE LaneShift
    <3>1. byte_valid[last_sync] = FALSE
      BY <1>1 DEF LaneTypes, ByteInv, ByteTypes
    <3> QED
      BY <1>1, <1>2, <2>2, <3>1, Drains DEF LaneTypes
  <2> QED
    BY <1>1, <2>1, <2>2 DEF LaneAligner
<1>4. words' = words
  BY <1>1, <1>2, <1>3 DEF LaneTypes
<1> QED
  BY <1>1, <1>2, <1>3, <1>4 DEF LaneInv, LaneTypes, AfterBurst, Aligned

(* A burst begins with a cleared aligner.                                    *)
LEMMA BeginKeeps ==
  ASSUME OffBoundary, ByteInv, ByteInv', LaneInv, ByteClock, lp, ~lp'
  PROVE  LaneInv'
<1>1. History /\ LaneAligner /\ LaneTypes /\ AfterBurst /\ low = MinLow /\ t' = 0
  BY DEF ByteClock, LaneInv, Rests, BeginsBurst, Continues, EndsBurst
<1>2. \A l \in Lanes : skew'[l] \in Skews
  BY DEF ByteInv, ByteTypes
<1>3. \A l \in Lanes : Arrives(l)' \in Nat
  BY <1>2, Skewed DEF Arrives
<1>4. \A l \in Lanes : ~byte_valid'[l]
  BY <1>1, <1>3 DEF ByteInv, LaneBytes
<1>5. ~SomeValid /\ ~lane_valid
  BY <1>1, <1>4 DEF SomeValid, AfterBurst, MinLow
<1>6. LaneReset
  BY <1>1, <1>5 DEF LaneAligner, ClearsWhenIdle
<1>7. /\ last_bytes_valid' = byte_valid' /\ \A l \in Lanes : sync_byte_index'[l] = 0
      /\ sync_byte_index' \in [Lanes -> 0..15] /\ last_sync' \in Lanes
      /\ lane_valid' = FALSE
  BY <1>5, <1>6, Cleared
<1>8. together' = 0 /\ words' = 0
  BY <1>1 DEF History
<1>9. \A l \in Lanes : Seen(l)' = 0
  BY <1>1, <1>3 DEF Seen
<1>10. InBurst'
  <2>1. Counted'
    BY <1>7, <1>9 DEF Counted
  <2>2. Waited'
    BY <1>1, <1>7, <1>8, <1>9 DEF Waited
  <2>3. Remembered'
    <3>1. \A d \in 0..(ALIGN_DEPTH - 1), l \in Lanes : ~(Arrives(l)' + d < t')
      BY <1>1, <1>3
    <3> QED
      BY <3>1 DEF Remembered
  <2> QED
    BY <1>7, <2>1, <2>2, <2>3 DEF InBurst, Aligned
<1> QED
  BY <1>7, <1>8, <1>10 DEF LaneInv, LaneTypes
(* Arrivals and counters within a burst, as numbers.                         *)
LEMMA Numbers ==
  ASSUME OffBoundary, ByteInv, ~lp, NEW l \in Lanes
  PROVE  /\ t \in Nat /\ Arrives(l) \in Nat /\ Seen(l) \in 0..t
         /\ byte_valid[l] <=> Arrives(l) < t
         /\ byte_valid[l] <=> Seen(l) < t
         /\ byte_valid[l] => Seen(l) = Arrives(l)
         /\ ~byte_valid[l] => Seen(l) = t
<1>1. skew[l] \in Skews /\ t \in Nat
  BY DEF ByteInv, ByteTypes
<1>2. Arrives(l) \in Nat
  BY <1>1, Skewed DEF Arrives
<1>3. byte_valid[l] <=> Arrives(l) < t
  BY DEF ByteInv, LaneBytes
<1> QED
  BY <1>1, <1>2, <1>3 DEF Seen

(* The word put out once the last lane has come: of each lane the byte as    *)
(* old as the lane was early.                                                *)
LEMMA WordOut ==
  ASSUME OffBoundary, WithinReach, ByteInv, LaneTypes, InBurst, ~lp, byte_valid[last_sync],
         last_sync' = last_sync
  PROVE  \A l \in Lanes : /\ Delay(l) < ALIGN_DEPTH
                          /\ last_bytes[Delay(l)][l] = 8 * (together - 1)
<1> TAKE l \in Lanes
<1> DEFINE d == Arrives(last_sync) - Arrives(l)
<1>1. last_sync \in Lanes /\ sync_byte_index[last_sync] \in 0..15 /\ sync_byte_index[l] \in 0..15
      /\ together \in Nat
  BY DEF LaneTypes
<1>2. /\ Seen(last_sync) = Arrives(last_sync) /\ Seen(l) <= Seen(last_sync)
      /\ together = t - Arrives(last_sync) /\ Arrives(last_sync) < t
  BY <1>1, Numbers DEF InBurst, Waited
<1>3. Seen(l) = Arrives(l) /\ Arrives(l) \in Nat /\ Arrives(last_sync) \in Nat /\ t \in Nat
  BY <1>1, <1>2, Numbers
<1>4. d \in 0..(ALIGN_DEPTH - 1) /\ d \in 0..15 /\ Arrives(l) + d = Arrives(last_sync)
  <2>1. skew[l] \in Skews /\ skew[last_sync] \in Skews
    BY <1>1 DEF ByteInv, ByteTypes
  <2>2. d < ALIGN_DEPTH
    BY <2>1 DEF WithinReach, Arrives
  <2>3. ALIGN_DEPTH \in Nat /\ ALIGN_DEPTH <= 16
    BY LaneRxAssumption DEF WithinReach
  <2> QED
    BY <1>2, <1>3, <2>2, <2>3
<1>5. sync_byte_index[last_sync] - sync_byte_index[l] = d
  <2>1. PICK f \in Lanes : \A k \in Lanes : sync_byte_index[k] = Seen(k) - Seen(f)
    BY DEF InBurst, Counted
  <2>2. Seen(f) \in Nat
    BY Numbers
  <2>3. sync_byte_index[last_sync] = Seen(last_sync) - Seen(f) /\ sync_byte_index[l] = Seen(l) - Seen(f)
    BY <1>1, <2>1
  <2> QED
    BY <1>2, <1>3, <2>2, <2>3
<1> HIDE DEF d
<1>6. Delay(l) = d
  BY <1>4, <1>5 DEF Delay
<1>7. last_bytes[d][l] = 8 * (t - 1 - d - Arrives(l))
  BY <1>2, <1>4 DEF InBurst, Remembered
<1>8. t - 1 - d - Arrives(l) = together - 1
  BY <1>1, <1>2, <1>3, <1>4
<1> QED
  BY <1>4, <1>6, <1>7, <1>8, LaneRxAssumption

(* The last word of a burst, or a burst too short for one.                   *)
LEMMA EndKeeps ==
  ASSUME OffBoundary, WithinReach, ByteInv, ByteInv', LaneInv, ByteClock, ~lp, lp'
  PROVE  LaneInv'
<1>1. /\ History /\ LaneAligner /\ LaneTypes /\ InBurst
      /\ low = 0 /\ low' = 1
  BY DEF ByteClock, LaneInv, Rests, BeginsBurst, Continues, EndsBurst, ByteInv, ByteTypes
<1>2. /\ ~SomeValid /\ together' = together
      /\ words' = words + (IF lane_valid' THEN 1 ELSE 0)
  BY <1>1, Silenced DEF LaneTypes
<1>3. CASE ~lane_valid
  <2>1. LaneReset
    BY <1>1, <1>2, <1>3 DEF LaneAligner, ClearsWhenIdle, MinLow
  <2>2. /\ last_bytes_valid' = byte_valid' /\ lane_valid' = FALSE
        /\ sync_byte_index' \in [Lanes -> 0..15] /\ last_sync' \in Lanes
    BY <1>2, <2>1, Cleared
  <2>3. words' = 0 /\ together \in {0, 1}
    BY <1>1, <1>2, <1>3, <2>2 DEF InBurst, Waited, LaneTypes
  <2>4. AfterBurst'
    BY <1>2, <2>2, <2>3 DEF AfterBurst, Aligned
  <2>5. LaneTypes'
    <3>1. lane_valid' \in BOOLEAN
      BY <2>2
    <3>2. words' \in Nat /\ together' \in Nat
      BY <1>2, <2>3
    <3> QED
      BY <2>2, <3>1, <3>2 DEF LaneTypes
  <2> QED
    BY <2>4, <2>5 DEF LaneInv
<1>4. CASE lane_valid
  <2>1. LaneShift
    BY <1>1, <1>4 DEF LaneAligner, ClearsWhenIdle, MinLow
  <2>2. /\ last_bytes_valid' = byte_valid' /\ lane_valid' = byte_valid[last_sync]
        /\ last_sync' = last_sync /\ sync_byte_index' = sync_byte_index
        /\ lane_byte' = [l \in Lanes |-> IF Delay(l) < ALIGN_DEPTH
                                         THEN last_bytes[Delay(l)][l] ELSE Silence]
    BY <1>1, <1>2, <2>1, Drains
  <2>3. byte_valid[last_sync] = TRUE
    <3>1. last_sync \in Lanes /\ together = t - Seen(last_sync) /\ together > 1
      BY <1>1, <1>4 DEF InBurst, Waited, LaneTypes
    <3>2. byte_valid[last_sync]
      BY <3>1, Numbers
    <3> QED
      BY <3>1, <3>2 DEF ByteInv, ByteTypes
  <2>4. words' = together
    BY <1>1, <1>2, <1>4, <2>2, <2>3 DEF InBurst, Waited, LaneTypes
  <2>5. lane_byte' = All(8 * (words' - 1))
    BY <1>1, <2>2, <2>3, <2>4, WordOut DEF All
  <2> QED
    BY <1>1, <1>2, <2>2, <2>3, <2>4, <2>5 DEF LaneInv, LaneTypes, AfterBurst, Aligned
<1> QED
  BY <1>1, <1>3, <1>4 DEF LaneTypes
(* A byte clock within a burst on which the aligner works, told by whether   *)
(* lanes are still late.                                                     *)
LEMMA ShiftKeepsCounters ==
  ASSUME OffBoundary, WithinReach, ByteInv, ByteInv', LaneTypes, InBurst, ~lp, ~lp',
         t' = t + 1, skew' = skew, History, LaneShift, lane_valid \/ SomeValid
  PROVE  sync_byte_index' \in [Lanes -> 0..15] /\ last_sync' \in Lanes /\ Counted' /\ Waited'
<1>1. \A l \in Lanes : /\ t \in Nat /\ Arrives(l) \in Nat /\ Seen(l) \in 0..t
                       /\ byte_valid[l] <=> Arrives(l) < t
                       /\ byte_valid[l] <=> Seen(l) < t
                       /\ byte_valid[l] => Seen(l) = Arrives(l)
                       /\ ~byte_valid[l] => Seen(l) = t
  BY Numbers
<1>2. \A l \in Lanes : Arrives(l)' = Arrives(l) /\ (byte_valid'[l] <=> Arrives(l) < t + 1)
  BY DEF Arrives, ByteInv, LaneBytes
<1>3. \A l \in Lanes : Seen(l)' = IF byte_valid'[l] THEN Seen(l) ELSE t + 1
  BY <1>1, <1>2 DEF Seen
<1>4. /\ last_sync \in Lanes /\ sync_byte_index \in [Lanes -> 0..15]
      /\ \A l \in Lanes : Seen(l) <= Seen(last_sync)
      /\ together = t - Seen(last_sync) /\ (lane_valid <=> together > 1)
      /\ (lane_valid => words = together - 1) /\ (~lane_valid => words = 0)
      /\ lane_valid \in BOOLEAN
  BY DEF LaneTypes, InBurst, Waited
<1>5. lane_valid' = byte_valid[last_sync] /\ lane_valid' \in BOOLEAN
  BY <1>4 DEF LaneShift, LaneTypes, LaneValidFrom, ByteInv, ByteTypes
<1>6. /\ together' = together + (IF \A l \in Lanes : byte_valid'[l] THEN 1 ELSE 0)
      /\ words' = words + (IF lane_valid' THEN 1 ELSE 0)
  BY DEF History
<1>7. CASE Late = {}
  <2>1. \A l \in Lanes : byte_valid'[l] /\ l \notin Late
    BY <1>7 DEF Late
  <2>2. last_sync' = last_sync
    BY <1>7 DEF LaneShift
  <2>3. sync_byte_index' = sync_byte_index
    <3>1. \A l \in Lanes : sync_byte_index'[l] = sync_byte_index[l]
      BY <2>1 DEF LaneShift
    <3>2. sync_byte_index' = [l \in Lanes |-> sync_byte_index'[l]]
      BY DEF LaneShift
    <3> QED
      BY <1>4, <3>1, <3>2
  <2>4. \A l \in Lanes : Seen(l)' = Seen(l)
    BY <1>3, <2>1
  <2>5. Counted'
    BY <2>3, <2>4 DEF InBurst, Counted
  <2>6. together' = together + 1
    BY <1>6, <2>1
  <2>7. Waited'
    <3>1. lane_valid' <=> together' > 1
      BY <1>1, <1>4, <1>5, <2>6
    <3>2. (lane_valid' => words' = together' - 1) /\ (~lane_valid' => words' = 0)
      BY <1>1, <1>4, <1>5, <1>6, <2>6, <3>1
    <3>3. together' = t' - Seen(last_sync)
      BY <1>1, <1>4, <2>6
    <3> QED
      BY <1>4, <2>2, <2>4, <3>1, <3>2, <3>3 DEF Waited
  <2> QED
    BY <1>4, <2>2, <2>3, <2>5, <2>7
<1>8. CASE Late # {}
  <2>1. PICK k \in Lanes : ~byte_valid'[k]
    BY <1>8 DEF Late
  <2>2. together = 0 /\ ~lane_valid /\ words = 0
    BY <1>1, <1>2, <1>4, <2>1
  <2>3. Waiting /\ lane_valid' = FALSE
    BY <1>1, <1>4, <1>5, <2>2 DEF Waiting
  <2>4. together' = 0 /\ words' = 0
    BY <1>6, <2>1, <2>2, <2>3
  <2>5. last_sync' = LastSync(Late)
    BY <1>8, <2>3 DEF LaneShift
  <2>6. PICK n \in Lanes : last_sync' = n /\ ~byte_valid'[n]
    <3>1. Late \in SUBSET Lanes /\ \A l \in Late : ~byte_valid'[l]
      BY DEF Late
    <3> QED
      BY <1>8, <2>5, <3>1, LastIsLate
  <2>7. Waited'
    <3>1. Seen(n)' = t + 1
      BY <1>3, <2>6
    <3>2. \A l \in Lanes : Seen(l)' <= t + 1
      BY <1>1, <1>3
    <3> QED
      BY <1>1, <2>3, <2>4, <2>6, <3>1, <3>2 DEF Waited, Seen, Arrives
  <2>8. /\ \A l \in Lanes : sync_byte_index'[l] = IF byte_valid'[l] THEN sync_byte_index[l]
                                                  ELSE (sync_byte_index[l] + 1) % 16
        /\ sync_byte_index' = [l \in Lanes |-> sync_byte_index'[l]]
    BY <2>3 DEF LaneShift, Late
  <2>9. PICK f \in Lanes : \A l \in Lanes : sync_byte_index[l] = Seen(l) - Seen(f)
    BY DEF InBurst, Counted
  <2>10. PICK m \in Lanes : byte_valid'[m]
    BY <2>3 DEF Waiting, SomeValid
  <2>11. PICK g \in Lanes : byte_valid'[g] /\ Seen(g) = Seen(f)
    <3>1. CASE byte_valid'[f]
      BY <3>1
    <3>2. CASE ~byte_valid'[f]
      <4>1. Seen(f) = t /\ Seen(m) <= t
        BY <1>1, <1>2, <3>2
      <4>2. sync_byte_index[m] >= 0
        BY <1>4
      <4>3. Seen(m) = Seen(f)
        BY <1>1, <2>9, <4>1, <4>2
      <4> QED
        BY <2>10, <4>3
    <3> QED
      BY <3>1, <3>2
  <2>12. \A l \in Lanes : sync_byte_index'[l] = Seen(l)' - Seen(g)' /\ sync_byte_index'[l] \in 0..15
    <3> TAKE l \in Lanes
    <3>1. Seen(g)' = Seen(g) /\ Seen(g) = Arrives(g)
      BY <1>1, <1>2, <1>3, <2>11
    <3>2. sync_byte_index[l] = Seen(l) - Seen(g) /\ sync_byte_index[l] \in 0..15
      BY <1>4, <2>9, <2>11
    <3>3. CASE byte_valid'[l]
      BY <1>3, <2>8, <3>1, <3>2, <3>3
    <3>4. CASE ~byte_valid'[l]
      <4>1. Seen(l) = t /\ Seen(l)' = t + 1 /\ t + 1 <= Arrives(l)
        BY <1>1, <1>2, <1>3, <3>4
      <4>2. Arrives(l) - Arrives(g) < 16
        <5>1. skew[l] \in Skews /\ skew[g] \in Skews
          BY DEF ByteInv, ByteTypes
        <5>2. Arrives(l) - Arrives(g) < ALIGN_DEPTH
          BY <5>1 DEF WithinReach, Arrives
        <5> QED
          BY <1>1, <5>2, LaneRxAssumption DEF WithinReach
      <4>3. sync_byte_index[l] + 1 < 16
        BY <1>1, <3>1, <3>2, <4>1, <4>2
      <4>4. sync_byte_index'[l] = sync_byte_index[l] + 1
        BY <2>8, <3>2, <3>4, <4>3
      <4> QED
        BY <1>1, <3>1, <3>2, <4>1, <4>3, <4>4
    <3> QED
      BY <3>3, <3>4
  <2>13. Counted'
    BY <2>12 DEF Counted
  <2>14. sync_byte_index' \in [Lanes -> 0..15]
    BY <2>8, <2>12
  <2> QED
    BY <2>6, <2>7, <2>13, <2>14
<1> QED
  BY <1>7, <1>8

(* A byte clock within a burst.                                              *)
LEMMA ContinueKeeps ==
  ASSUME OffBoundary, WithinReach, ByteInv, ByteInv', LaneInv, ByteClock, ~lp, ~lp'
  PROVE  LaneInv'
<1>1. /\ History /\ LaneAligner /\ LaneTypes /\ InBurst
      /\ t' = t + 1 /\ skew' = skew /\ low = 0
  BY DEF ByteClock, LaneInv, Rests, BeginsBurst, Continues, EndsBurst, ByteInv, ByteTypes
<1>2. \A l \in Lanes : /\ Arrives(l) \in Nat /\ Arrives(l)' = Arrives(l)
                       /\ byte_valid'[l] <=> Arrives(l) < t'
                       /\ t \in Nat
  BY <1>1, Numbers DEF Arrives, ByteInv, LaneBytes
<1>3. t \in Nat /\ together \in Nat /\ words \in Nat
  BY <1>1 DEF LaneTypes, ByteInv, ByteTypes
<1>4. together' \in Nat /\ words' \in Nat
  BY <1>1, <1>3 DEF History
<1>5. CASE ~lane_valid /\ ~SomeValid
  <2>1. LaneReset
    BY <1>1, <1>5 DEF LaneAligner, ClearsWhenIdle
  <2>2. /\ last_bytes_valid' = byte_valid'
        /\ \A l \in Lanes : sync_byte_index'[l] = 0 /\ ~byte_valid'[l]
        /\ sync_byte_index' \in [Lanes -> 0..15] /\ last_sync' \in Lanes
        /\ lane_valid' = FALSE
    BY <1>5, <2>1, Cleared
  <2>3. \A l \in Lanes : Seen(l)' = t' /\ Arrives(l)' >= t'
    BY <1>1, <1>2, <2>2 DEF Seen
  <2>4. together' = 0 /\ words' = 0
    <3>1. last_sync \in Lanes /\ together = t - Seen(last_sync) /\ words = 0
      BY <1>1, <1>5 DEF LaneTypes, InBurst, Waited
    <3>2. Seen(last_sync) = t
      BY <1>1, <1>2, <2>2, <3>1, Numbers
    <3>3. ~(\A l \in Lanes : byte_valid'[l])
      BY <2>2
    <3> QED
      BY <1>1, <1>3, <2>2, <3>1, <3>2, <3>3 DEF History
  <2>5. Counted' /\ Aligned'
    BY <1>1, <1>3, <2>2, <2>3 DEF Counted, Aligned
  <2>6. Waited'
    BY <1>1, <1>3, <2>2, <2>3, <2>4 DEF Waited
  <2>7. Remembered'
    <3>1. \A d \in 0..(ALIGN_DEPTH - 1), l \in Lanes : ~(Arrives(l)' + d < t')
      BY <1>1, <1>2, <2>3
    <3> QED
      BY <3>1 DEF Remembered
  <2> QED
    BY <1>4, <2>2, <2>5, <2>6, <2>7 DEF LaneInv, LaneTypes, InBurst
<1>6. CASE lane_valid \/ SomeValid
  <2>1. LaneShift
    BY <1>1, <1>6 DEF LaneAligner, ClearsWhenIdle
  <2>2. sync_byte_index' \in [Lanes -> 0..15] /\ last_sync' \in Lanes /\ Counted' /\ Waited'
    BY <1>1, <1>6, <2>1, ShiftKeepsCounters
  <2>3. last_sync \in Lanes /\ lane_valid' = byte_valid[last_sync] /\ lane_valid' \in BOOLEAN
        /\ last_bytes_valid' = byte_valid'
    BY <1>1, <2>1 DEF LaneShift, LaneTypes, LaneValidFrom, ByteInv, ByteTypes
  <2>4. Remembered'
    <3>1. \A l \in Lanes : byte_valid'[l] => byte_o'[l] = 8 * (t' - 1 - Arrives(l))
      BY <1>2 DEF ByteInv, LaneBytes
    <3>2. ASSUME NEW d \in 0..(ALIGN_DEPTH - 1), NEW l \in Lanes, Arrives(l) + d < t'
          PROVE  last_bytes'[d][l] = 8 * (t' - 1 - d - Arrives(l))
      <4>1. CASE d = 0
        <5>1. last_bytes'[d] = byte_o'
          BY <2>1, <4>1 DEF LaneShift
        <5> QED
          BY <1>1, <1>2, <1>3, <3>1, <3>2, <4>1, <5>1
      <4>2. CASE d # 0
        <5>1. last_bytes'[d] = last_bytes[d - 1]
          BY <2>1, <4>2 DEF LaneShift
        <5>2. d - 1 \in 0..(ALIGN_DEPTH - 1) /\ Arrives(l) + (d - 1) < t
          BY <1>1, <1>2, <1>3, <3>2, <4>2, LaneRxAssumption
        <5>3. last_bytes[d - 1][l] = 8 * (t - 1 - (d - 1) - Arrives(l))
          BY <1>1, <5>2 DEF InBurst, Remembered
        <5>4. t' - 1 - d - Arrives(l) = t - 1 - (d - 1) - Arrives(l)
          BY <1>1, <1>2, <1>3, <3>2
        <5> QED
          BY <5>1, <5>3, <5>4
      <4> QED
        BY <4>1, <4>2
    <3> QED
      BY <1>2, <3>2 DEF Remembered
  <2>5. Aligned'
    <3> SUFFICES ASSUME lane_valid' PROVE lane_byte' = All(8 * (words' - 1))
      BY DEF Aligned
    <3>1. \A l \in Lanes : byte_valid[l] /\ byte_valid'[l]
      <4>1. Seen(last_sync) < t
        BY <1>1, <2>3, Numbers
      <4>2. \A l \in Lanes : Seen(l) <= Seen(last_sync)
        BY <1>1 DEF InBurst, Waited
      <4> QED
        BY <1>1, <1>2, <1>3, <2>3, <4>1, <4>2, Numbers
    <3>2. last_sync' = last_sync
      BY <2>1, <3>1 DEF LaneShift, Late
    <3>3. words' = together /\ together' = together + 1
      BY <1>1, <1>3, <1>4, <2>2, <3>1 DEF Waited, History
    <3>4. lane_byte' = [l \in Lanes |-> IF Delay(l) < ALIGN_DEPTH
                                        THEN last_bytes[Delay(l)][l] ELSE Silence]
      BY <2>1 DEF LaneShift
    <3> QED
      BY <1>1, <2>3, <3>2, <3>3, <3>4, WordOut DEF All
  <2> QED
    BY <1>4, <2>2, <2>3, <2>4, <2>5 DEF LaneInv, LaneTypes, InBurst
<1> QED
  BY <1>5, <1>6

-----------------------------------------------------------------------------
(* What the lane aligner knows, always.                                      *)
LEMMA Invariance == ASSUME OffBoundary, WithinReach PROVE Spec => [](ByteInv /\ LaneInv)
<1>1. Init => LaneInv
  <2> SUFFICES ASSUME Init PROVE LaneInv
    OBVIOUS
  <2>1. 0 \in Lanes
    BY LaneRxAssumption DEF Lanes
  <2>2. LaneTypes
    <3>1. last_bytes_valid = byte_valid /\ sync_byte_index \in [Lanes -> 0..15]
      BY DEF Init, All
    <3>2. lane_valid \in BOOLEAN
      BY DEF Init
    <3> QED
      BY <2>1, <3>1, <3>2 DEF Init, LaneTypes
  <2> QED
    BY <2>2 DEF Init, LaneInv, AfterBurst, Aligned
<1>2. ByteInv /\ ByteInv' /\ LaneInv /\ [ByteClock]_vars => LaneInv'
  <2>1. LaneInv /\ UNCHANGED vars => LaneInv'
    BY DEF LaneInv, LaneTypes, AfterBurst, InBurst, Counted, Waited, Remembered, Seen, Arrives,
           Aligned, vars, burstVars, byteVars, laneVars
  <2> QED
    BY <2>1, RestKeeps, BeginKeeps, EndKeeps, ContinueKeeps
<1> QED
  BY <1>1, <1>2, Bytes, PTL DEF Spec

(* mipi_rx_lane_aligner: the bytes that leave together belong together, for  *)
(* every number of lanes and all skews within reach.                         *)
THEOREM LanesTogether == ASSUME OffBoundary, WithinReach PROVE Spec => []Aligned
<1>1. LaneInv => Aligned
  BY DEF LaneInv, InBurst, AfterBurst
<1> QED
  BY <1>1, Invariance, PTL

(* No word of a burst is cut off at its start or end.                        *)
THEOREM Uncut == ASSUME OffBoundary, WithinReach PROVE Spec => []NothingCut
<1>1. LaneInv => NothingCut
  BY DEF LaneInv, AfterBurst, NothingCut
<1> QED
  BY <1>1, Invariance, PTL
=============================================================================
