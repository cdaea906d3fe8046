------------------------------- MODULE LaneRx -------------------------------
(***************************************************************************)
(* The MIPI receiver of the FPGA up to the aligned byte stream: one byte   *)
(* aligner per data lane (mipi_rx_byte_aligner.v) finds the sync byte in   *)
(* the deserialised bits of its lane, and the lane aligner                 *)
(* (mipi_rx_lane_aligner.v) delays the early lanes so that bytes with the  *)
(* same number leave together.  mipi_bridge.v connects them.               *)
(*                                                                         *)
(* Data is abstracted to positions: a byte is the position of its first    *)
(* bit, counted in bits from the sync byte of its lane, so byte k of a     *)
(* lane is 8 * k and whatever is not on a byte boundary is wrong.  Before  *)
(* the sync byte a lane is silent (HS-0).  A step is one byte clock: the   *)
(* byte aligners work at its falling edge, the lane aligner at the rising  *)
(* edge that follows and sees what they have just put out.                 *)
(***************************************************************************)
EXTENDS Integers, FiniteSets, FiniteSetsExt

CONSTANTS
  LANES,         \* data lanes, numbered from 0
  ALIGN_DEPTH,   \* bytes the lane aligner remembers of each lane
  Skews,         \* possible delays of a lane's sync byte, in bits
  MaxBytes       \* bound: byte clocks in one high-speed burst

ASSUME LaneRxAssumption ==
  /\ LANES \in Nat \ {0} /\ ALIGN_DEPTH \in Nat \ {0}
  /\ Skews \subseteq 1..900 /\ MaxBytes \in Nat

Lanes == 0..(LANES - 1)

VARIABLES
  lp,        \* data lane 0 is in low-power state: resets the byte aligners
  low,       \* byte clocks spent in low power, counted up to MinLow
  skew,      \* delay of each lane in the current burst, 0 between bursts
  t,         \* byte clock within the burst
  \* byte aligners, one entry per lane
  last_byte, offset, byte_valid, byte_o,
  \* lane aligner
  last_bytes, last_bytes_valid, sync_byte_index, last_sync,
  lane_valid, lane_byte,
  \* history of the burst
  together,  \* byte clocks in which every lane was valid
  words      \* words put out

burstVars == <<lp, low, skew, t>>
byteVars  == <<last_byte, offset, byte_valid, byte_o>>
laneVars  == <<last_bytes, last_bytes_valid, sync_byte_index, last_sync,
               lane_valid, lane_byte>>
vars == <<burstVars, byteVars, laneVars, together, words>>

(* The lanes stay in low power between bursts for at least this many byte   *)
(* clocks (the D-PHY asks for more than 100 ns).                            *)
MinLow == 3

Silence == -1000   \* the position of a byte long before any sync byte
All(v) == [l \in Lanes |-> v]

Init ==
  /\ lp = TRUE /\ low = MinLow /\ t = 0
  /\ skew = All(0)
  /\ last_byte = All(Silence) /\ offset = All(0)
  /\ byte_valid = All(FALSE) /\ byte_o = All(Silence)
  /\ last_bytes = [d \in 0..(ALIGN_DEPTH - 1) |-> All(Silence)]
  /\ last_bytes_valid = All(FALSE) /\ sync_byte_index = All(0)
  /\ last_sync = 0 /\ lane_valid = FALSE /\ lane_byte = All(Silence)
  /\ together = 0 /\ words = 0

-----------------------------------------------------------------------------
(* The transmitter.                                                          *)

Rests ==
  /\ lp /\ lp' = TRUE
  /\ low' = IF low < MinLow THEN low + 1 ELSE low
  /\ UNCHANGED <<skew, t>>

BeginsBurst ==
  /\ lp /\ low = MinLow
  /\ lp' = FALSE /\ low' = 0 /\ t' = 0
  /\ skew' \in [Lanes -> Skews]

Continues ==
  /\ ~lp /\ t < MaxBytes
  /\ t' = t + 1
  /\ UNCHANGED <<lp, low, skew>>

EndsBurst ==
  /\ ~lp /\ lp' = TRUE /\ low' = 1
  /\ skew' = All(0) /\ t' = 0

(* The position of the deserialised byte of a lane.                          *)
ByteIn(l) == 8 * t' - skew'[l]

-----------------------------------------------------------------------------
(* mipi_rx_byte_aligner: the sync byte is looked for at 8 places of the two  *)
(* last bytes; the place is kept in three bits.                              *)

FoundAt(l) == {i \in 0..7 : last_byte[l] + i + 1 = 0}

OffsetForTooSmall(i) == i
OffsetFor(i) == (i + 1) % 8

ByteAligner(l) ==
  IF lp' THEN [last |-> Silence, offset |-> 0, valid |-> FALSE, out |-> byte_o[l]]
  ELSE IF ~byte_valid[l] /\ FoundAt(l) # {}
  THEN LET i == CHOOSE i \in FoundAt(l) : TRUE
       IN [last |-> ByteIn(l), offset |-> OffsetFor(i), valid |-> TRUE, out |-> 0]
  ELSE [last |-> ByteIn(l), offset |-> offset[l], valid |-> byte_valid[l],
        out |-> IF byte_valid[l] THEN last_byte[l] + offset[l] ELSE byte_o[l]]

ByteAligners ==
  /\ last_byte'  = [l \in Lanes |-> ByteAligner(l).last]
  /\ offset'     = [l \in Lanes |-> ByteAligner(l).offset]
  /\ byte_valid' = [l \in Lanes |-> ByteAligner(l).valid]
  /\ byte_o'     = [l \in Lanes |-> ByteAligner(l).out]

-----------------------------------------------------------------------------
(* mipi_rx_lane_aligner.                                                     *)

SomeValid == \E l \in Lanes : byte_valid'[l]
Late == {l \in Lanes : ~byte_valid'[l]}

(* Without the reset input, the aligner clears itself when it is idle.       *)
ClearsWhenIdleNever == FALSE
ClearsWhenIdle == ~lane_valid /\ ~SomeValid

LaneReset ==
  /\ last_bytes' = [d \in 0..(ALIGN_DEPTH - 1) |-> All(Silence)]
  /\ last_bytes_valid' = All(FALSE) /\ sync_byte_index' = All(0)
  /\ last_sync' = 0 /\ lane_valid' = FALSE /\ lane_byte' = All(Silence)

(* The lane that has kept the others waiting: the loop leaves the last of    *)
(* the lanes that are still late.                                            *)
LastSync(late) == Max(late)

(* lane_valid_o is one clock behind the lane that came last.                 *)
LaneValidFromAny(valid) == \E l \in Lanes : valid[l]
LaneValidFrom(valid) == valid[last_sync]

Waiting == ~lane_valid /\ SomeValid

(* How far back the byte of a lane lies; the counters have four bits, and    *)
(* what lies further back than the memory is not data.                       *)
Delay(l) == (sync_byte_index[last_sync'] - sync_byte_index[l]) % 16

LaneShift ==
  /\ last_bytes' = [d \in 0..(ALIGN_DEPTH - 1) |->
                      IF d = 0 THEN byte_o' ELSE last_bytes[d - 1]]
  /\ last_bytes_valid' = byte_valid'
  /\ lane_valid' = LaneValidFrom(last_bytes_valid)
  /\ last_sync' = IF Waiting /\ Late # {} THEN LastSync(Late) ELSE last_sync
  /\ sync_byte_index' = [l \in Lanes |-> IF Waiting /\ l \in Late
                                         THEN (sync_byte_index[l] + 1) % 16
                                         ELSE sync_byte_index[l]]
  /\ lane_byte' = [l \in Lanes |-> IF Delay(l) < ALIGN_DEPTH
                                   THEN last_bytes[Delay(l)][l] ELSE Silence]

(* The reset input follows the clock lane, which goes to low power, if it    *)
(* does, some time after the data lanes (TCLK-POST).                         *)
LaneAligner ==
  \/ low = MinLow /\ lp' /\ LaneReset
  \/ IF ClearsWhenIdle THEN LaneReset ELSE LaneShift

-----------------------------------------------------------------------------
History ==
  /\ together' = IF ~lp' /\ lp THEN 0
                 ELSE together + (IF \A l \in Lanes : byte_valid'[l] THEN 1 ELSE 0)
  /\ words' = IF ~lp' /\ lp THEN 0 ELSE words + (IF lane_valid' THEN 1 ELSE 0)

ByteClock ==
  /\ Rests \/ BeginsBurst \/ Continues \/ EndsBurst
  /\ ByteAligners /\ LaneAligner /\ History

Spec == Init /\ [][ByteClock]_vars

-----------------------------------------------------------------------------
(* What leaves the lane aligner is, from the first valid clock on, the sync  *)
(* bytes of all lanes together, then their first bytes together, and so on,  *)
(* whichever lane came first, last or in between.                            *)
Aligned == lane_valid => lane_byte = All(8 * (words - 1))

(* Nothing is cut off at either end of a burst: there are as many words as   *)
(* there were clocks in which all lanes had a byte, and none if one lane     *)
(* never came.  (A burst is at least a sync byte and a packet header long:   *)
(* a single common clock would be lost.)                                     *)
NothingCut == lp /\ low = MinLow /\ together # 1 => words = together

(* "start outputting correct bytes" (mipi_rx_byte_aligner.v:16): once a lane *)
(* is valid its bytes follow each other on the byte boundary, none twice.    *)
EveryByteOnce ==
  [][\A l \in Lanes : byte_valid[l] /\ byte_valid'[l]
                         => byte_o'[l] = byte_o[l] + 8]_vars
=============================================================================
