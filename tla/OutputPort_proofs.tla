-------------------------- MODULE OutputPort_proofs --------------------------
(***************************************************************************)
(* What holds of the pixel path and of the port behind it for lines of any *)
(* length that fits a line RAM and frames of any number of lines.          *)
(*                                                                         *)
(* The invariant follows the data.  DecoderInv ties the decoder to the     *)
(* sensor, DepackerInv the depacker's counters to the number of the word   *)
(* (five words make four groups, with one clock in five empty), TurnInv    *)
(* and StoredInv the four RAMs to the lines, and these four hold with no   *)
(* hypothesis.  CountInv, ReadInv and ShownInv tie the filter's            *)
(* two registers to the groups stored and to what was read from the RAMs   *)
(* one and two clocks ago; they need CounterLasts, for a line_counter of   *)
(* twelve bits that wraps stops the output.  Shape, Order and Amount tie   *)
(* the port's two output clocks to the converter.                          *)
(***************************************************************************)
EXTENDS OutputPort, TLAPS

(* A line whose header has been read and whose payload has not started: the  *)
(* RAMs have not been turned for it.                                         *)
Fresh == phase = "payload" /\ left = words
Current == IF Fresh THEN line - 1 ELSE line

(* The sensor and the packet decoder keep in step.                           *)
DecoderInv ==
  /\ phase \in {"gap", "header", "payload", "footer", "trail"}
  /\ words \in LineWords /\ left \in Nat /\ frame \in Nat
  /\ line \in Nat /\ line <= MaxLines
  /\ decoded_valid \in BOOLEAN
  /\ phase = "header" => last_data = "SYNC"
  /\ phase = "payload" => left \in 1..words /\ line > 0
  /\ phase = "footer" => left = 0 /\ line > 0
  /\ packet_length_reg = IF phase = "payload" THEN LANES * left ELSE 0
  /\ decoded_valid <=> phase = "footer" \/ (phase = "payload" /\ left < words)
  /\ decoded_valid => decoded = words - left - 1

(* The depacker and the address: byte_count is the place of the last word in *)
(* its pack of five, and line_address counts the groups of the words before. *)
DepackerInv ==
  /\ unpacked_valid \in BOOLEAN /\ line_address \in 0..(ADDRESSES - 1)
  /\ ~decoded_valid => byte_count = 0 /\ offset = 0 /\ ~unpacked_valid /\ line_address = 0
  /\ decoded_valid =>
       /\ last_word = decoded /\ byte_count \in 1..5
       /\ byte_count = 1 => 4 * decoded = 5 * line_address /\ offset = 0 /\ ~unpacked_valid
       /\ byte_count # 1 => /\ 4 * decoded = 5 * line_address + 6 - byte_count
                            /\ offset = (byte_count - 1) % 4 /\ unpacked_valid
  /\ PixelsInPlace

(* The RAMs have been turned once for each line, and of the last four lines  *)
(* of the frame they hold all that has left the depacker.                    *)
TurnInv ==
  write_ram = (3 + Current) % 4 /\ read_ram_index = (1 + Current) % 4

Total == IF decoded_valid THEN line_address ELSE Groups(words)
Stored(l, a) ==
  /\ l >= 1 /\ l <= Current /\ l + 3 >= Current
  /\ a < Groups(words) /\ (l = Current => a < Total)
StoredInv ==
  /\ ram \in [Rams -> [0..(ADDRESSES - 1) -> Nat \X Nat \X Nat]]
  /\ \A l, a \in Nat : Stored(l, a) => ram[(3 + l) % 4][a] = At(l, a)

-----------------------------------------------------------------------------
(* The constants as numbers.                                                 *)
LEMMA Sizes ==
  ASSUME NEW n \in LineWords
  PROVE  /\ n \in Nat \ {0} /\ 2^WIDTH \in Nat /\ 4 * n < 2^WIDTH
         /\ ADDRESSES \in Nat \ {0} /\ 4 * n <= 5 * ADDRESSES
BY PixelPathAssumption DEF LANES, BYTES_PERPACK

(* A remainder that is none.                                                 *)
LEMMA Small ==
  ASSUME NEW n \in Nat, NEW k \in 0..(n - 1)
  PROVE  k % n = k
OBVIOUS

(* What a line counter of twelve bits asks of the sensor.                    *)
CounterLasts == MaxLines < 4096

(* The filter: line_counter is the line, and shown follows the groups that   *)
(* are written by one while a group waits in data_valid_reg.                 *)
CountInv ==
  /\ line_counter = Current
  /\ data_valid_reg \in BOOLEAN /\ output_valid \in BOOLEAN /\ shown \in Nat
  /\ phase = "gap" => ~data_valid_reg
  /\ phase = "header" \/ Fresh => ~data_valid_reg /\ ~output_valid
  /\ Current <= 2 => ~data_valid_reg /\ ~output_valid /\ shown = 0
  /\ Current > 2 => /\ data_valid_reg => shown + 1 = Total
                    /\ ~data_valid_reg => shown = Total

(* What has been read: of the lines that there are, the same place of each,  *)
(* and while a group waits it is the group's own place.  What the filter     *)
(* keeps from the clock before is from some place of the line.               *)
Real == {row \in Rows : row + line > 2}
Holds(outputs, n) ==
  \A row \in Real : outputs[(read_ram_index + row) % 4] = At(line - 2 + row, n)

ReadInv ==
  /\ last_ram_outputs = RAM_out
  /\ data_valid_reg => Holds(RAM_out, shown)
  /\ unpacked_valid => \E n \in Nat : Holds(RAM_out, n)
  /\ data_valid_reg => \E n \in Nat : Holds(last_ram_outputs_stage2, n)

(* What is put out.                                                          *)
Puts(outputs, n) == \A row \in Real : outputs[row] = At(line - 2 + row, n)
ShownInv ==
  output_valid =>
    /\ line > 2 /\ shown > 0
    /\ Puts(output.here, shown - 1)
    /\ shown < Groups(words) => Puts(output.after, shown)
    /\ \E n \in Nat : Puts(output.before, n)
    /\ output.even <=> line % 2 = 0

(* The decoder's length counts down without wrapping.                        *)
LEMMA CountsDown ==
  ASSUME DecoderInv, phase = "payload"
  PROVE  /\ packet_length_reg = 4 * left /\ packet_length_reg # 0
         /\ (packet_length_reg - LANES) % 2^WIDTH = 4 * (left - 1)
<1> DEFINE P == 2^WIDTH
<1>1. words \in Nat /\ P \in Nat /\ 4 * words < P /\ left \in 1..words
      /\ packet_length_reg = 4 * left
  BY Sizes DEF DecoderInv, LANES
<1> HIDE DEF P
<1>2. packet_length_reg - LANES = 4 * (left - 1) /\ 4 * (left - 1) \in 0..(P - 1)
  BY <1>1 DEF LANES
<1>3. (4 * (left - 1)) % P = 4 * (left - 1)
  BY <1>1, <1>2, Small
<1> QED
  BY <1>1, <1>2, <1>3 DEF P

(* What the sensor sends.                                                    *)
LEMMA Fields ==
  /\ Silent.valid = FALSE
  /\ \A tag, id : /\ Word(tag, id).valid = TRUE /\ Word(tag, id).first = tag /\ Word(tag, id).id = id
                  /\ \A n : LET w == [Word(tag, id) EXCEPT !.len = n] IN
                       w.valid = TRUE /\ w.first = tag /\ w.id = id /\ w.len = n
BY DEF Silent, Word

(* Sensor and decoder stay in step.                                          *)
LEMMA DecoderKeeps == DecoderInv /\ Next => DecoderInv'
<1> SUFFICES ASSUME DecoderInv, Next PROVE DecoderInv'
  OBVIOUS
<1>1. /\ words \in LineWords /\ words \in Nat \ {0} /\ left \in Nat /\ frame \in Nat /\ line \in Nat
  BY Sizes DEF DecoderInv
<1>2. CASE Pause
  <2>1. packet_length_reg' = 0 /\ decoded_valid' = FALSE
    BY <1>2, Fields DEF Pause, ByteClock, PacketDecoder, NextLength, DecoderInv
  <2> QED
    BY <1>1, <1>2, <2>1 DEF Pause, DecoderInv
<1>3. CASE Sync
  <2>1. packet_length_reg' = 0 /\ decoded_valid' = FALSE /\ last_data' = "SYNC"
    BY <1>3, Fields DEF Sync, ByteClock, PacketDecoder, NextLength, DecoderInv
  <2> QED
    BY <1>1, <1>3, <2>1 DEF Sync, DecoderInv
<1>4. CASE LineHeader
  <2>1. packet_length_reg' = LANES * words /\ decoded_valid' = FALSE
    BY <1>4, Fields DEF LineHeader, ByteClock, PacketDecoder, NextLength, DecoderInv
  <2>2. /\ phase' = "payload" /\ left' = words /\ line' = line + 1
        /\ words' = words /\ frame' = frame
    BY <1>4 DEF LineHeader
  <2>3. decoded_valid' \in BOOLEAN
    BY <2>1
  <2>4. left' \in 1..words' /\ line' > 0 /\ line' \in Nat /\ line' <= MaxLines
    BY <1>1, <1>4, <2>2, PixelPathAssumption DEF LineHeader
  <2> QED
    BY <1>1, <2>1, <2>2, <2>3, <2>4 DEF DecoderInv
<1>5. CASE ShortPacket
  <2>1. packet_length_reg' = 0 /\ decoded_valid' = FALSE
    BY <1>5, Fields DEF ShortPacket, ByteClock, PacketDecoder, NextLength, DecoderInv
  <2> QED
    BY <1>1, <1>5, <2>1 DEF ShortPacket, DecoderInv
<1>6. CASE Payload
  <2>1. packet_length_reg' = 4 * (left - 1) /\ decoded_valid' = TRUE /\ decoded' = words - left
    <3>1. PICK tag : PacketDecoder(Word(tag, words - left))
      BY <1>6 DEF Payload, ByteClock
    <3>2. phase = "payload"
      BY <1>6 DEF Payload
    <3>3. packet_length_reg # 0 /\ (packet_length_reg - LANES) % 2^WIDTH = 4 * (left - 1)
      BY <3>2, CountsDown
    <3>4. /\ decoded' = words - left /\ decoded_valid' = (packet_length_reg # 0)
          /\ packet_length_reg' = NextLength(Word(tag, words - left))
      BY <3>1, Fields DEF PacketDecoder
    <3> QED
      BY <3>3, <3>4 DEF NextLength
  <2>2. /\ phase = "payload" /\ left' = left - 1 /\ left \in 1..words /\ line > 0
        /\ phase' = (IF left = 1 THEN "footer" ELSE "payload")
        /\ words' = words /\ frame' = frame /\ line' = line
    BY <1>6 DEF Payload, DecoderInv
  <2> QED
    BY <1>1, <2>1, <2>2 DEF DecoderInv, LANES
<1>7. CASE Footer
  <2>1. packet_length_reg' = 0 /\ decoded_valid' = FALSE
    <3>1. packet_length_reg = 0 /\ PacketDecoder(Word("DATA", NoWord))
      BY <1>7 DEF Footer, ByteClock, DecoderInv
    <3>2. decoded_valid' = (packet_length_reg # 0)
      BY <3>1, Fields DEF PacketDecoder
    <3>3. packet_length_reg' = 0
      BY <3>1, Fields DEF PacketDecoder, NextLength
    <3> QED
      BY <3>1, <3>2, <3>3
  <2> QED
    BY <1>1, <1>7, <2>1 DEF Footer, DecoderInv
<1>8. CASE Trail
  <2>1. packet_length_reg' = 0 /\ decoded_valid' = FALSE
    BY <1>8, Fields DEF Trail, ByteClock, PacketDecoder, NextLength, DecoderInv
  <2> QED
    BY <1>1, <1>8, <2>1 DEF Trail, sensorVars, DecoderInv
<1>9. CASE NewFrame
  BY <1>1, <1>9, PixelPathAssumption DEF NewFrame, decoderVars, DecoderInv
<1> QED
  BY <1>2, <1>3, <1>4, <1>5, <1>6, <1>7, <1>8, <1>9 DEF Next, Clocked

(* A byte clock in terms of the decoder's output, whatever the sensor does.  *)
LEMMA ClockSummary ==
  ASSUME DecoderInv, DecoderInv', Clocked
  PROVE  /\ \E w : ByteClock(w)
         /\ words' = words /\ frame' = frame
         /\ decoded_valid => Current = line /\ line' = line /\ decoded \in 0..(words - 1)
         /\ decoded_valid' => Current' = line /\ line' = line
         /\ decoded_valid /\ decoded_valid' => decoded' = decoded + 1
         /\ decoded_valid /\ ~decoded_valid' => decoded = words - 1 /\ phase' = "trail"
         /\ ~decoded_valid /\ decoded_valid' => decoded' = 0 /\ Fresh /\ Current' = Current + 1
         /\ ~(~decoded_valid /\ decoded_valid') => Current' = Current
         /\ phase' = "gap" => phase \in {"gap", "trail"} /\ ~decoded_valid /\ line' = line
         /\ phase' = "header" => phase = "gap"
         /\ phase # "header" => line' = line
         /\ Fresh' => phase = "header"
<1>1. words \in Nat \ {0} /\ left \in Nat /\ line \in Nat
  BY Sizes DEF DecoderInv
<1>2. CASE Pause
  BY <1>1, <1>2 DEF Pause, DecoderInv, Current, Fresh
<1>3. CASE Sync
  BY <1>1, <1>3 DEF Sync, DecoderInv, Current, Fresh
<1>4. CASE LineHeader
  BY <1>1, <1>4 DEF LineHeader, DecoderInv, Current, Fresh
<1>5. CASE ShortPacket
  BY <1>1, <1>5 DEF ShortPacket, DecoderInv, Current, Fresh
<1>6. CASE Payload
  BY <1>1, <1>6 DEF Payload, DecoderInv, Current, Fresh
<1>7. CASE Footer
  BY <1>1, <1>7 DEF Footer, DecoderInv, Current, Fresh
<1>8. CASE Trail
  BY <1>1, <1>8 DEF Trail, sensorVars, DecoderInv, Current, Fresh
<1> QED
  BY <1>2, <1>3, <1>4, <1>5, <1>6, <1>7, <1>8 DEF Clocked
-----------------------------------------------------------------------------
(* A word that continues a line: what the depacker makes of it, and that the *)
(* address does not wrap.                                                    *)
LEMMA NextWord ==
  ASSUME DecoderInv, DecoderInv', DepackerInv, Depacker, line_address' = NextAddress,
         decoded_valid, decoded_valid', decoded' = decoded + 1, words' = words
  PROVE  DepackerInv' /\ line_address' = IF unpacked_valid THEN line_address + 1 ELSE line_address
<1>1. /\ words \in Nat /\ decoded' \in 1..(words - 1) /\ 4 * words <= 5 * ADDRESSES
      /\ ADDRESSES \in Nat \ {0} /\ decoded \in Nat
  BY Sizes DEF DecoderInv
<1>2. /\ byte_count \in 1..5 /\ line_address \in 0..(ADDRESSES - 1) /\ last_word = decoded
      /\ byte_count = 1 => 4 * decoded = 5 * line_address /\ offset = 0 /\ ~unpacked_valid
      /\ byte_count # 1 => /\ 4 * decoded = 5 * line_address + 6 - byte_count
                           /\ offset = (byte_count - 1) % 4 /\ unpacked_valid
  BY DEF DepackerInv
<1>3. /\ last_word' = decoded'
      /\ unpacked' = [j \in 1..BYTES_PERPACK |-> ByteAt(offset + j - 1)]
      /\ byte_count < 5 => /\ byte_count' = byte_count + 1 /\ offset' = (offset + 1) % 4
                           /\ unpacked_valid'
      /\ byte_count = 5 => byte_count' = 1 /\ offset' = 0 /\ ~unpacked_valid'
      /\ unpacked_valid' \in BOOLEAN
  <2>1. unpacked_valid' = (byte_count < 5 /\ (byte_count # 0 \/ unpacked_valid))
    BY DEF Depacker, WithinPack, BYTES_PERPACK
  <2>2. /\ last_word' = decoded'
        /\ unpacked' = [j \in 1..BYTES_PERPACK |-> ByteAt(offset + j - 1)]
        /\ byte_count < 5 => byte_count' = byte_count + 1 /\ offset' = (offset + 1) % 4
        /\ byte_count = 5 => byte_count' = 1 /\ offset' = 0
    BY <1>2 DEF Depacker, WithinPack, BYTES_PERPACK, LANES
  <2>3. (byte_count < 5 => unpacked_valid') /\ (byte_count = 5 => ~unpacked_valid')
    <3>1. (byte_count < 5 => byte_count # 0) /\ (byte_count = 5 => ~(byte_count < 5))
      BY <1>2
    <3> QED
      BY <2>1, <3>1, Zenon
  <2> QED
    BY <2>1, <2>2, <2>3
<1>4. line_address' = IF byte_count = 1 THEN line_address ELSE line_address + 1
  <2>1. CASE byte_count = 1
    BY <1>2, <2>1 DEF NextAddress
  <2>2. CASE byte_count # 1
    <3>1. line_address' = (line_address + 1) % ADDRESSES
      BY <1>2, <2>2 DEF NextAddress
    <3>2. 5 * line_address + 5 <= 4 * decoded + 4
      BY <1>1, <1>2, <2>2
    <3>3. 5 * (line_address + 1) < 5 * ADDRESSES
      BY <1>1, <1>2, <3>2
    <3>4. line_address + 1 \in 0..(ADDRESSES - 1)
      BY <1>1, <1>2, <3>3
    <3> HIDE DEF NextAddress
    <3> QED
      BY <1>1, <2>2, <3>1, <3>4, Small
  <2> QED
    BY <2>1, <2>2
<1>5. line_address' \in 0..(ADDRESSES - 1)
  <2>1. 5 * line_address' <= 4 * decoded'
    BY <1>1, <1>2, <1>4
  <2>2. 5 * line_address' < 5 * ADDRESSES
    BY <1>1, <1>2, <1>4, <2>1
  <2> QED
    BY <1>1, <1>2, <1>4, <2>2
<1>6. byte_count = 5 => DepackerInv'
  <2> SUFFICES ASSUME byte_count = 5 PROVE DepackerInv'
    OBVIOUS
  <2>1. /\ byte_count' = 1 /\ offset' = 0 /\ ~unpacked_valid'
        /\ 4 * decoded' = 5 * line_address'
    BY <1>1, <1>2, <1>3, <1>4
  <2> QED
    BY <1>3, <1>5, <2>1 DEF DepackerInv, PixelsInPlace
<1>7. byte_count < 5 => DepackerInv'
  <2> SUFFICES ASSUME byte_count < 5 PROVE DepackerInv'
    OBVIOUS
  <2>1. offset = byte_count - 1
    BY <1>2
  <2>2. /\ byte_count' \in 2..5 /\ 4 * decoded' = 5 * line_address' + 6 - byte_count'
        /\ offset' = (byte_count' - 1) % 4
    BY <1>1, <1>2, <1>3, <1>4, <2>1
  <2>3. \A j \in 1..5 : unpacked'[j] = 5 * line_address' + j - 1
    <3> TAKE j \in 1..5
    <3>1. unpacked'[j] = ByteAt(offset + j - 1)
      BY <1>3 DEF BYTES_PERPACK
    <3>2. ByteAt(offset + j - 1) = 4 * decoded + offset + j - 1
      BY <1>1, <1>2, <2>1 DEF ByteAt, LANES
    <3>3. 4 * decoded + offset = 5 * line_address'
      BY <1>1, <1>2, <1>4, <2>1
    <3> QED
      BY <1>1, <1>2, <1>5, <2>1, <3>1, <3>2, <3>3
  <2>4. PixelsInPlace'
    BY <2>3 DEF PixelsInPlace, BYTES_PERPACK
  <2>5. unpacked_valid' /\ unpacked_valid' \in BOOLEAN /\ last_word' = decoded'
    BY <1>3
  <2> QED
    BY <1>5, <2>2, <2>4, <2>5 DEF DepackerInv
<1>8. line_address' = IF unpacked_valid THEN line_address + 1 ELSE line_address
  BY <1>2, <1>4
<1>9. byte_count = 5 \/ byte_count < 5
  BY <1>2
<1> QED
  BY <1>6, <1>7, <1>8, <1>9

(* The depacker's counters and the address stay in step.                     *)
LEMMA DepackerKeeps == DecoderInv /\ DecoderInv' /\ DepackerInv /\ Next => DepackerInv'
<1> SUFFICES ASSUME DecoderInv, DecoderInv', DepackerInv, Next PROVE DepackerInv'
  OBVIOUS
<1>1. CASE NewFrame
  <2>1. ~decoded_valid /\ ADDRESSES \in Nat \ {0}
    BY <1>1, PixelPathAssumption DEF NewFrame, DecoderInv
  <2> QED
    BY <1>1, <2>1 DEF NewFrame, FilterReset, decoderVars, depackVars, DepackerInv, PixelsInPlace
<1>2. CASE Clocked
  <2>1. /\ Depacker /\ line_address' = NextAddress /\ words' = words
        /\ decoded_valid /\ decoded_valid' => decoded' = decoded + 1
        /\ ~decoded_valid /\ decoded_valid' => decoded' = 0
    BY <1>2, ClockSummary DEF ByteClock, Filter
  <2>2. ADDRESSES \in Nat \ {0}
    BY PixelPathAssumption
  <2>3. CASE ~decoded_valid'
    <3>1. byte_count' = 0 /\ offset' = 0 /\ unpacked_valid' = FALSE /\ line_address' = 0
      BY <2>1, <2>3 DEF Depacker, NextAddress
    <3>2. unpacked_valid' \in BOOLEAN /\ ~unpacked_valid'
      BY <3>1
    <3>3. 0 \in 0..(ADDRESSES - 1)
      BY <2>2
    <3> QED
      BY <2>3, <3>1, <3>2, <3>3 DEF DepackerInv, PixelsInPlace
  <2>4. CASE decoded_valid' /\ ~decoded_valid
    <3>1. byte_count = 0 /\ offset = 0 /\ ~unpacked_valid /\ line_address = 0 /\ decoded' = 0
      BY <2>1, <2>4 DEF DepackerInv
    <3>2. unpacked_valid' = (byte_count < 5 /\ (byte_count # 0 \/ unpacked_valid))
      BY <2>1, <2>4 DEF Depacker, WithinPack, BYTES_PERPACK
    <3>3. unpacked_valid' \in BOOLEAN /\ ~unpacked_valid'
      BY <3>1, <3>2
    <3>4. last_word' = decoded' /\ byte_count' = 1 /\ offset' = 0
      BY <2>1, <2>4, <3>1 DEF Depacker, WithinPack, BYTES_PERPACK
    <3>5. line_address' = 0
      BY <2>1, <2>4, <3>1 DEF NextAddress
    <3> QED
      BY <2>2, <2>4, <3>1, <3>3, <3>4, <3>5 DEF DepackerInv, PixelsInPlace
  <2>5. CASE decoded_valid' /\ decoded_valid
    BY <2>1, <2>5, NextWord
  <2> QED
    BY <2>3, <2>4, <2>5
<1> QED
  BY <1>1, <1>2 DEF Next

-----------------------------------------------------------------------------
(* The groups of a line: those counted so far, and all of them.              *)
LEMMA GroupsCounted ==
  ASSUME DecoderInv, DepackerInv
  PROVE  /\ Groups(words) \in 0..ADDRESSES /\ Total \in 0..Groups(words)
         /\ unpacked_valid => decoded_valid /\ Total = line_address /\ line_address < Groups(words)
         /\ decoded_valid /\ decoded = words - 1
              => Groups(words) = IF unpacked_valid THEN line_address + 1 ELSE line_address
<1>1. words \in Nat /\ 4 * words <= 5 * ADDRESSES /\ ADDRESSES \in Nat
  BY Sizes DEF DecoderInv
<1>2. Groups(words) = (4 * words) \div 5
  BY DEF Groups, LANES, BYTES_PERPACK
<1>3. Groups(words) \in 0..ADDRESSES
  BY <1>1, <1>2
<1>4. CASE ~decoded_valid
  BY <1>3, <1>4 DEF DepackerInv, Total
<1>5. CASE decoded_valid
  <2>1. /\ byte_count \in 1..5 /\ line_address \in Nat /\ decoded \in 0..(words - 1)
        /\ byte_count = 1 => 4 * decoded = 5 * line_address /\ ~unpacked_valid
        /\ byte_count # 1 => 4 * decoded = 5 * line_address + 6 - byte_count /\ unpacked_valid
    BY <1>1, <1>5 DEF DecoderInv, DepackerInv
  <2>2. CASE byte_count = 1
    <3>1. 5 * line_address + 4 <= 4 * words
      BY <1>1, <2>1, <2>2
    <3>2. line_address <= Groups(words) /\ (decoded = words - 1 => Groups(words) = line_address)
      BY <1>1, <1>2, <2>1, <2>2, <3>1
    <3> QED
      BY <1>3, <1>5, <2>1, <2>2, <3>2 DEF Total
  <2>3. CASE byte_count # 1
    <3>1. 5 * line_address + 5 <= 4 * words
      BY <1>1, <2>1, <2>3
    <3>2. line_address + 1 <= Groups(words) /\ (decoded = words - 1 => Groups(words) = line_address + 1)
      BY <1>1, <1>2, <2>1, <2>3, <3>1
    <3> QED
      BY <1>3, <1>5, <2>1, <2>3, <3>2 DEF Total
  <2> QED
    BY <2>2, <2>3
<1> QED
  BY <1>4, <1>5

(* The count is a number.                                                    *)
LEMMA TotalNat ==
  ASSUME DecoderInv, DepackerInv
  PROVE  Total \in Nat /\ Groups(words) \in Nat
<1>1. Groups(words) \in 0..ADDRESSES /\ Total \in 0..Groups(words) /\ ADDRESSES \in Nat
  BY GroupsCounted, PixelPathAssumption
<1> QED
  BY <1>1

(* A byte clock counts the group that is written to RAM.                     *)
LEMMA TotalStep ==
  ASSUME DecoderInv, DecoderInv', DepackerInv, Clocked
  PROVE  /\ ~decoded_valid /\ decoded_valid' => Total' = 0 /\ ~unpacked_valid
         /\ ~(~decoded_valid /\ decoded_valid')
              => Total' = IF unpacked_valid THEN Total + 1 ELSE Total
<1>1. /\ Depacker /\ line_address' = NextAddress /\ words' = words
      /\ decoded_valid /\ decoded_valid' => decoded' = decoded + 1
      /\ decoded_valid /\ ~decoded_valid' => decoded = words - 1
  BY ClockSummary DEF ByteClock, Filter
<1>2. CASE ~decoded_valid /\ decoded_valid'
  BY <1>1, <1>2 DEF NextAddress, DepackerInv, Total
<1>3. CASE decoded_valid /\ decoded_valid'
  BY <1>1, <1>3, NextWord DEF Total
<1>4. CASE decoded_valid /\ ~decoded_valid'
  <2>1. Total' = Groups(words) /\ Total = line_address
    BY <1>1, <1>4 DEF Total, Groups
  <2> QED
    BY <1>1, <1>4, <2>1, GroupsCounted
<1>5. CASE ~decoded_valid /\ ~decoded_valid'
  BY <1>1, <1>5 DEF Total, Groups, DepackerInv
<1> QED
  BY <1>2, <1>3, <1>4, <1>5 DEF DecoderInv

(* The RAMs take turns.                                                      *)
LEMMA Turns ==
  ASSUME NEW l \in Nat, NEW c \in Nat, l < c, c <= l + 3
  PROVE  (3 + l) % 4 # (3 + c) % 4
OBVIOUS

(* Lines are counted from one.                                               *)
LEMMA CurrentNat == DecoderInv => Current \in Nat /\ Current <= line
<1> SUFFICES ASSUME DecoderInv PROVE Current \in Nat /\ Current <= line
  OBVIOUS
<1>1. line \in Nat /\ (Fresh => line > 0)
  BY DEF DecoderInv, Fresh
<1> QED
  BY <1>1 DEF Current

(* And so after a step.                                                      *)
LEMMA CurrentNatNext == DecoderInv' => Current' \in Nat /\ Current' <= line'
<1> SUFFICES ASSUME DecoderInv' PROVE Current' \in Nat /\ Current' <= line'
  OBVIOUS
<1>1. line' \in Nat /\ (Fresh' => line' > 0)
  BY DEF DecoderInv, Fresh
<1>2. CASE Fresh'
  <2>1. Current' = line' - 1
    BY <1>2 DEF Current
  <2>2. line' \in Nat /\ line' > 0
    BY <1>1, <1>2, Zenon
  <2>3. \A n \in Nat : n > 0 => n - 1 \in Nat /\ n - 1 <= n
    OBVIOUS
  <2>4. line' - 1 \in Nat /\ line' - 1 <= line'
    BY <2>2, <2>3
  <2> QED
    BY <2>1, <2>4
<1>3. CASE ~Fresh'
  <2>1. Current' = line'
    BY <1>3 DEF Current
  <2> QED
    BY <1>1, <2>1
<1> QED
  BY <1>2, <1>3

(* The RAMs turn with the lines.                                             *)
LEMMA TurnKeeps == DecoderInv /\ DecoderInv' /\ TurnInv /\ Next => TurnInv'
<1> SUFFICES ASSUME DecoderInv, DecoderInv', TurnInv, Next PROVE TurnInv'
  OBVIOUS
<1>1. CASE NewFrame
  <2>1. Current' = 0
    BY <1>1 DEF NewFrame, Current, Fresh
  <2> QED
    BY <1>1, <2>1 DEF NewFrame, FilterReset, TurnInv
<1>2. CASE Clocked
  <2>1. StartLine /\ Current \in Nat
    <3>1. PICK w : ByteClock(w)
      BY <1>2, ClockSummary
    <3> QED
      BY <3>1, CurrentNat DEF ByteClock
  <2>2. CASE LineStarts
    <3>1. Current' = Current + 1
      BY <1>2, <2>2, ClockSummary DEF LineStarts
    <3>2. write_ram' = (write_ram + 1) % 4 /\ read_ram_index' = (read_ram_index + 1) % 4
      BY <2>1, <2>2 DEF StartLine, TurnRams, NextRam
    <3> QED
      BY <2>1, <3>1, <3>2 DEF TurnInv
  <2>3. CASE ~LineStarts
    <3>1. Current' = Current
      BY <1>2, <2>3, ClockSummary DEF LineStarts
    <3> QED
      BY <2>1, <2>3, <3>1 DEF StartLine, TurnInv
  <2> QED
    BY <2>2, <2>3
<1> QED
  BY <1>1, <1>2 DEF Next

(* What is stored stays until its RAM's turn comes again.                    *)
LEMMA StoredKeeps ==
  DecoderInv /\ DecoderInv' /\ DepackerInv /\ TurnInv /\ StoredInv /\ Next => StoredInv'
<1> SUFFICES ASSUME DecoderInv, DecoderInv', DepackerInv, TurnInv, StoredInv, Next PROVE StoredInv'
  OBVIOUS
<1>1. CASE NewFrame
  <2>1. Current' = 0 /\ ram' = ram
    BY <1>1 DEF NewFrame, Current, Fresh, ramVars
  <2>2. \A l, a \in Nat : ~Stored(l, a)'
    BY <2>1 DEF Stored
  <2> QED
    BY <2>1, <2>2 DEF StoredInv
<1>2. CASE Clocked
  <2>1. /\ LineRams /\ frame' = frame /\ frame \in Nat /\ line \in Nat
        /\ Current \in Nat /\ Groups(words)' = Groups(words)
        /\ decoded_valid => Current = line
    <3>1. PICK w : ByteClock(w)
      BY <1>2, ClockSummary
    <3>2. LineRams
      BY <3>1 DEF ByteClock
    <3>3. words' = words /\ frame' = frame /\ (decoded_valid => Current = line)
      BY <1>2, ClockSummary
    <3> QED
      BY <3>2, <3>3, CurrentNat DEF DecoderInv, Groups
  <2>2. \A l, a : At(l, a)' = At(l, a)
    BY <2>1 DEF At
  <2>3. ADDRESSES \in Nat \ {0} /\ Groups(words) \in 0..ADDRESSES /\ Total \in 0..Groups(words)
        /\ line_address \in 0..(ADDRESSES - 1)
        /\ (unpacked_valid => decoded_valid /\ Total = line_address /\ line_address < Groups(words))
    BY GroupsCounted, PixelPathAssumption DEF DepackerInv
  <2>4. CASE ~unpacked_valid
    <3>1. ram' = ram
      BY <2>1, <2>4 DEF LineRams
    <3>2. \A l, a \in Nat : Stored(l, a)' => Stored(l, a)
      <4>1. CASE LineStarts
        <5>1. Current' = Current + 1 /\ Total' = 0 /\ Total = Groups(words)
          BY <1>2, <4>1, ClockSummary, TotalStep DEF LineStarts, Total
        <5> QED
          BY <2>1, <2>3, <5>1 DEF Stored
      <4>2. CASE ~LineStarts
        <5>1. Current' = Current /\ Total' = Total
          BY <1>2, <2>4, <4>2, ClockSummary, TotalStep DEF LineStarts
        <5> QED
          BY <2>1, <5>1 DEF Stored
      <4> QED
        BY <4>1, <4>2
    <3> QED
      BY <2>2, <3>1, <3>2 DEF StoredInv
  <2>5. CASE unpacked_valid
    <3>1. ~LineStarts /\ Current' = Current /\ Total' = Total + 1 /\ Current = line
      BY <1>2, <2>1, <2>3, <2>5, ClockSummary, TotalStep DEF LineStarts
    <3>2. unpacked[1] = 5 * line_address
      <4>1. \A j \in 1..5 : unpacked[j] = 5 * line_address + j - 1
        BY <2>5 DEF DepackerInv, PixelsInPlace, BYTES_PERPACK
      <4>2. unpacked[1] = 5 * line_address + 1 - 1
        BY <4>1
      <4> QED
        BY <2>3, <4>2
    <3>3. ram' = [ram EXCEPT ![write_ram][line_address] = At(line, line_address)]
      BY <2>1, <2>5, <3>2 DEF LineRams, BYTES_PERPACK, At
    <3>4. write_ram = (3 + line) % 4 /\ write_ram \in Rams
      BY <2>1, <3>1 DEF TurnInv, Rams
    <3>5. At(line, line_address) \in Nat \X Nat \X Nat
      BY <2>1, <2>3 DEF At, BYTES_PERPACK
    <3>6. ram \in [Rams -> [0..(ADDRESSES - 1) -> Nat \X Nat \X Nat]]
      BY DEF StoredInv
    <3>7. ram' \in [Rams -> [0..(ADDRESSES - 1) -> Nat \X Nat \X Nat]]
      BY <2>3, <3>3, <3>4, <3>5, <3>6
    <3>8. ASSUME NEW l \in Nat, NEW a \in Nat, Stored(l, a)'
          PROVE  ram'[(3 + l) % 4][a] = At(l, a)
      <4>1. /\ l >= 1 /\ l <= line /\ l + 3 >= line /\ a < Groups(words)
            /\ l = line => a < line_address + 1
            /\ a \in 0..(ADDRESSES - 1) /\ (3 + l) % 4 \in Rams
        BY <2>1, <2>3, <2>5, <3>1, <3>8 DEF Stored, Rams
      <4>2. CASE l = line /\ a = line_address
        BY <2>3, <3>3, <3>4, <3>6, <4>1, <4>2
      <4>3. CASE ~(l = line /\ a = line_address)
        <5>1. Stored(l, a)
          BY <2>3, <2>5, <3>1, <4>1, <4>3 DEF Stored
        <5>2. ram[(3 + l) % 4][a] = At(l, a)
          BY <5>1 DEF StoredInv
        <5>3. l # line => (3 + l) % 4 # write_ram
          BY <2>1, <3>4, <4>1, Turns
        <5> QED
          BY <2>3, <3>3, <3>4, <3>6, <4>1, <4>3, <5>2, <5>3
      <4> QED
        BY <4>2, <4>3
    <3> QED
      BY <2>2, <3>7, <3>8 DEF StoredInv
  <2> QED
    BY <2>4, <2>5
<1> QED
  BY <1>1, <1>2 DEF Next

(* The line counter counts the lines, and the filter works from the third on. *)
LEMMA FilterStep ==
  ASSUME CounterLasts, DecoderInv, DecoderInv', line_counter = Current, Clocked
  PROVE  /\ line_counter' = Current'
         /\ Current' > 2 => /\ data_valid_reg' = unpacked_valid /\ output_valid' = data_valid_reg
                            /\ output' = Window
         /\ Current' <= 2 => UNCHANGED <<data_valid_reg, output_valid, output>>
         /\ shown' = (IF LineStarts THEN 0 ELSE shown) + (IF output_valid' THEN 1 ELSE 0)
<1>1. PICK w : ByteClock(w)
  BY ClockSummary
<1>2. StartLine /\ Filter
  BY <1>1 DEF ByteClock
<1>3. line_counter' = Current'
  <2>1. Current' \in Nat /\ Current' < 4096
    <3>1. MaxLines \in Nat /\ MaxLines < 4096
      BY PixelPathAssumption DEF CounterLasts
    <3>2. line' \in Nat /\ line' <= MaxLines
      BY DEF DecoderInv
    <3>3. Current' \in Nat /\ Current' <= line'
      BY CurrentNatNext
    <3> QED
      BY <3>1, <3>2, <3>3
  <2>2. CASE LineStarts
    <3>1. Current' = Current + 1 /\ Current \in Nat
      BY <2>2, ClockSummary, CurrentNat DEF LineStarts
    <3>2. line_counter' = (Current + 1) % 2^12
      BY <1>2, <2>2 DEF StartLine, TurnRams
    <3>3. 2^12 = 4096
      OBVIOUS
    <3> QED
      BY <2>1, <3>1, <3>2, <3>3
  <2>3. CASE ~LineStarts
    BY <1>2, <2>3, ClockSummary DEF LineStarts, StartLine
  <2> QED
    BY <2>2, <2>3
<1>4. Current' \in Nat
  BY CurrentNatNext
<1> QED
  BY <1>2, <1>3, <1>4 DEF Filter, EnoughLines

(* As many groups are put out as are written.                                *)
LEMMA CountKeeps ==
  CounterLasts /\ DecoderInv /\ DecoderInv' /\ DepackerInv /\ CountInv /\ Next => CountInv'
<1> SUFFICES ASSUME CounterLasts, DecoderInv, DecoderInv', DepackerInv, CountInv, Next
             PROVE  CountInv'
  OBVIOUS
<1>1. CASE NewFrame
  <2>1. /\ Current' = 0 /\ line_counter' = 0 /\ shown' = 0
        /\ data_valid_reg' = FALSE /\ output_valid' = FALSE
    BY <1>1 DEF NewFrame, FilterReset, LineCounterAtReset, Current, Fresh
  <2>2. /\ data_valid_reg' \in BOOLEAN /\ output_valid' \in BOOLEAN
        /\ ~data_valid_reg' /\ ~output_valid'
    BY <2>1
  <2> QED
    BY <2>1, <2>2 DEF CountInv
<1>2. CASE Clocked
  <2>1. /\ unpacked_valid \in BOOLEAN /\ (~decoded_valid => ~unpacked_valid)
        /\ data_valid_reg \in BOOLEAN /\ output_valid \in BOOLEAN /\ shown \in Nat
        /\ (Fresh => ~data_valid_reg) /\ (phase = "gap" => ~data_valid_reg)
    BY DEF DepackerInv, CountInv
  <2>2. Current \in Nat /\ Current' \in Nat /\ Total \in Nat /\ line_counter' = Current'
    BY <1>2, CurrentNat, CurrentNatNext, TotalNat, FilterStep DEF CountInv
  <2>3. shown' = (IF LineStarts THEN 0 ELSE shown) + (IF output_valid' THEN 1 ELSE 0)
    BY <1>2, FilterStep DEF CountInv
  <2>4. CASE Current' <= 2
    <3>1. Current <= 2
      BY <1>2, <2>2, <2>4, ClockSummary
    <3>2. ~data_valid_reg' /\ ~output_valid' /\ data_valid_reg' \in BOOLEAN /\ output_valid' \in BOOLEAN
      BY <1>2, <2>1, <2>4, <3>1, FilterStep DEF CountInv
    <3>3. shown' = 0
      BY <2>3, <3>1, <3>2 DEF CountInv
    <3> QED
      BY <2>2, <2>4, <3>2, <3>3 DEF CountInv
  <2>5. CASE Current' > 2
    <3>1. (data_valid_reg' <=> unpacked_valid) /\ (output_valid' <=> data_valid_reg)
      BY <1>2, <2>5, FilterStep DEF CountInv
    <3>2. data_valid_reg' \in BOOLEAN /\ output_valid' \in BOOLEAN
      BY <1>2, <2>1, <2>5, FilterStep DEF CountInv
    <3>3. phase' = "gap" => ~data_valid_reg'
      BY <1>2, <2>1, <3>1, ClockSummary
    <3>4. phase' = "header" \/ Fresh' => ~data_valid_reg' /\ ~output_valid'
      <4>1. phase = "header" => ~data_valid_reg /\ ~decoded_valid
        BY DEF CountInv, DecoderInv
      <4>2. phase = "gap" => ~decoded_valid
        BY DEF DecoderInv
      <4> QED
        BY <1>2, <2>1, <3>1, <4>1, <4>2, ClockSummary
    <3>5. CASE LineStarts
      <4>1. Total' = 0 /\ ~unpacked_valid /\ Fresh
        BY <1>2, <3>5, ClockSummary, TotalStep DEF LineStarts
      <4>2. ~data_valid_reg' /\ ~output_valid'
        BY <2>1, <3>1, <4>1
      <4>3. shown' = 0
        BY <2>3, <3>5, <4>2
      <4> QED
        BY <2>2, <2>5, <3>2, <3>3, <3>4, <4>1, <4>2, <4>3 DEF CountInv
    <3>6. CASE ~LineStarts
      <4>1. /\ Current > 2
            /\ unpacked_valid => Total' = Total + 1
            /\ ~unpacked_valid => Total' = Total
        BY <1>2, <2>5, <3>6, ClockSummary, TotalStep DEF LineStarts
      <4>2. shown' = Total
        BY <2>1, <2>3, <3>1, <3>6, <4>1 DEF CountInv
      <4> QED
        BY <2>2, <2>5, <3>1, <3>2, <3>3, <3>4, <4>1, <4>2 DEF CountInv
    <3> QED
      BY <3>5, <3>6
  <2> QED
    BY <2>2, <2>4, <2>5
<1> QED
  BY <1>1, <1>2 DEF Next

(* While groups are on their way through the filter the line stays.          *)
LEMMA LineGoesOn ==
  ASSUME DecoderInv, DecoderInv', CountInv, TurnInv, TurnInv', Clocked,
         decoded_valid \/ data_valid_reg
  PROVE  /\ ~LineStarts /\ Current = line /\ line' = line /\ Current' = line /\ line \in Nat
         /\ read_ram_index = (1 + line) % 4 /\ read_ram_index' = read_ram_index
         /\ words' = words /\ Groups(words)' = Groups(words)
         /\ Real' = Real /\ frame' = frame
<1>1. ~LineStarts
  BY ClockSummary DEF LineStarts, CountInv
<1>2. Current = line /\ line' = line
  <2>1. CASE decoded_valid
    BY <2>1, ClockSummary
  <2>2. CASE data_valid_reg
    BY <2>2, ClockSummary DEF CountInv, Current
  <2> QED
    BY <2>1, <2>2
<1>3. Current' = line
  BY <1>1, <1>2, ClockSummary DEF LineStarts
<1>4. words' = words /\ frame' = frame
  BY ClockSummary
<1>5. read_ram_index = (1 + line) % 4 /\ read_ram_index' = read_ram_index
  BY <1>2, <1>3 DEF TurnInv
<1>6. Real' = Real
  BY <1>2 DEF Real
<1>7. Groups(words)' = Groups(words)
  BY <1>4 DEF Groups
<1>8. line \in Nat
  BY DEF DecoderInv
<1> QED
  BY <1>1, <1>2, <1>3, <1>4, <1>5, <1>6, <1>7, <1>8

(* The three RAMs that are not written hold the three lines before.          *)
LEMMA LinesRead ==
  ASSUME DecoderInv, TurnInv, StoredInv, Current = line,
         NEW n \in Nat, n < Groups(words)
  PROVE  \A row \in Real : /\ (read_ram_index + row) % 4 \in Rams
                           /\ ram[(read_ram_index + row) % 4][n] = At(line - 2 + row, n)
<1> SUFFICES ASSUME NEW row \in Real
             PROVE  /\ (read_ram_index + row) % 4 \in Rams
                    /\ ram[(read_ram_index + row) % 4][n] = At(line - 2 + row, n)
  OBVIOUS
<1>1. line \in Nat /\ row \in {-1, 0, 1} /\ row + line > 2
  BY DEF DecoderInv, Real, Rows
<1>2. PICK l \in Nat : l = line - 2 + row
  BY <1>1
<1>3. l >= 1 /\ l < line /\ l + 3 >= line
  BY <1>1, <1>2
<1>4. Stored(l, n)
  BY <1>1, <1>3 DEF Stored
<1>5. ram[(3 + l) % 4][n] = At(l, n)
  BY <1>4 DEF StoredInv
<1>6. (read_ram_index + row) % 4 = (3 + l) % 4
  <2>1. read_ram_index = (1 + line) % 4
    BY DEF TurnInv
  <2> QED
    BY <1>1, <1>2, <2>1
<1> QED
  BY <1>2, <1>5, <1>6 DEF Rams

(* What the filter reads.                                                    *)
LEMMA ReadKeeps ==
  CounterLasts /\ DecoderInv /\ DecoderInv' /\ DepackerInv /\ DepackerInv' /\ TurnInv /\ TurnInv'
    /\ StoredInv /\ CountInv /\ CountInv' /\ ReadInv /\ Next => ReadInv'
<1> SUFFICES ASSUME CounterLasts, DecoderInv, DecoderInv', DepackerInv, DepackerInv',
                    TurnInv, TurnInv', StoredInv, CountInv, CountInv', ReadInv, Next
             PROVE  ReadInv'
  OBVIOUS
<1>1. CASE NewFrame
  <2>1. /\ last_ram_outputs' = last_ram_outputs /\ RAM_out' = RAM_out
        /\ data_valid_reg' = FALSE /\ unpacked_valid' = unpacked_valid /\ ~unpacked_valid
    BY <1>1 DEF NewFrame, FilterReset, Drained, ramVars, depackVars
  <2> QED
    BY <2>1 DEF ReadInv
<1>2. CASE Clocked
  <2>1. /\ RAM_out' = [r \in Rams |-> ram[r][line_address]]
        /\ last_ram_outputs' = RAM_out' /\ last_ram_outputs_stage2' = last_ram_outputs
    <3>1. PICK w : ByteClock(w)
      BY <1>2, ClockSummary
    <3> QED
      BY <3>1 DEF ByteClock, LineRams
  <2>2. data_valid_reg' => /\ unpacked_valid /\ decoded_valid /\ Current' > 2
                           /\ shown' = line_address /\ line_address < Groups(words)
                           /\ line_address \in Nat
    <3> SUFFICES ASSUME data_valid_reg'
                 PROVE  /\ unpacked_valid /\ decoded_valid /\ Current' > 2
                        /\ shown' = line_address /\ line_address < Groups(words)
                        /\ line_address \in Nat
      OBVIOUS
    <3>1. Current' > 2
      BY CurrentNatNext DEF CountInv
    <3>2. unpacked_valid
      BY <1>2, <3>1, FilterStep DEF CountInv
    <3>3. decoded_valid /\ Total = line_address /\ line_address < Groups(words) /\ line_address \in Nat
      BY <3>2, GroupsCounted DEF DepackerInv
    <3>4. Total' = Total + 1
      BY <1>2, <3>2, <3>3, TotalStep
    <3>5. shown' + 1 = Total' /\ shown' \in Nat
      BY <3>1 DEF CountInv
    <3>6. shown' = line_address
      <4>1. \A m, n \in Nat : m + 1 = n + 1 => m = n
        OBVIOUS
      <4>2. shown' + 1 = line_address + 1
        BY <3>3, <3>4, <3>5
      <4> QED
        BY <3>3, <3>5, <4>1, <4>2
    <3> QED
      BY <3>1, <3>2, <3>3, <3>6
  <2>3. ASSUME decoded_valid \/ data_valid_reg, NEW n \in Nat,
               \A row \in Real : RAM_out'[(read_ram_index + row) % 4] = At(line - 2 + row, n)
        PROVE  Holds(RAM_out, n)'
    <3>1. line' = line /\ frame' = frame /\ read_ram_index' = read_ram_index /\ Real' = Real
      BY <1>2, <2>3, LineGoesOn
    <3> QED
      BY <2>3, <3>1 DEF Holds, At
  <2>4. ASSUME decoded_valid, NEW n \in Nat, n = line_address, n < Groups(words)
        PROVE  Holds(RAM_out, n)'
    <3>1. Current = line
      BY <1>2, <2>4, LineGoesOn
    <3>2. \A row \in Real : RAM_out'[(read_ram_index + row) % 4] = At(line - 2 + row, n)
      BY <2>1, <2>4, <3>1, LinesRead
    <3> QED
      BY <2>3, <2>4, <3>2
  <2>5. data_valid_reg' => Holds(RAM_out, shown)'
    <3> SUFFICES ASSUME data_valid_reg' PROVE Holds(RAM_out, shown)'
      OBVIOUS
    <3>1. PICK n \in Nat : n = line_address /\ n = shown' /\ n < Groups(words)
      BY <2>2
    <3>2. Holds(RAM_out, n)'
      BY <2>2, <2>4, <3>1
    <3> QED
      BY <3>1, <3>2 DEF Holds, At
  <2>6. unpacked_valid' => \E n \in Nat : Holds(RAM_out, n)'
    <3> SUFFICES ASSUME unpacked_valid' PROVE \E n \in Nat : Holds(RAM_out, n)'
      OBVIOUS
    <3>1. /\ decoded_valid' /\ byte_count' \in 2..5 /\ line_address' \in Nat
          /\ 4 * decoded' = 5 * line_address' + 6 - byte_count'
      BY DEF DepackerInv
    <3>2. decoded_valid /\ decoded' = decoded + 1 /\ words' = words
      <4>1. ~decoded_valid => decoded' = 0
        BY <1>2, <3>1, ClockSummary
      <4>2. decoded_valid
        BY <3>1, <4>1 DEF DecoderInv
      <4> QED
        BY <1>2, <3>1, <4>2, ClockSummary
    <3>3. decoded \in 0..(words - 2)
      BY <1>2, <3>1, <3>2, Sizes, ClockSummary DEF DecoderInv
    <3>4. line_address \in Nat /\ 5 * line_address <= 4 * decoded
      BY <3>2, <3>3 DEF DepackerInv
    <3>5. line_address < Groups(words)
      <4>1. Groups(words) = (4 * words) \div 5 /\ words \in Nat
        BY Sizes DEF Groups, LANES, BYTES_PERPACK, DecoderInv
      <4> QED
        BY <3>3, <3>4, <4>1
    <3> QED
      BY <2>4, <3>2, <3>4, <3>5
  <2>7. data_valid_reg' => \E n \in Nat : Holds(last_ram_outputs_stage2, n)'
    <3> SUFFICES ASSUME data_valid_reg' PROVE \E n \in Nat : Holds(last_ram_outputs_stage2, n)'
      OBVIOUS
    <3>1. PICK n \in Nat : Holds(RAM_out, n)
      BY <2>2 DEF ReadInv
    <3>2. last_ram_outputs_stage2' = RAM_out
      BY <2>1 DEF ReadInv
    <3>3. line' = line /\ frame' = frame /\ read_ram_index' = read_ram_index /\ Real' = Real
      BY <1>2, <2>2, LineGoesOn
    <3>4. Holds(last_ram_outputs_stage2, n)'
      BY <3>1, <3>2, <3>3 DEF Holds, At
    <3> QED
      BY <3>4
  <2> QED
    BY <2>1, <2>5, <2>6, <2>7 DEF ReadInv
<1> QED
  BY <1>1, <1>2 DEF Next

(* What the filter puts out.                                                 *)
LEMMA ShownKeeps ==
  CounterLasts /\ DecoderInv /\ DecoderInv' /\ DepackerInv /\ TurnInv /\ TurnInv'
    /\ StoredInv /\ CountInv /\ CountInv' /\ ReadInv /\ Next => ShownInv'
<1> SUFFICES ASSUME CounterLasts, DecoderInv, DecoderInv', DepackerInv, TurnInv, TurnInv',
                    StoredInv, CountInv, CountInv', ReadInv, Next, output_valid'
             PROVE  /\ line' > 2 /\ shown' > 0
                    /\ Puts(output.here, shown - 1)'
                    /\ shown' < Groups(words)' => Puts(output.after, shown)'
                    /\ \E n \in Nat : Puts(output.before, n)'
                    /\ output'.even <=> line' % 2 = 0
  BY DEF ShownInv
<1>1. Clocked
  BY DEF Next, NewFrame, FilterReset
<1>2. Current' > 2 /\ Current' \in Nat
  BY CurrentNatNext DEF CountInv
<1>3. data_valid_reg /\ output' = Window /\ line_counter' = Current'
  BY <1>1, <1>2, FilterStep DEF CountInv
<1>4. /\ ~LineStarts /\ Current = line /\ line' = line /\ Current' = line /\ line \in Nat
      /\ read_ram_index' = read_ram_index /\ Real' = Real /\ frame' = frame
      /\ Groups(words)' = Groups(words)
  BY <1>1, <1>3, LineGoesOn
<1>5. shown \in Nat /\ shown' = shown + 1 /\ Total = shown + 1
  BY <1>1, <1>2, <1>3, <1>4, FilterStep DEF CountInv
<1>6. PICK n \in Nat : n = shown
  BY <1>5
<1>7. shown' - 1 = n /\ shown' > 0
  BY <1>5, <1>6
<1>8. /\ \A row \in Rows : /\ output'.here[row] = last_ram_outputs[(read_ram_index + row) % 4]
                           /\ output'.after[row] = RAM_out'[(read_ram_index + row) % 4]
                           /\ output'.before[row] = last_ram_outputs_stage2[(read_ram_index + row) % 4]
      /\ output'.even <=> line % 2 = 0
  BY <1>3, <1>4 DEF Window
<1>9. \A row \in Real : row \in Rows
  BY DEF Real
<1>10. Puts(output.here, shown - 1)'
  <2>1. \A row \in Real : output'.here[row] = At(line - 2 + row, n)
    BY <1>3, <1>6, <1>8, <1>9 DEF ReadInv, Holds
  <2> QED
    BY <1>4, <1>7, <2>1 DEF Puts, At
<1>11. \E k \in Nat : Puts(output.before, k)'
  <2>1. PICK k \in Nat : Holds(last_ram_outputs_stage2, k)
    BY <1>3 DEF ReadInv
  <2>2. \A row \in Real : output'.before[row] = At(line - 2 + row, k)
    BY <1>8, <1>9, <2>1 DEF Holds
  <2>3. Puts(output.before, k)'
    BY <1>4, <2>2 DEF Puts, At
  <2> QED
    BY <2>3
<1>12. shown' < Groups(words)' => Puts(output.after, shown)'
  <2> SUFFICES ASSUME shown' < Groups(words)' PROVE Puts(output.after, shown)'
    OBVIOUS
  <2>1. line_address = shown'
    BY <1>4, <1>5 DEF Total
  <2>2. PICK k \in Nat : k = shown'
    BY <1>5
  <2>3. RAM_out' = [r \in Rams |-> ram[r][line_address]]
    <3>1. PICK w : ByteClock(w)
      BY <1>1, ClockSummary
    <3> QED
      BY <3>1 DEF ByteClock, LineRams
  <2>4. \A row \in Real : RAM_out'[(read_ram_index + row) % 4] = At(line - 2 + row, k)
    BY <1>4, <2>1, <2>2, <2>3, LinesRead
  <2>5. \A row \in Real : output'.after[row] = At(line - 2 + row, k)
    BY <1>8, <1>9, <2>4
  <2> QED
    BY <1>4, <2>2, <2>5 DEF Puts, At
<1> QED
  BY <1>2, <1>4, <1>7, <1>8, <1>10, <1>11, <1>12

-----------------------------------------------------------------------------
(* What the byte clock keeps, and what the filter keeps on top of it as long *)
(* as its line counter lasts.                                                *)
StoreInv == DecoderInv /\ DepackerInv /\ TurnInv /\ StoredInv
FilterInv == StoreInv /\ CountInv /\ ReadInv /\ ShownInv

(* Nothing has come yet.                                                     *)
LEMMA AtFirst == Init => FilterInv
<1> SUFFICES ASSUME Init PROVE FilterInv
  OBVIOUS
<1>1. Current = 0
  BY DEF Init, Current, Fresh
<1>2. words \in LineWords /\ ADDRESSES \in Nat \ {0} /\ MaxLines \in Nat
  BY PixelPathAssumption DEF Init
<1>3. DecoderInv
  <2>1. decoded_valid = FALSE
    BY DEF Init
  <2>2. decoded_valid \in BOOLEAN /\ ~decoded_valid
    BY <2>1
  <2>3. /\ phase = "gap" /\ left = 0 /\ frame = 1 /\ line = 0 /\ packet_length_reg = 0
    BY DEF Init
  <2> QED
    BY <1>2, <2>2, <2>3 DEF DecoderInv
<1>4. unpacked_valid \in BOOLEAN /\ ~unpacked_valid /\ 0 \in 0..(ADDRESSES - 1)
  <2>1. unpacked_valid = FALSE
    BY DEF Init
  <2>2. unpacked_valid \in BOOLEAN /\ ~unpacked_valid
    BY <2>1
  <2> QED
    BY <1>2, <2>2
<1>5. DepackerInv
  BY <1>2, <1>4 DEF Init, DepackerInv, PixelsInPlace
<1>6. TurnInv
  BY <1>1 DEF Init, TurnInv
<1>7. StoredInv
  <2>1. \A l, a \in Nat : ~Stored(l, a)
    BY <1>1 DEF Stored
  <2>2. ram \in [Rams -> [0..(ADDRESSES - 1) -> Nat \X Nat \X Nat]]
    BY DEF Init, Empty
  <2> QED
    BY <2>1, <2>2 DEF StoredInv
<1>8. data_valid_reg \in BOOLEAN /\ ~data_valid_reg /\ output_valid \in BOOLEAN /\ ~output_valid
  BY DEF Init
<1>9. CountInv
  BY <1>1, <1>8 DEF Init, CountInv
<1>10. ReadInv
  BY <1>4, <1>8 DEF Init, ReadInv
<1>11. ShownInv
  BY <1>8 DEF ShownInv
<1> QED
  BY <1>3, <1>5, <1>6, <1>7, <1>9, <1>10, <1>11 DEF FilterInv, StoreInv

(* A step of the path keeps what is stored.                                  *)
LEMMA StoreStep == StoreInv /\ [Next]_vars => StoreInv'
<1> SUFFICES ASSUME StoreInv, [Next]_vars PROVE StoreInv'
  OBVIOUS
<1>1. CASE Next
  BY <1>1, DecoderKeeps, DepackerKeeps, TurnKeeps, StoredKeeps DEF StoreInv
<1>2. CASE UNCHANGED vars
  <2>1. DecoderInv'
    BY <1>2 DEF vars, sensorVars, decoderVars, StoreInv, DecoderInv
  <2>2. DepackerInv'
    BY <1>2 DEF vars, decoderVars, depackVars, filterVars, StoreInv, DepackerInv, PixelsInPlace
  <2>3. Current' = Current /\ TurnInv'
    BY <1>2 DEF vars, sensorVars, filterVars, StoreInv, TurnInv, Current, Fresh
  <2>4. \A l, a : (Stored(l, a)' <=> Stored(l, a)) /\ At(l, a)' = At(l, a)
    BY <1>2, <2>3 DEF vars, sensorVars, decoderVars, filterVars, Stored, Total, Groups, At
  <2>5. StoredInv'
    BY <1>2, <2>4 DEF vars, filterVars, ramVars, StoreInv, StoredInv
  <2> QED
    BY <2>1, <2>2, <2>3, <2>5 DEF StoreInv
<1> QED
  BY <1>1, <1>2

(* A step of the path keeps what the filter puts out.                        *)
LEMMA FilterInvStep == CounterLasts /\ FilterInv /\ [Next]_vars => FilterInv'
<1> SUFFICES ASSUME CounterLasts, FilterInv, [Next]_vars PROVE FilterInv'
  OBVIOUS
<1>1. StoreInv /\ StoreInv'
  BY StoreStep DEF FilterInv
<1>2. CASE Next
  <2>1. CountInv'
    BY <1>1, <1>2, CountKeeps DEF FilterInv, StoreInv
  <2>2. ReadInv'
    BY <1>1, <1>2, <2>1, ReadKeeps DEF FilterInv, StoreInv
  <2>3. ShownInv'
    BY <1>1, <1>2, <2>1, ShownKeeps DEF FilterInv, StoreInv
  <2> QED
    BY <1>1, <2>1, <2>2, <2>3 DEF FilterInv
<1>3. CASE UNCHANGED vars
  <2>1. /\ Current' = Current /\ Total' = Total /\ Real' = Real /\ Groups(words)' = Groups(words)
        /\ phase' = phase /\ (Fresh' <=> Fresh) /\ line' = line /\ frame' = frame
        /\ shown' = shown /\ line_counter' = line_counter /\ read_ram_index' = read_ram_index
        /\ data_valid_reg' = data_valid_reg /\ output_valid' = output_valid
        /\ unpacked_valid' = unpacked_valid
        /\ RAM_out' = RAM_out /\ last_ram_outputs' = last_ram_outputs /\ output' = output
        /\ last_ram_outputs_stage2' = last_ram_outputs_stage2
    BY <1>3 DEF vars, sensorVars, decoderVars, depackVars, filterVars, ramVars,
                Current, Fresh, Total, Real, Groups
  <2>2. CountInv'
    BY <2>1 DEF FilterInv, CountInv
  <2>3. ReadInv'
    BY <2>1 DEF FilterInv, ReadInv, Holds, At
  <2>4. ShownInv'
    BY <2>1 DEF FilterInv, ShownInv, Puts, At
  <2> QED
    BY <1>1, <2>2, <2>3, <2>4 DEF FilterInv
<1> QED
  BY <1>2, <1>3

(* Theorem: whatever the payload holds and however the lines and the short   *)
(* packets follow each other, the decoder, the depacker, the RAMs' rotation  *)
(* and what the RAMs hold stay in step.                                      *)
THEOREM Storing == Spec => []StoreInv
<1>1. Init => StoreInv
  BY AtFirst DEF FilterInv
<1> QED
  BY <1>1, StoreStep, PTL DEF Spec

(* Theorem: a group that leaves the depacker is made of its own five bytes.  *)
THEOREM Depacked == Spec => []PixelsInPlace
<1>1. StoreInv => PixelsInPlace
  BY DEF StoreInv, DepackerInv
<1> QED
  BY <1>1, Storing, PTL

(* Theorem: a line that is over is in its RAM, from the first group to the   *)
(* last, and nothing has gone over it.                                       *)
THEOREM Stores == Spec => []LineStored
<1>1. StoreInv => LineStored
  <2> SUFFICES ASSUME StoreInv, phase = "gap", ~decoded_valid, line > 0,
                      NEW a \in 0..(Groups(words) - 1)
               PROVE  ram[write_ram][a] = <<frame, line, BYTES_PERPACK * a>>
    BY DEF LineStored, Drained
  <2>1. Current = line /\ Total = Groups(words) /\ line \in Nat
    BY DEF StoreInv, DecoderInv, Current, Fresh, Total
  <2>2. a \in Nat /\ a < Groups(words)
    BY TotalNat DEF StoreInv
  <2>3. Stored(line, a)
    BY <2>1, <2>2 DEF Stored
  <2>4. ram[(3 + line) % 4][a] = At(line, a)
    BY <2>1, <2>2, <2>3 DEF StoreInv, StoredInv
  <2> QED
    BY <2>1, <2>4 DEF StoreInv, TurnInv, At
<1> QED
  BY <1>1, Storing, PTL

(* Theorem: in a frame of fewer lines than the line counter can count the    *)
(* filter stays in step with the RAMs as well.                               *)
THEOREM Filtering == ASSUME CounterLasts PROVE Spec => []FilterInv
<1>1. FilterInv /\ [Next]_vars => FilterInv'
  BY CounterLasts, FilterInvStep
<1> QED
  BY <1>1, AtFirst, PTL DEF Spec

(* Theorem: the groups come out in order, each with the same place of its    *)
(* neighbours' lines.                                                        *)
THEOREM InOrder == ASSUME CounterLasts PROVE Spec => []RowsInOrder
<1>1. FilterInv => RowsInOrder
  <2> SUFFICES ASSUME FilterInv, output_valid,
                      NEW row \in (IF line = 3 THEN {0, 1} ELSE Rows)
               PROVE  /\ output.here[row] = At(line - 2 + row, shown - 1)
                      /\ shown < Groups(words) => output.after[row] = At(line - 2 + row, shown)
    BY DEF RowsInOrder
  <2>1. line \in Nat /\ line > 2
    BY DEF FilterInv, StoreInv, DecoderInv, ShownInv
  <2>2. row \in Real
    BY <2>1 DEF Real, Rows
  <2> QED
    BY <2>2 DEF FilterInv, ShownInv, Puts
<1> QED
  BY <1>1, Filtering, PTL

(* Theorem: every line from the third on sends one whole line of the picture *)
(* before the next one starts.                                               *)
THEOREM Shows == ASSUME CounterLasts PROVE Spec => []LineShown
<1>1. FilterInv => LineShown
  <2> SUFFICES ASSUME FilterInv, phase = "gap", ~decoded_valid, ~data_valid_reg
               PROVE  shown = IF line > 2 THEN Groups(words) ELSE 0
    BY DEF LineShown, Drained
  <2>1. Current = line /\ Total = Groups(words) /\ line \in Nat
    BY DEF FilterInv, StoreInv, DecoderInv, Current, Fresh, Total
  <2> QED
    BY <2>1 DEF FilterInv, CountInv
<1> QED
  BY <1>1, Filtering, PTL

-----------------------------------------------------------------------------
(* The averages, colour by colour: around a pixel of line l they are made of *)
(* pixels of that colour.                                                    *)
LEMMA Mosaic ==
  ASSUME NEW l \in Nat, NEW even, even <=> l % 2 = 0,
         NEW p \in 0..3, NEW colour \in {"R", "G", "B"}, NEW place \in Averaged(even, p, colour)
  PROVE  \E row \in Rows, q \in -1..7 :
           place = <<row, q>> /\ BayerColour(l + row, q) = colour
<1> DEFINE Good(S) == \A e \in S : \E row \in Rows, q \in -1..7 :
                        e = <<row, q>> /\ BayerColour(l + row, q) = colour
           Own(column) == IF column % 2 = 0 THEN IF even THEN "G" ELSE "B"
                                            ELSE IF even THEN "R" ELSE "G"
           Near(column) == IF column % 2 = 0 THEN IF even THEN "B" ELSE "G"
                                             ELSE IF even THEN "G" ELSE "R"
<1>1. /\ \A q \in -1..7 : BayerColour(l + 0, q) = Own(q)
      /\ \A row \in {-1, 1}, q \in -1..7 : BayerColour(l + row, q) = Near(q)
  BY DEF BayerColour
<1>2. \A q \in -1..7 : colour = Own(q) => Good({<<0, q>>})
  BY <1>1 DEF Rows
<1>3. \A row \in {-1, 1}, q \in -1..7 : colour = Near(q) => Good({<<row, q>>})
  BY <1>1 DEF Rows
<1>4. \A S, T : Good(S) /\ Good(T) => Good(S \cup T)
  OBVIOUS
<1>5. p - 1 \in -1..7 /\ p + 1 \in -1..7 /\ (p - 1) % 2 = (p + 1) % 2 /\ p \in -1..7
  OBVIOUS
<1>6. colour = Own(p + 1) => Good(Across(p))
  <2>1. Across(p) = {<<0, p - 1>>} \cup {<<0, p + 1>>} /\ Own(p - 1) = Own(p + 1)
    BY <1>5 DEF Across
  <2> HIDE DEF Good, Own
  <2> QED
    BY <1>2, <1>4, <1>5, <2>1
<1>7. colour = Near(p) => Good(Along(p))
  <2>1. Along(p) = {<<-1, p>>} \cup {<<1, p>>}
    BY DEF Along
  <2> HIDE DEF Good, Near
  <2> QED
    BY <1>3, <1>4, <1>5, <2>1
<1>8. colour = Near(p + 1) => Good(Corners(p))
  <2>1. /\ Corners(p) = ({<<-1, p - 1>>} \cup {<<-1, p + 1>>}) \cup ({<<1, p - 1>>} \cup {<<1, p + 1>>})
        /\ Near(p - 1) = Near(p + 1)
    BY <1>5 DEF Corners
  <2> HIDE DEF Good, Near
  <2>2. colour = Near(p + 1) => Good({<<-1, p - 1>>} \cup {<<-1, p + 1>>})
    BY <1>3, <1>4, <1>5, <2>1
  <2>3. colour = Near(p + 1) => Good({<<1, p - 1>>} \cup {<<1, p + 1>>})
    BY <1>3, <1>4, <1>5, <2>1
  <2> QED
    BY <1>4, <2>1, <2>2, <2>3
<1> HIDE DEF Good
<1>9. CASE even /\ p \in {0, 2}
  <2>1. /\ colour = "G" => Averaged(even, p, colour) = {<<0, p>>}
        /\ colour = "R" => Averaged(even, p, colour) = Across(p)
        /\ colour = "B" => Averaged(even, p, colour) = Along(p)
    BY <1>9 DEF Averaged
  <2>2. colour = "G" => Good({<<0, p>>})
    BY <1>9, <1>2, <1>5
  <2>3. colour = "R" => Good(Across(p))
    BY <1>9, <1>6
  <2>4. colour = "B" => Good(Along(p))
    BY <1>9, <1>7
  <2> QED
    BY <2>1, <2>2, <2>3, <2>4 DEF Good
<1>10. CASE even /\ p \in {1, 3}
  <2>1. /\ colour = "R" => Averaged(even, p, colour) = {<<0, p>>}
        /\ colour = "G" => Averaged(even, p, colour) = Across(p) \cup Along(p)
        /\ colour = "B" => Averaged(even, p, colour) = Corners(p)
    BY <1>10 DEF Averaged
  <2>2. colour = "R" => Good({<<0, p>>})
    BY <1>10, <1>2, <1>5
  <2>3. colour = "G" => Good(Across(p) \cup Along(p))
    BY <1>10, <1>4, <1>6, <1>7
  <2>4. colour = "B" => Good(Corners(p))
    BY <1>10, <1>8
  <2> QED
    BY <2>1, <2>2, <2>3, <2>4 DEF Good
<1>11. CASE ~even /\ p \in {0, 2}
  <2>1. /\ colour = "B" => Averaged(even, p, colour) = {<<0, p>>}
        /\ colour = "G" => Averaged(even, p, colour) = Across(p) \cup Along(p)
        /\ colour = "R" => Averaged(even, p, colour) = Corners(p)
    BY <1>11 DEF Averaged
  <2>2. colour = "B" => Good({<<0, p>>})
    BY <1>11, <1>2, <1>5
  <2>3. colour = "G" => Good(Across(p) \cup Along(p))
    BY <1>11, <1>4, <1>6, <1>7
  <2>4. colour = "R" => Good(Corners(p))
    BY <1>11, <1>8
  <2> QED
    BY <2>1, <2>2, <2>3, <2>4 DEF Good
<1>12. CASE ~even /\ p = 1
  <2>1. /\ colour = "G" => Averaged(even, p, colour) = {<<0, p>>}
        /\ colour = "B" => Averaged(even, p, colour) = Across(p)
        /\ colour = "R" => Averaged(even, p, colour) = Along(p)
    BY <1>12 DEF Averaged
  <2>2. colour = "G" => Good({<<0, p>>})
    BY <1>12, <1>2, <1>5
  <2>3. colour = "B" => Good(Across(p))
    BY <1>12, <1>6
  <2>4. colour = "R" => Good(Along(p))
    BY <1>12, <1>7
  <2> QED
    BY <2>1, <2>2, <2>3, <2>4 DEF Good
<1>13. CASE ~even /\ p = 3
  <2>1. /\ colour = "G" => Averaged(even, p, colour) = {<<0, 3>>} \cup {<<0, 7>>}
        /\ colour = "B" => Averaged(even, p, colour) = Across(p)
        /\ colour = "R" => Averaged(even, p, colour) = Along(p)
    BY <1>13 DEF Averaged
  <2>2. colour = "G" => Good({<<0, 3>>} \cup {<<0, 7>>})
    BY <1>13, <1>2, <1>4
  <2>3. colour = "B" => Good(Across(p))
    BY <1>13, <1>6
  <2>4. colour = "R" => Good(Along(p))
    BY <1>13, <1>7
  <2> QED
    BY <2>1, <2>2, <2>3, <2>4 DEF Good
<1> QED
  BY <1>9, <1>10, <1>11, <1>12, <1>13

(* Where a place of the window's lies in the sensor's picture.               *)
LEMMA Places ==
  ASSUME FilterInv, Inner, NEW row \in Rows, NEW q \in -1..7
  PROVE  \E x \in Nat : Taken(output, <<row, q>>) = <<line - 2 + row, x>> /\ x % 2 = q % 2
<1>1. row \in Real /\ output_valid /\ shown \in Nat \ {0} /\ shown < Groups(words) /\ line \in Nat
  BY TotalNat DEF Inner, Real, Rows, FilterInv, StoreInv, DecoderInv
<1>2. \A n \in Nat, k \in 0..3 :
        \E x \in Nat : Pixel(At(line - 2 + row, n), k) = <<line - 2 + row, x>> /\ x % 2 = k % 2
  <2> TAKE n \in Nat, k \in 0..3
  <2>1. (5 * n) \div 5 = n
    OBVIOUS
  <2>2. Pixel(At(line - 2 + row, n), k) = <<line - 2 + row, 4 * ((5 * n) \div 5) + k>>
    BY DEF Pixel, At, BYTES_PERPACK
  <2>3. 4 * n + k \in Nat /\ (4 * n + k) % 2 = k % 2
    OBVIOUS
  <2> QED
    BY <2>1, <2>2, <2>3
<1>3. CASE q < 0
  <2>1. PICK n \in Nat : output.before[row] = At(line - 2 + row, n)
    BY <1>1 DEF FilterInv, ShownInv, Puts
  <2>2. Taken(output, <<row, q>>) = Pixel(output.before[row], q + 4) /\ q + 4 \in 0..3
    BY <1>3 DEF Taken
  <2>3. (q + 4) % 2 = q % 2
    OBVIOUS
  <2>4. \E x \in Nat : /\ Pixel(At(line - 2 + row, n), q + 4) = <<line - 2 + row, x>>
                      /\ x % 2 = (q + 4) % 2
    BY <1>2, <2>2
  <2> QED
    BY <2>1, <2>2, <2>3, <2>4
<1>4. CASE q \in 0..3
  <2>1. PICK n \in Nat : n = shown - 1
    BY <1>1
  <2>2. output.here[row] = At(line - 2 + row, n)
    BY <1>1, <2>1 DEF FilterInv, ShownInv, Puts
  <2>3. Taken(output, <<row, q>>) = Pixel(output.here[row], q)
    BY <1>4 DEF Taken
  <2>4. \E x \in Nat : Pixel(At(line - 2 + row, n), q) = <<line - 2 + row, x>> /\ x % 2 = q % 2
    BY <1>2, <1>4
  <2> QED
    BY <2>2, <2>3, <2>4
<1>5. CASE q > 3
  <2>1. output.after[row] = At(line - 2 + row, shown)
    BY <1>1 DEF FilterInv, ShownInv, Puts
  <2>2. Taken(output, <<row, q>>) = Pixel(output.after[row], q - 4) /\ q - 4 \in 0..3 /\ (q - 4) % 2 = q % 2
    BY <1>5 DEF Taken
  <2>3. \E x \in Nat : /\ Pixel(At(line - 2 + row, shown), q - 4) = <<line - 2 + row, x>>
                      /\ x % 2 = (q - 4) % 2
    BY <1>1, <1>2, <2>2
  <2> QED
    BY <2>1, <2>2, <2>3
<1> QED
  BY <1>3, <1>4, <1>5

(* Theorem: away from the border every value that is averaged into a colour  *)
(* is a pixel of that colour, in every line of every frame.                  *)
THEOREM Colours == ASSUME CounterLasts PROVE Spec => []ColoursMatch
<1>1. FilterInv => ColoursMatch
  <2> SUFFICES ASSUME FilterInv, Inner,
                      NEW p \in 0..3, NEW colour \in {"R", "G", "B"},
                      NEW place \in Averaged(output.even, p, colour)
               PROVE  BayerColour(Taken(output, place)[1], Taken(output, place)[2]) = colour
    BY DEF ColoursMatch
  <2>1. line \in Nat /\ (output.even <=> line % 2 = 0)
    BY DEF FilterInv, StoreInv, DecoderInv, ShownInv, Inner
  <2>2. PICK row \in Rows, q \in -1..7 :
          place = <<row, q>> /\ BayerColour(line + row, q) = colour
    BY <2>1, Mosaic
  <2>3. PICK x \in Nat : Taken(output, place) = <<line - 2 + row, x>> /\ x % 2 = q % 2
    BY <2>2, Places
  <2>4. (line - 2 + row) % 2 = (line + row) % 2
    BY <2>1, <2>2 DEF Rows
  <2>5. BayerColour(line - 2 + row, x) = BayerColour(line + row, q)
    BY <2>3, <2>4 DEF BayerColour
  <2> QED
    BY <2>2, <2>3, <2>5
<1> QED
  BY <1>1, Filtering, PTL

(* Theorem: if the first line were red and green, as debayer_filter.v:18     *)
(* expects it, the filter's red would be made of blue pixels only and its    *)
(* blue of red ones.                                                         *)
THEOREM HeaderExchanged == ASSUME CounterLasts PROVE Spec => []HeaderExchanges
<1>1. ColoursMatch => HeaderExchanges
  <2> SUFFICES ASSUME ColoursMatch, Inner,
                      NEW p \in 0..3, NEW colour \in {"R", "G", "B"},
                      NEW place \in Averaged(output.even, p, colour)
               PROVE  HeaderColour(Taken(output, place)[1], Taken(output, place)[2])
                        = [R |-> "B", G |-> "G", B |-> "R"][colour]
    BY DEF HeaderExchanges
  <2>1. BayerColour(Taken(output, place)[1], Taken(output, place)[2]) = colour
    BY DEF ColoursMatch
  <2> QED
    BY <2>1 DEF BayerColour, HeaderColour
<1> QED
  BY <1>1, Colours, PTL

-----------------------------------------------------------------------------
(* The groups of this line that the converter has seen.                      *)
Converted == IF output_valid THEN shown - 1 ELSE shown

(* One byte clock behind the filter.                                         *)
LEMMA ConvertedStep ==
  ASSUME CounterLasts, FilterInv, FilterInv', Clocked
  PROVE  /\ Converted \in Nat /\ Converted' \in Nat /\ frame' = frame
         /\ LineStarts => Converted' = 0 /\ ~output_valid /\ Fresh
         /\ ~LineStarts => /\ line_counter' = line_counter
                           /\ output_valid => Converted' = Converted + 1
                           /\ ~output_valid => Converted' = Converted
         /\ output_valid => output.here[0] = At(line_counter - 2, Converted)
<1> USE DEF FilterInv, StoreInv
<1>1. /\ output_valid \in BOOLEAN /\ shown \in Nat /\ line \in Nat
      /\ output_valid => shown > 0 /\ line > 2 /\ ~Fresh
  BY DEF DecoderInv, CountInv, ShownInv
<1>2. /\ output_valid' \in BOOLEAN /\ shown' \in Nat
      /\ output_valid' => shown' > 0
  BY DEF CountInv, ShownInv
<1>3. /\ Converted \in Nat
      /\ output_valid => Converted + 1 = shown
      /\ ~output_valid => Converted = shown
  BY <1>1 DEF Converted
<1>4. /\ Converted' \in Nat
      /\ output_valid' => Converted' + 1 = shown'
      /\ ~output_valid' => Converted' = shown'
  <2>1. CASE output_valid'
    <3>1. Converted' = shown' - 1
      BY <2>1 DEF Converted
    <3>2. \A n \in Nat : n > 0 => n - 1 \in Nat /\ (n - 1) + 1 = n
      OBVIOUS
    <3>3. shown' - 1 \in Nat /\ (shown' - 1) + 1 = shown'
      BY <1>2, <2>1, <3>2
    <3> QED
      BY <2>1, <3>1, <3>3
  <2>2. CASE ~output_valid'
    <3>1. Converted' = shown'
      BY <2>2 DEF Converted
    <3> QED
      BY <1>2, <2>2, <3>1
  <2> QED
    BY <2>1, <2>2
<1>5. Converted' = IF LineStarts THEN 0 ELSE shown
  <2>1. PICK base \in Nat : base = IF LineStarts THEN 0 ELSE shown
    BY <1>1
  <2>2. shown' = base + (IF output_valid' THEN 1 ELSE 0)
    BY <2>1, FilterStep DEF CountInv
  <2>3. CASE output_valid'
    <3>1. Converted' + 1 = base + 1
      BY <1>4, <2>2, <2>3
    <3>2. \A m, n \in Nat : m + 1 = n + 1 => m = n
      OBVIOUS
    <3> QED
      BY <1>4, <2>1, <3>1, <3>2
  <2>4. CASE ~output_valid'
    <3>1. Converted' = base + 0
      BY <1>4, <2>2, <2>4
    <3> QED
      BY <2>1, <3>1
  <2> QED
    BY <2>3, <2>4
<1>6. LineStarts => Converted' = 0 /\ ~output_valid /\ Fresh
  <2> SUFFICES ASSUME LineStarts PROVE Converted' = 0 /\ ~output_valid /\ Fresh
    OBVIOUS
  <2>1. Fresh /\ ~output_valid
    BY ClockSummary DEF LineStarts, CountInv
  <2> QED
    BY <1>5, <2>1
<1>7. ~LineStarts => /\ line_counter' = line_counter
                     /\ output_valid => Converted' = Converted + 1
                     /\ ~output_valid => Converted' = Converted
  <2> SUFFICES ASSUME ~LineStarts
               PROVE  /\ line_counter' = line_counter
                      /\ output_valid => Converted' = Converted + 1
                      /\ ~output_valid => Converted' = Converted
    OBVIOUS
  <2>1. line_counter' = line_counter
    BY ClockSummary DEF LineStarts, CountInv
  <2>2. Converted' = shown
    BY <1>5
  <2> QED
    BY <1>1, <1>3, <2>1, <2>2
<1>8. output_valid => output.here[0] = At(line_counter - 2, Converted)
  <2> SUFFICES ASSUME output_valid PROVE output.here[0] = At(line_counter - 2, Converted)
    OBVIOUS
  <2>1. 0 \in Real /\ line_counter = line
    BY <1>1 DEF Real, Rows, CountInv, Current
  <2>2. output.here[0] = At(line - 2 + 0, shown - 1)
    BY <2>1 DEF ShownInv, Puts
  <2>3. line - 2 + 0 = line_counter - 2 /\ shown - 1 = Converted
    BY <1>1, <2>1 DEF Converted
  <2> QED
    BY <2>2, <2>3
<1>9. frame' = frame
  BY ClockSummary
<1> QED
  BY <1>3, <1>4, <1>6, <1>7, <1>8, <1>9

(* One output clock.                                                         *)
Register(reg) == DOMAIN reg = {"lsw", "lv", "word"} /\ reg.lsw \in BOOLEAN /\ reg.lv \in BOOLEAN
LEMMA OneClock ==
  ASSUME NEW reg, Register(reg), NEW valid, NEW data
  PROVE  LET r == OutputReformatter(reg, valid, data) IN
         /\ Register(r) /\ (r.lv <=> valid) /\ (r.lsw <=> valid /\ ~reg.lsw)
         /\ valid /\ reg.lsw => r.word = <<data, "lower">>
         /\ valid /\ ~reg.lsw => r.word = <<data, "upper">>
<1>1. CASE valid
  BY <1>1 DEF OutputReformatter, Register, Half
<1>2. CASE ~valid
  BY <1>2 DEF OutputReformatter, Register
<1> QED
  BY <1>1, <1>2

(* The port follows the converter.  When the reformatter sees old data at    *)
(* the falling edge, a group's lower half leaves a byte clock after its      *)
(* upper one.                                                                *)
Shape ==
  /\ early \in BOOLEAN /\ yuv_valid \in BOOLEAN /\ port = <<port[1], port[2]>>
  /\ Register(port[1]) /\ Register(port[2])
  /\ port[2].lv <=> yuv_valid
  /\ port[2].lsw <=> early /\ yuv_valid
  /\ ~early => (port[1].lv <=> yuv_valid)
  /\ Fresh => ~yuv_valid

Order ==
  /\ yuv_valid => \E n \in Nat : Converted = n + 1 /\ yuv = At(line_counter - 2, n)
  /\ ~early /\ yuv_valid => port[1].word = <<yuv, "upper">> /\ port[2].word = <<yuv, "lower">>
  /\ early /\ yuv_valid => port[2].word = <<yuv, "upper">>
  /\ early /\ port[1].lv =>
       \E n \in Nat : /\ port[1].word = <<At(line_counter - 2, n), "lower">>
                      /\ yuv_valid => Converted = n + 2
                      /\ ~yuv_valid => Converted = n + 1

Amount ==
  /\ sent \in Nat
  /\ ~early \/ ~yuv_valid => sent = 2 * Converted
  /\ early /\ yuv_valid => sent + 1 = 2 * Converted

PortInv == FilterInv /\ Shape /\ Order /\ Amount

(* The two output clocks of a byte clock.                                    *)
LEMMA TwoClocks ==
  ASSUME Shape, RgbToYuv, Reformat, output_valid \in BOOLEAN
  PROVE  /\ yuv_valid' = output_valid /\ yuv' = output.here[0]
         /\ port' = <<port'[1], port'[2]>> /\ Register(port'[1]) /\ Register(port'[2])
         /\ port'[2].lv <=> output_valid
         /\ ~early => /\ port'[1].lv <=> output_valid
                      /\ ~port'[2].lsw
                      /\ output_valid => /\ port'[1].word = <<yuv', "upper">>
                                         /\ port'[2].word = <<yuv', "lower">>
         /\ early => /\ port'[1].lv <=> yuv_valid
                     /\ port'[2].lsw <=> output_valid
                     /\ output_valid => port'[2].word = <<yuv', "upper">>
                     /\ yuv_valid => port'[1].word = <<yuv, "lower">>
<1>1. yuv_valid' = output_valid /\ yuv' = output.here[0]
  BY DEF RgbToYuv, ConvertedValid
<1> DEFINE first == OutputReformatter(port[2], SeenValid, IF early THEN yuv ELSE yuv')
           second == OutputReformatter(first, yuv_valid', yuv')
<1>2. port' = <<first, second>>
  BY DEF Reformat
<1>3. port'[1] = first /\ port'[2] = second
  BY <1>2
<1>4. /\ Register(first) /\ (first.lv <=> SeenValid) /\ (first.lsw <=> SeenValid /\ ~port[2].lsw)
      /\ SeenValid /\ port[2].lsw => first.word = <<IF early THEN yuv ELSE yuv', "lower">>
      /\ SeenValid /\ ~port[2].lsw => first.word = <<IF early THEN yuv ELSE yuv', "upper">>
  BY OneClock DEF Shape
<1> HIDE DEF first
<1>5. /\ Register(second) /\ (second.lv <=> yuv_valid') /\ (second.lsw <=> yuv_valid' /\ ~first.lsw)
      /\ yuv_valid' /\ first.lsw => second.word = <<yuv', "lower">>
      /\ yuv_valid' /\ ~first.lsw => second.word = <<yuv', "upper">>
  BY <1>4, OneClock
<1> HIDE DEF second
<1>6. CASE early
  <2>1. SeenValid = yuv_valid
    BY <1>6 DEF SeenValid
  <2>2. (port[2].lsw <=> yuv_valid) /\ yuv_valid \in BOOLEAN
    BY <1>6 DEF Shape
  <2>3. ~first.lsw /\ (first.lv <=> yuv_valid) /\ (yuv_valid => first.word = <<yuv, "lower">>)
    BY <1>4, <1>6, <2>1, <2>2
  <2> QED
    BY <1>1, <1>2, <1>3, <1>4, <1>5, <1>6, <2>3
<1>7. CASE ~early
  <2>1. SeenValid = output_valid
    BY <1>1, <1>7 DEF SeenValid
  <2>2. ~port[2].lsw
    BY <1>7 DEF Shape
  <2>3. (first.lsw <=> output_valid) /\ (first.lv <=> output_valid)
        /\ (output_valid => first.word = <<yuv', "upper">>)
    BY <1>4, <1>7, <2>1, <2>2
  <2> QED
    BY <1>1, <1>2, <1>3, <1>4, <1>5, <1>7, <2>3
<1> QED
  BY <1>6, <1>7

(* A byte clock keeps the port's order and count.                            *)
LEMMA PortClocks ==
  ASSUME CounterLasts, PortInv, FilterInv', Clocked, RgbToYuv, Reformat, sent' = Sent, early' = early
  PROVE  PortInv'
<1>1. output_valid \in BOOLEAN /\ yuv_valid \in BOOLEAN /\ early \in BOOLEAN
  BY DEF PortInv, FilterInv, CountInv, Shape
<1>2. /\ yuv_valid' = output_valid /\ yuv' = output.here[0]
      /\ port' = <<port'[1], port'[2]>> /\ Register(port'[1]) /\ Register(port'[2])
      /\ port'[2].lv <=> output_valid
      /\ ~early => /\ port'[1].lv <=> output_valid
                   /\ ~port'[2].lsw
                   /\ output_valid => /\ port'[1].word = <<yuv', "upper">>
                                      /\ port'[2].word = <<yuv', "lower">>
      /\ early => /\ port'[1].lv <=> yuv_valid
                  /\ port'[2].lsw <=> output_valid
                  /\ output_valid => port'[2].word = <<yuv', "upper">>
                  /\ yuv_valid => port'[1].word = <<yuv, "lower">>
  BY <1>1, TwoClocks DEF PortInv
<1>3. /\ Converted \in Nat /\ Converted' \in Nat /\ frame' = frame
      /\ LineStarts => Converted' = 0 /\ ~output_valid /\ Fresh
      /\ ~LineStarts => /\ line_counter' = line_counter
                        /\ output_valid => Converted' = Converted + 1
                        /\ ~output_valid => Converted' = Converted
      /\ output_valid => output.here[0] = At(line_counter - 2, Converted)
  BY ConvertedStep DEF PortInv
<1>4. LineStarts => ~yuv_valid /\ ~output_valid
  BY <1>3 DEF PortInv, Shape
<1>5. yuv_valid' \in BOOLEAN /\ (yuv_valid' <=> output_valid)
  BY <1>1, <1>2
<1>6. \A l, n : <<frame', l, BYTES_PERPACK * n>> = At(l, n)
  BY <1>3 DEF At
<1>7. Shape'
  <2>1. Fresh' => ~output_valid
    BY ClockSummary DEF PortInv, FilterInv, StoreInv, CountInv
  <2> QED
    BY <1>1, <1>2, <1>5, <2>1 DEF Shape
<1>8. Order'
  <2>1. yuv_valid' => \E n \in Nat : Converted' = n + 1 /\ yuv' = <<frame', line_counter' - 2, BYTES_PERPACK * n>>
    BY <1>2, <1>3, <1>4, <1>5, <1>6
  <2>2. ~early' /\ yuv_valid' => port'[1].word = <<yuv', "upper">> /\ port'[2].word = <<yuv', "lower">>
    BY <1>2, <1>5
  <2>3. early' /\ yuv_valid' => port'[2].word = <<yuv', "upper">>
    BY <1>2, <1>5
  <2>4. ASSUME early', port'[1].lv
        PROVE  \E n \in Nat : /\ port'[1].word = <<<<frame', line_counter' - 2, BYTES_PERPACK * n>>, "lower">>
                              /\ yuv_valid' => Converted' = n + 2
                              /\ ~yuv_valid' => Converted' = n + 1
    <3>1. yuv_valid /\ early /\ ~LineStarts
      BY <1>2, <1>4, <2>4
    <3>2. PICK n \in Nat : Converted = n + 1 /\ yuv = At(line_counter - 2, n)
      BY <3>1 DEF PortInv, Order
    <3>3. port'[1].word = <<<<frame', line_counter' - 2, BYTES_PERPACK * n>>, "lower">>
      BY <1>2, <1>3, <1>6, <3>1, <3>2
    <3>4. (yuv_valid' => Converted' = n + 2) /\ (~yuv_valid' => Converted' = n + 1)
      BY <1>3, <1>5, <3>1, <3>2
    <3> QED
      BY <3>3, <3>4
  <2> QED
    BY <2>1, <2>2, <2>3, <2>4 DEF Order, At
<1>9. Amount'
  <2>1. sent' = (IF LineStarts THEN 0 ELSE sent)
                  + (IF port'[1].lv THEN 1 ELSE 0) + (IF port'[2].lv THEN 1 ELSE 0)
    BY DEF Sent
  <2>2. CASE LineStarts
    <3>1. ~port'[1].lv /\ ~port'[2].lv
      BY <1>1, <1>2, <1>4, <2>2
    <3>2. sent' = 0
      BY <2>1, <2>2, <3>1
    <3> QED
      BY <1>3, <1>4, <1>5, <2>2, <3>2 DEF Amount
  <2>3. CASE ~LineStarts /\ ~early
    <3>1. sent = 2 * Converted
      BY <2>3 DEF PortInv, Amount
    <3>2. CASE output_valid
      <4>1. sent' = 2 * Converted + 1 + 1 /\ Converted' = Converted + 1
        BY <1>2, <1>3, <2>1, <2>3, <3>1, <3>2
      <4> QED
        BY <1>3, <2>3, <4>1 DEF Amount
    <3>3. CASE ~output_valid
      <4>1. sent' = 2 * Converted /\ Converted' = Converted
        BY <1>2, <1>3, <2>1, <2>3, <3>1, <3>3
      <4> QED
        BY <1>3, <2>3, <4>1 DEF Amount
    <3> QED
      BY <3>2, <3>3
  <2>4. CASE ~LineStarts /\ early
    <3>1. PICK out \in Nat : out = 2 * Converted /\ sent + (IF port'[1].lv THEN 1 ELSE 0) = out
      <4>1. CASE yuv_valid
        BY <1>2, <1>3, <2>4, <4>1 DEF PortInv, Amount
      <4>2. CASE ~yuv_valid
        BY <1>2, <1>3, <2>4, <4>2 DEF PortInv, Amount
      <4> QED
        BY <4>1, <4>2
    <3>2. CASE output_valid
      <4>1. sent' = out + 1 /\ sent' \in Nat
        BY <1>2, <2>1, <2>4, <3>1, <3>2
      <4>2. sent' + 1 = 2 * Converted'
        BY <1>3, <2>4, <3>1, <3>2, <4>1
      <4> QED
        BY <1>5, <2>4, <3>2, <4>1, <4>2 DEF Amount
    <3>3. CASE ~output_valid
      <4>1. sent' = out /\ sent' \in Nat
        BY <1>2, <2>1, <2>4, <3>1, <3>3
      <4>2. sent' = 2 * Converted'
        BY <1>3, <2>4, <3>1, <3>3, <4>1
      <4> QED
        BY <1>5, <2>4, <3>3, <4>1, <4>2 DEF Amount
    <3> QED
      BY <3>2, <3>3
  <2> QED
    BY <1>1, <2>2, <2>3, <2>4
<1> QED
  BY <1>7, <1>8, <1>9 DEF PortInv

(* Whatever the port does, the path behind it takes its own steps.           *)
LEMMA PathSteps == [PortNext]_<<vars, portVars>> => [Next]_vars
BY DEF PortNext, Next

(* Every step of the port keeps all of it.                                   *)
LEMMA PortStep == CounterLasts /\ PortInv /\ [PortNext]_<<vars, portVars>> => PortInv'
<1> SUFFICES ASSUME CounterLasts, PortInv, [PortNext]_<<vars, portVars>> PROVE PortInv'
  OBVIOUS
<1>1. FilterInv'
  BY PathSteps, FilterInvStep DEF PortInv
<1>2. CASE Clocked /\ RgbToYuv /\ Reformat /\ sent' = Sent /\ UNCHANGED early
  BY <1>1, <1>2, PortClocks
<1>3. CASE NewFrame /\ PortDrained /\ sent' = 0 /\ UNCHANGED <<yuv_valid, yuv, port, early>>
  <2>1. /\ yuv_valid' = yuv_valid /\ yuv' = yuv /\ port' = port /\ early' = early /\ sent' = 0
        /\ ~yuv_valid /\ ~port[1].lv /\ ~port[2].lv
    BY <1>3 DEF PortDrained
  <2>2. Converted' = 0 /\ ~Fresh'
    BY <1>3 DEF NewFrame, FilterReset, Converted, Fresh
  <2>3. Shape'
    BY <2>1, <2>2 DEF PortInv, Shape
  <2>4. Order'
    BY <2>1 DEF Order
  <2>5. Amount'
    BY <2>1, <2>2 DEF Amount
  <2> QED
    BY <1>1, <2>3, <2>4, <2>5 DEF PortInv
<1>4. CASE UNCHANGED <<vars, portVars>>
  <2>1. /\ yuv_valid' = yuv_valid /\ yuv' = yuv /\ port' = port /\ early' = early /\ sent' = sent
        /\ Converted' = Converted /\ (Fresh' <=> Fresh) /\ line_counter' = line_counter
        /\ frame' = frame
    BY <1>4 DEF vars, portVars, sensorVars, filterVars, Converted, Fresh
  <2>2. Shape'
    BY <2>1 DEF PortInv, Shape
  <2>3. Order'
    BY <2>1 DEF PortInv, Order, At
  <2>4. Amount'
    BY <2>1 DEF PortInv, Amount
  <2> QED
    BY <1>1, <2>2, <2>3, <2>4 DEF PortInv
<1> QED
  BY <1>2, <1>3, <1>4 DEF PortNext

(* Theorem: all that is proved of the pixel path holds with the port behind  *)
(* it.                                                                       *)
THEOREM PortTakesPath == PortSpec => Spec
<1>1. PortInit => Init
  BY DEF PortInit
<1> QED
  BY <1>1, PathSteps, PTL DEF PortSpec, Spec

(* Theorem: the five invariants of the pixel path, with the port behind it.  *)
THEOREM PathBehindPort ==
  ASSUME CounterLasts
  PROVE  PortSpec => [](PixelsInPlace /\ LineStored /\ RowsInOrder /\ LineShown /\ ColoursMatch)
  BY CounterLasts, PortTakesPath, Depacked, Stores, InOrder, Shows, Colours, PTL

(* Theorem: converter, port and the count of the words follow the filter.    *)
THEOREM Porting == ASSUME CounterLasts PROVE PortSpec => []PortInv
<1>1. PortInit => PortInv
  <2> SUFFICES ASSUME PortInit PROVE PortInv
    OBVIOUS
  <2>1. Init /\ yuv_valid = FALSE /\ port = <<Idle, Idle>> /\ early \in BOOLEAN /\ sent = 0
    BY DEF PortInit
  <2>2. yuv_valid \in BOOLEAN /\ ~yuv_valid
    BY <2>1
  <2>3. Register(Idle) /\ ~Idle.lv /\ ~Idle.lsw
    BY DEF Register, Idle
  <2>4. Converted = 0 /\ ~Fresh
    BY <2>1 DEF Init, Converted, Fresh
  <2>5. port[1] = Idle /\ port[2] = Idle
    BY <2>1
  <2>6. Shape
    BY <2>1, <2>2, <2>3, <2>4, <2>5 DEF Shape
  <2>7. Order
    BY <2>2, <2>3, <2>5 DEF Order
  <2>8. Amount
    BY <2>1, <2>2, <2>4 DEF Amount
  <2> QED
    BY <2>1, <2>6, <2>7, <2>8, AtFirst DEF PortInv
<1>2. PortInv /\ [PortNext]_<<vars, portVars>> => PortInv'
  BY CounterLasts, PortStep
<1> QED
  BY <1>1, <1>2, PTL DEF PortSpec

(* Theorem: the words of a line leave in order, each group its upper and     *)
(* then its lower half, whichever way the two clocks fall together.          *)
THEOREM WordOrder == ASSUME CounterLasts PROVE PortSpec => []WordsInOrder
<1>1. PortInv => WordsInOrder
  <2> SUFFICES ASSUME PortInv PROVE WordsInOrder
    OBVIOUS
  <2>1. \A n \in Nat : /\ NthWord(2 * n + 1) = <<At(line_counter - 2, n), "upper">>
                       /\ NthWord(2 * n + 2) = <<At(line_counter - 2, n), "lower">>
    <3> TAKE n \in Nat
    <3>1. ((2 * n + 1) - 1) \div 2 = n /\ (2 * n + 1) % 2 = 1
      OBVIOUS
    <3>2. ((2 * n + 2) - 1) \div 2 = n /\ (2 * n + 2) % 2 # 1
      OBVIOUS
    <3> QED
      BY <3>1, <3>2 DEF NthWord
  <2>2. Converted \in Nat /\ early \in BOOLEAN /\ yuv_valid \in BOOLEAN
        /\ (port[2].lv <=> yuv_valid)
    <3>1. output_valid => shown > 0
      BY DEF PortInv, FilterInv, ShownInv
    <3>2. shown \in Nat
      BY DEF PortInv, FilterInv, CountInv
    <3> QED
      BY <3>1, <3>2 DEF PortInv, Shape, Converted
  <2>3. CASE ~early /\ yuv_valid
    <3>1. PICK n \in Nat : Converted = n + 1 /\ yuv = At(line_counter - 2, n)
      BY <2>3 DEF PortInv, Order
    <3>2. sent = 2 * n + 2 /\ sent - 1 = 2 * n + 1
      BY <2>3, <3>1 DEF PortInv, Amount
    <3>3. port[1].word = <<yuv, "upper">> /\ port[2].word = <<yuv, "lower">>
      BY <2>3 DEF PortInv, Order
    <3> QED
      BY <2>1, <2>2, <2>3, <3>1, <3>2, <3>3 DEF WordsInOrder
  <2>4. CASE ~early /\ ~yuv_valid
    BY <2>2, <2>4 DEF PortInv, Shape, WordsInOrder
  <2>5. CASE early
    <3>1. port[2].lv => port[2].word = NthWord(sent)
      <4> SUFFICES ASSUME yuv_valid PROVE port[2].word = NthWord(sent)
        BY <2>2
      <4>1. PICK n \in Nat : Converted = n + 1 /\ yuv = At(line_counter - 2, n)
        BY DEF PortInv, Order
      <4>2. sent + 1 = 2 * n + 2 /\ sent \in Nat
        BY <2>5, <4>1 DEF PortInv, Amount
      <4>3. sent = 2 * n + 1
        BY <4>2
      <4>4. port[2].word = <<yuv, "upper">>
        BY <2>5 DEF PortInv, Order
      <4> QED
        BY <2>1, <4>1, <4>3, <4>4
    <3>2. port[1].lv => port[1].word = NthWord(IF port[2].lv THEN sent - 1 ELSE sent)
      <4> SUFFICES ASSUME port[1].lv
                   PROVE  port[1].word = NthWord(IF port[2].lv THEN sent - 1 ELSE sent)
        OBVIOUS
      <4>1. PICK n \in Nat : /\ port[1].word = <<At(line_counter - 2, n), "lower">>
                             /\ yuv_valid => Converted = n + 2
                             /\ ~yuv_valid => Converted = n + 1
        BY <2>5 DEF PortInv, Order
      <4>2. CASE yuv_valid
        <5>1. sent + 1 = 2 * n + 4 /\ sent \in Nat
          BY <2>5, <4>1, <4>2 DEF PortInv, Amount
        <5>2. sent - 1 = 2 * n + 2
          BY <5>1
        <5> QED
          BY <2>1, <2>2, <4>1, <4>2, <5>2
      <4>3. CASE ~yuv_valid
        <5>1. sent = 2 * n + 2
          BY <4>1, <4>3 DEF PortInv, Amount
        <5> QED
          BY <2>1, <2>2, <4>1, <4>3, <5>1
      <4> QED
        BY <2>2, <4>2, <4>3
    <3> QED
      BY <3>1, <3>2 DEF WordsInOrder
  <2> QED
    BY <2>2, <2>3, <2>4, <2>5
<1> QED
  BY <1>1, Porting, PTL

(* Theorem: no word of a line is lost or sent twice.                         *)
THEOREM Sends == ASSUME CounterLasts PROVE PortSpec => []LineSent
<1>1. PortInv => LineSent
  <2> SUFFICES ASSUME PortInv, phase = "gap", Drained, ~yuv_valid
               PROVE  sent = IF line > 2 THEN 2 * Groups(words) ELSE 0
    BY DEF LineSent, PortDrained
  <2>1. Current = line /\ Total = Groups(words) /\ line \in Nat /\ ~data_valid_reg /\ ~output_valid
    BY DEF PortInv, FilterInv, StoreInv, DecoderInv, Current, Fresh, Total, Drained
  <2>2. sent = 2 * shown
    BY <2>1 DEF PortInv, Amount, Converted
  <2> QED
    BY <2>1, <2>2 DEF PortInv, FilterInv, CountInv
<1> QED
  BY <1>1, Porting, PTL

(* Two output clocks and the next two.                                       *)
LEMMA FourClocks ==
  ASSUME NEW a, NEW b, NEW c, NEW d
  PROVE  /\ (<<a, b>> \o <<c, d>>)[1] = a /\ (<<a, b>> \o <<c, d>>)[2] = b
         /\ (<<a, b>> \o <<c, d>>)[3] = c /\ (<<a, b>> \o <<c, d>>)[4] = d
<1> DEFINE S == {a, b, c, d}
<1>1. <<a, b>> \in Seq(S) /\ <<c, d>> \in Seq(S) /\ Len(<<a, b>>) = 2 /\ Len(<<c, d>>) = 2
  OBVIOUS
<1> QED
  BY <1>1

(* Theorem: LV never rises again after a single clock.                       *)
THEOREM Gaps == ASSUME CounterLasts PROVE PortSpec => GapsLongEnough
<1>1. PortInv /\ PortInv' /\ [PortNext]_<<vars, portVars>>
        => [LET lv == [k \in 1..4 |-> (port \o port')[k].lv]
            IN \A k \in 1..2 : ~(lv[k] /\ ~lv[k + 1] /\ lv[k + 2])]_<<vars, portVars>>
  <2> SUFFICES ASSUME PortInv, PortInv', PortNext
               PROVE  LET lv == [k \in 1..4 |-> (port \o port')[k].lv]
                      IN \A k \in 1..2 : ~(lv[k] /\ ~lv[k + 1] /\ lv[k + 2])
    OBVIOUS
  <2>1. port = <<port[1], port[2]>> /\ port' = <<port'[1], port'[2]>>
    BY DEF PortInv, Shape
  <2> DEFINE lv == [k \in 1..4 |-> (port \o port')[k].lv]
  <2>2. lv[1] = port[1].lv /\ lv[2] = port[2].lv /\ lv[3] = port'[1].lv /\ lv[4] = port'[2].lv
    <3>1. PICK a, b, c, d : /\ a = port[1] /\ b = port[2] /\ c = port'[1] /\ d = port'[2]
                            /\ port = <<a, b>> /\ port' = <<c, d>>
      BY <2>1
    <3>2. PICK q : q = port \o port'
      OBVIOUS
    <3>3. q[1] = a /\ q[2] = b /\ q[3] = c /\ q[4] = d
      BY <3>1, <3>2, FourClocks
    <3>4. lv = [k \in 1..4 |-> q[k].lv]
      BY <3>2
    <3> HIDE DEF lv
    <3> QED
      BY <3>1, <3>3, <3>4
  <2>3. /\ ~(port[1].lv /\ ~port[2].lv /\ port'[1].lv)
        /\ ~(port[2].lv /\ ~port'[1].lv /\ port'[2].lv)
    <3>1. CASE Clocked /\ RgbToYuv /\ Reformat /\ sent' = Sent /\ UNCHANGED early
      BY <3>1, TwoClocks DEF PortInv, Shape, FilterInv, CountInv
    <3>2. CASE NewFrame /\ PortDrained /\ sent' = 0 /\ UNCHANGED <<yuv_valid, yuv, port, early>>
      BY <3>2 DEF PortDrained
    <3> QED
      BY <3>1, <3>2 DEF PortNext
  <2> HIDE DEF lv
  <2>4. \A k \in 1..2 : ~(lv[k] /\ ~lv[k + 1] /\ lv[k + 2])
    <3>1. ~(lv[1] /\ ~lv[2] /\ lv[3]) /\ ~(lv[2] /\ ~lv[3] /\ lv[4])
      BY <2>2, <2>3
    <3> QED
      BY <3>1
  <2> QED
    BY <2>4 DEF lv
<1> QED
  BY <1>1, Porting, PTL DEF PortSpec, GapsLongEnough

=============================================================================
