----------------------------- MODULE PixelPath ------------------------------
(***************************************************************************)
(* The FPGA from the aligned words to the picture: the packet decoder      *)
(* (mipi_csi_packet_decoder.v) strips header and footer, the depacker      *)
(* (mipi_rx_raw10_depacker.v) cuts the payload into groups of four ten-bit *)
(* pixels (five bytes), and the debayer filter (debayer_filter.v) keeps    *)
(* four lines in RAM, writing one and reading the three others.            *)
(*                                                                         *)
(* A step is one byte clock.  At its falling edge the decoder and the line *)
(* RAMs work, and a line_valid that rises turns the RAMs; at the rising    *)
(* edge that follows the depacker and the filter see the decoder's and the *)
(* RAMs' new outputs, and each other's old ones.                           *)
(*                                                                         *)
(* Data is abstracted to places: a payload word to its number in the line, *)
(* a group of pixels to the numbers of its bytes, a RAM entry to frame,    *)
(* line and number of its first byte, the filter's output to the entries   *)
(* the colours are averaged from (the arithmetic is ColorSpace's).  Of the *)
(* first byte of a word (lane 0) it matters whether it is the sync byte or *)
(* the RAW10 packet type.                                                  *)
(***************************************************************************)
EXTENDS Integers

CONSTANTS
  LineWords,   \* possible payload lengths of a line, in words
  WIDTH,       \* bits of packet_length_reg (32)
  ADDRESSES,   \* entries of a line RAM (1024)
  MaxLines,    \* bound: lines of a frame
  MaxFrames    \* bound: frames

LANES == 4
BYTES_PERPACK == 5

ASSUME PixelPathAssumption ==
  /\ LineWords \subseteq Nat \ {0} /\ LineWords # {}
  /\ WIDTH \in Nat /\ 2^WIDTH \in Nat /\ ADDRESSES \in Nat \ {0}
  /\ \A n \in LineWords : LANES * n < 2^WIDTH /\ LANES * n <= BYTES_PERPACK * ADDRESSES
  /\ MaxLines \in Nat /\ MaxFrames \in Nat

VARIABLES
  \* the sensor, through the lane aligner
  phase, left, words, frame, line,
  \* packet decoder
  last_data, packet_length_reg, decoded_valid, decoded,
  \* depacker
  byte_count, offset, last_word, unpacked_valid, unpacked,
  \* debayer filter
  line_address, write_ram, read_ram_index, line_counter,
  ram, RAM_out, last_ram_outputs, last_ram_outputs_stage2,
  data_valid_reg, output_valid, output,
  shown       \* history: groups put out in this line

sensorVars  == <<phase, left, words, frame, line>>
decoderVars == <<last_data, packet_length_reg, decoded_valid, decoded>>
depackVars  == <<byte_count, offset, last_word, unpacked_valid, unpacked>>
ramVars     == <<ram, RAM_out, last_ram_outputs, last_ram_outputs_stage2>>
filterVars  == <<line_address, write_ram, read_ram_index, line_counter, ramVars,
                 data_valid_reg, output_valid, output, shown>>
vars == <<sensorVars, decoderVars, depackVars, filterVars>>

Rams == 0..3
Empty == <<0, 0, 0>>
NoWord == -1
NoGroup == [j \in 1..BYTES_PERPACK |-> 0]
Rows == {-1, 0, 1}   \* the line above, the line itself, the line below
Groups(n) == (LANES * n) \div BYTES_PERPACK   \* whole groups in n words

-----------------------------------------------------------------------------
(* mipi_csi_packet_decoder: the word w that comes in is valid, has a first  *)
(* byte, and is the header of a packet of len bytes or payload word id.     *)
NextLengthAnywhere(w) ==
  IF last_data = "SYNC" /\ w.first = "RAW10" THEN w.len
  ELSE IF packet_length_reg # 0 THEN (packet_length_reg - LANES) % 2^WIDTH ELSE 0
NextLength(w) ==
  IF packet_length_reg # 0 THEN (packet_length_reg - LANES) % 2^WIDTH
  ELSE IF last_data = "SYNC" /\ w.first = "RAW10" THEN w.len ELSE 0

PacketDecoder(w) ==
  IF w.valid
  THEN /\ last_data' = w.first /\ decoded' = w.id
       /\ decoded_valid' = (packet_length_reg # 0)
       /\ packet_length_reg' = NextLength(w)
  ELSE /\ last_data' = "DATA" /\ decoded' = NoWord
       /\ decoded_valid' = FALSE /\ packet_length_reg' = 0

(* mipi_rx_raw10_depacker: the bytes of a group lie in the last word and    *)
(* this one, from offset on; the fifth holds the low bits.  A word that     *)
(* completes no group starts the next pack.                                 *)
ByteAt(j) == IF j < LANES THEN LANES * last_word + j
             ELSE LANES * decoded' + (j - LANES)

PackEndsLate == byte_count <= BYTES_PERPACK
WithinPack == byte_count < BYTES_PERPACK

Depacker ==
  IF decoded_valid'
  THEN /\ last_word' = decoded'
       /\ unpacked' = [j \in 1..BYTES_PERPACK |-> ByteAt(offset + j - 1)]
       /\ byte_count' = IF WithinPack THEN byte_count + 1 ELSE 1
       /\ offset' = IF ~WithinPack THEN 0
                    ELSE IF byte_count # 0 THEN (offset + 1) % LANES ELSE offset
       /\ unpacked_valid' = (WithinPack /\ (byte_count # 0 \/ unpacked_valid))
  ELSE /\ last_word' = NoWord /\ unpacked' = NoGroup
       /\ byte_count' = 0 /\ offset' = 0 /\ unpacked_valid' = FALSE

-----------------------------------------------------------------------------
(* debayer_filter: the RAMs, written and read at one address.               *)
LineRams ==
  /\ ram' = IF unpacked_valid
            THEN [ram EXCEPT ![write_ram][line_address] = <<frame, line, unpacked[1]>>]
            ELSE ram
  /\ RAM_out' = [r \in Rams |-> ram[r][line_address]]
  /\ last_ram_outputs' = RAM_out'
  /\ last_ram_outputs_stage2' = last_ram_outputs

(* A line that starts turns the RAMs: the oldest is written next.           *)
LineStarts == ~decoded_valid /\ decoded_valid'
NextRam(r) == (r + 1) % 4

TurnRamsNotRead ==
  /\ write_ram' = NextRam(write_ram) /\ read_ram_index' = read_ram_index
  /\ line_counter' = (line_counter + 1) % 2^12
TurnRams ==
  /\ write_ram' = NextRam(write_ram) /\ read_ram_index' = NextRam(read_ram_index)
  /\ line_counter' = (line_counter + 1) % 2^12

StartLine == IF LineStarts THEN TurnRams
             ELSE UNCHANGED <<write_ram, read_ram_index, line_counter>>

NextAddress == IF ~decoded_valid' THEN 0
               ELSE IF unpacked_valid THEN (line_address + 1) % ADDRESSES
               ELSE line_address

EnoughLinesLate == line_counter' > 3
EnoughLines == line_counter' > 2

(* The entries within reach: of three lines, the group itself and, one clock *)
(* earlier and later, what should be the ones to its left and right.         *)
Window ==
  LET Of(outputs) == [row \in Rows |-> outputs[(read_ram_index' + row) % 4]] IN
  [even   |-> line_counter' % 2 = 0,
   before |-> Of(last_ram_outputs_stage2),
   here   |-> Of(last_ram_outputs),
   after  |-> Of(RAM_out')]

(* The pixels that each colour of pixel p of a group is averaged from, as    *)
(* rows and places in a row; the group has places 0 to 3.                    *)
Across(p) == {<<0, p - 1>>, <<0, p + 1>>}
Along(p) == {<<-1, p>>, <<1, p>>}
Corners(p) == {-1, 1} \X {p - 1, p + 1}

Averaged(even, p, colour) ==
  CASE even /\ p \in {0, 2} -> [G |-> {<<0, p>>}, R |-> Across(p), B |-> Along(p)][colour]
    [] even /\ p \in {1, 3} ->
         [R |-> {<<0, p>>}, G |-> Across(p) \cup Along(p), B |-> Corners(p)][colour]
    [] ~even /\ p \in {0, 2} ->
         [B |-> {<<0, p>>}, G |-> Across(p) \cup Along(p), R |-> Corners(p)][colour]
    [] ~even /\ p = 1 -> [G |-> {<<0, 1>>}, B |-> Across(1), R |-> Along(1)][colour]
    [] ~even /\ p = 3 -> [G |-> {<<0, 3>>, <<0, 7>>}, B |-> Across(3), R |-> Along(3)][colour]

(* Where such a pixel really comes from: its line and its column.            *)
Pixel(entry, q) == <<entry[2], 4 * (entry[3] \div BYTES_PERPACK) + q>>
Taken(out, place) ==
  LET row == place[1]
      q == place[2]
  IN IF q < 0 THEN Pixel(out.before[row], q + 4)
     ELSE IF q > 3 THEN Pixel(out.after[row], q - 4)
     ELSE Pixel(out.here[row], q)

Filter ==
  /\ line_address' = NextAddress
  /\ IF EnoughLines
     THEN /\ data_valid_reg' = unpacked_valid /\ output_valid' = data_valid_reg
          /\ output' = Window
     ELSE UNCHANGED <<data_valid_reg, output_valid, output>>
  /\ shown' = (IF LineStarts THEN 0 ELSE shown) + (IF output_valid' THEN 1 ELSE 0)

ByteClock(w) == PacketDecoder(w) /\ LineRams /\ StartLine /\ Depacker /\ Filter

-----------------------------------------------------------------------------
(* The sensor: frames of lines of equal length, short packets between them, *)
(* any trail after a packet, any pause in low power.                        *)
Silent == [valid |-> FALSE, first |-> "DATA", len |-> 0, id |-> NoWord]
Word(tag, id) == [Silent EXCEPT !.valid = TRUE, !.first = tag, !.id = id]

Pause ==
  /\ phase \in {"gap", "trail"} /\ phase' = "gap"
  /\ ByteClock(Silent)
  /\ UNCHANGED <<left, words, frame, line>>

Sync ==
  /\ phase = "gap" /\ phase' = "header"
  /\ ByteClock(Word("SYNC", NoWord))
  /\ UNCHANGED <<left, words, frame, line>>

LineHeader ==
  /\ phase = "header" /\ line < MaxLines
  /\ phase' = "payload" /\ left' = words /\ line' = line + 1
  /\ ByteClock([Word("RAW10", NoWord) EXCEPT !.len = LANES * words])
  /\ UNCHANGED <<words, frame>>

ShortPacket ==
  /\ phase = "header" /\ phase' = "trail"
  /\ ByteClock(Word("DATA", NoWord))
  /\ UNCHANGED <<left, words, frame, line>>

Payload ==
  /\ phase = "payload"
  /\ \E tag \in {"SYNC", "RAW10", "DATA"} : ByteClock(Word(tag, words - left))
  /\ left' = left - 1 /\ phase' = IF left = 1 THEN "footer" ELSE "payload"
  /\ UNCHANGED <<words, frame, line>>

Footer ==
  /\ phase = "footer" /\ phase' = "trail"
  /\ ByteClock(Word("DATA", NoWord))
  /\ UNCHANGED <<left, words, frame, line>>

Trail ==
  /\ phase = "trail"
  /\ ByteClock(Word("DATA", NoWord))
  /\ UNCHANGED sensorVars

(* Between two frames the clock lane is in low power, which resets the      *)
(* filter.  Another mode may be set now.                                    *)
Drained == ~decoded_valid /\ ~unpacked_valid /\ ~data_valid_reg /\ ~output_valid

LineCounterAtResetKept == line_counter
LineCounterAtReset == 0

FilterReset ==
  /\ write_ram' = 3 /\ read_ram_index' = 1 /\ line_counter' = LineCounterAtReset
  /\ line_address' = 0 /\ data_valid_reg' = FALSE /\ output_valid' = FALSE

NewFrame ==
  /\ phase = "gap" /\ Drained /\ line > 0 /\ frame < MaxFrames
  /\ frame' = frame + 1 /\ line' = 0 /\ words' \in LineWords
  /\ FilterReset /\ shown' = 0
  /\ UNCHANGED <<phase, left, decoderVars, depackVars, ramVars, output>>

Init ==
  /\ phase = "gap" /\ left = 0 /\ words \in LineWords /\ frame = 1 /\ line = 0
  /\ last_data = "DATA" /\ packet_length_reg = 0 /\ decoded_valid = FALSE
  /\ decoded = NoWord /\ byte_count = 0 /\ offset = 0 /\ last_word = NoWord
  /\ unpacked_valid = FALSE /\ unpacked = NoGroup
  /\ write_ram = 3 /\ read_ram_index = 1 /\ line_counter = 0 /\ line_address = 0
  /\ ram = [r \in Rams |-> [a \in 0..(ADDRESSES - 1) |-> Empty]]
  /\ RAM_out = [r \in Rams |-> Empty]
  /\ last_ram_outputs = RAM_out /\ last_ram_outputs_stage2 = RAM_out
  /\ data_valid_reg = FALSE /\ output_valid = FALSE
  /\ LET blank == [row \in Rows |-> Empty]
     IN output = [even |-> FALSE, before |-> blank, here |-> blank, after |-> blank]
  /\ shown = 0

Clocked == \/ Pause \/ Sync \/ LineHeader \/ ShortPacket \/ Payload \/ Footer
           \/ Trail
Next == Clocked \/ NewFrame

Spec == Init /\ [][Next]_vars

-----------------------------------------------------------------------------
(* Whatever bytes the payload holds, a group that leaves the depacker is    *)
(* made of the five bytes that belong to the RAM address it is written to:  *)
(* no pixel is lost, doubled or torn at the word that completes none.       *)
PixelsInPlace ==
  unpacked_valid =>
    \A j \in 1..BYTES_PERPACK : unpacked[j] = BYTES_PERPACK * line_address + j - 1

(* When a line is over, the RAM just written holds all of it and nothing of *)
(* header or footer has gone over it.                                       *)
LineStored ==
  phase = "gap" /\ Drained /\ line > 0 =>
    \A a \in 0..(Groups(words) - 1) :
      ram[write_ram][a] = <<frame, line, BYTES_PERPACK * a>>

(* The groups of a line come out in order, each with the same place of the  *)
(* line below and the line above (which the first line has not), and with   *)
(* the next group of the three lines.                                       *)
At(l, n) == <<frame, l, BYTES_PERPACK * n>>
RowsInOrder ==
  output_valid =>
    \A row \in (IF line = 3 THEN {0, 1} ELSE Rows) :
        /\ output.here[row] = At(line - 2 + row, shown - 1)
        /\ shown < Groups(words) => output.after[row] = At(line - 2 + row, shown)

(* From the third line on every line sends one line of the picture, whole,  *)
(* before the next one starts.                                              *)
LineShown ==
  phase = "gap" /\ Drained =>
    shown = IF line > 2 THEN Groups(words) ELSE 0

(* The sensor's colours (debayer_filter.v:83: BGGR), which are those the    *)
(* filter takes apart.  The header of the same file says something else.    *)
BayerColour(l, x) == IF l % 2 = 1 THEN (IF x % 2 = 0 THEN "B" ELSE "G")
                                  ELSE (IF x % 2 = 0 THEN "G" ELSE "R")

(* Away from the border of the picture.                                     *)
Inner == output_valid /\ line > 3 /\ shown \in 2..(Groups(words) - 1)

(* Every value that is averaged into a colour is a pixel of that colour: the *)
(* parity of the line counter, the RAMs' rotation and the sensor's pattern   *)
(* stay in step over lines, short packets and frames of any number of lines. *)
(* It holds for the pattern of line 83 and not for the one line 18 of the    *)
(* same file expects: see HeaderExchanges.                                   *)
ColoursMatch ==
  Inner => \A p \in 0..3, colour \in {"R", "G", "B"} :
             \A place \in Averaged(output.even, p, colour) :
               LET pixel == Taken(output, place)
               IN BayerColour(pixel[1], pixel[2]) = colour

(* debayer_filter.v:18: "First line is expected to RGRG , second line GBGB".*)
HeaderColour(l, x) == IF l % 2 = 1 THEN (IF x % 2 = 0 THEN "R" ELSE "G")
                                  ELSE (IF x % 2 = 0 THEN "G" ELSE "B")

(* With a first line as line 18 expects it, what the filter averages into   *)
(* red is blue and what it averages into blue is red.                       *)
HeaderExchanges ==
  Inner => \A p \in 0..3, colour \in {"R", "G", "B"} :
             \A place \in Averaged(output.even, p, colour) :
               LET pixel == Taken(output, place)
               IN HeaderColour(pixel[1], pixel[2]) =
                    [R |-> "B", G |-> "G", B |-> "R"][colour]

(* debayer_filter.v:15: "debayer need pixel infrom neighboring pixel": what  *)
(* is averaged is at most one column from the pixel it is averaged for.      *)
NeighboursAdjacent ==
  Inner => \A p \in 0..3, colour \in {"R", "G", "B"} :
             \A place \in Averaged(output.even, p, colour) :
               LET own == Taken(output, <<0, p>>)[2]
               IN  Taken(output, place)[2] \in own - 1..own + 1
=============================================================================
