----------------------------- MODULE OutputPort ------------------------------
(***************************************************************************)
(* The end of the FPGA's pipeline: the colour converter (rgb_to_yuv.v) and *)
(* the output reformatter (output_reformatter.v), which sends each group   *)
(* of four pixels as two words on a clock twice as fast, behind PixelPath. *)
(* lsync_out is the LV, and the words are the data, that the GPIF sees.    *)
(*                                                                         *)
(* The converter works at the falling edge of the byte clock, before the   *)
(* filter's next output.  The output clock rises at both edges; whether    *)
(* the reformatter still sees the converter's old output at the falling    *)
(* one depends on the routing, and stays as it is.                         *)
(*                                                                         *)
(* A group is named by the RAM entry in its centre; what the conversion    *)
(* computes is ColorSpace's subject.                                       *)
(***************************************************************************)
EXTENDS PixelPath, Sequences

VARIABLES
  yuv_valid, yuv,   \* output of the converter
  port,             \* the reformatter after each of the last two output clocks
  early,            \* the reformatter sees old data at the falling edge
  sent              \* history: words of this line that have left the port

portVars == <<yuv_valid, yuv, port, early, sent>>

Idle == [lsw |-> FALSE, lv |-> FALSE, word |-> <<Empty, "none">>]

(* output_reformatter, one output clock: the upper half goes first.          *)
HalfSwapped(lsw) == IF lsw THEN "upper" ELSE "lower"
Half(lsw) == IF lsw THEN "lower" ELSE "upper"

OutputReformatter(reg, valid, data) ==
  IF valid THEN [lsw |-> ~reg.lsw, lv |-> TRUE, word |-> <<data, Half(reg.lsw)>>]
           ELSE [reg EXCEPT !.lsw = FALSE, !.lv = FALSE]

(* What the converter passes on of the filter's valid signal.                *)
ConvertedValidPulse == output_valid /\ ~yuv_valid
ConvertedValid == output_valid

RgbToYuv == yuv_valid' = ConvertedValid /\ yuv' = output.here[0]

(* The valid signal at the output clock of the falling edge.                 *)
SeenValidTooSoon == yuv_valid \/ yuv_valid'
SeenValid == IF early THEN yuv_valid ELSE yuv_valid'

Reformat ==
  LET first == OutputReformatter(port[2], SeenValid, IF early THEN yuv ELSE yuv')
  IN port' = <<first, OutputReformatter(first, yuv_valid', yuv')>>

Sent == (IF LineStarts THEN 0 ELSE sent)
          + (IF port'[1].lv THEN 1 ELSE 0) + (IF port'[2].lv THEN 1 ELSE 0)

PortDrained == ~yuv_valid /\ ~port[1].lv /\ ~port[2].lv

PortInit ==
  /\ Init
  /\ yuv_valid = FALSE /\ yuv = Empty /\ port = <<Idle, Idle>>
  /\ early \in BOOLEAN /\ sent = 0

PortNext ==
  \/ Clocked /\ RgbToYuv /\ Reformat /\ sent' = Sent /\ UNCHANGED early
  \/ NewFrame /\ PortDrained /\ sent' = 0 /\ UNCHANGED <<yuv_valid, yuv, port, early>>

PortSpec == PortInit /\ [][PortNext]_<<vars, portVars>>

-----------------------------------------------------------------------------
(* The n-th word of the line on its way to the host: two lines above the one *)
(* whose payload came last (RowsInOrder ties line_counter to line).          *)
NthWord(n) == <<At(line_counter - 2, (n - 1) \div 2), IF n % 2 = 1 THEN "upper" ELSE "lower">>

(* The groups of a line leave in order, each as its upper and then its lower *)
(* half, whichever way the two clocks fall together.                         *)
WordsInOrder ==
  /\ port[2].lv => port[2].word = NthWord(sent)
  /\ port[1].lv => port[1].word = NthWord(IF port[2].lv THEN sent - 1 ELSE sent)

(* No word is lost or sent twice: a line of the picture is all of its groups.*)
LineSent ==
  phase = "gap" /\ Drained /\ PortDrained =>
    sent = IF line > 2 THEN 2 * Groups(words) ELSE 0

(* LV falls within a line too, in the depacker's empty clock, and the GPIF   *)
(* machine needs two clocks for it (LINE_END, WAIT_TO_FILL): it never gets   *)
(* less.  GpifStream assumes this as LineGap.                                *)
GapsLongEnough ==
  [][LET lv == [k \in 1..4 |-> (port \o port')[k].lv]
     IN \A k \in 1..2 : ~(lv[k] /\ ~lv[k + 1] /\ lv[k + 2])]_<<vars, portVars>>
=============================================================================
