----------------------------- MODULE GpifStream -----------------------------
(***************************************************************************)
(* The path of the video words from the FPGA's parallel port to the USB    *)
(* host: the GPIF-II state machine (gpif2model.xml) deals them out to two  *)
(* DMA sockets in turn, the interrupt handler CyFxGpifCB closes the last   *)
(* buffer of a frame, the DMA callback puts a UVC header on each buffer    *)
(* and commits it, and the host puts the frames together again.            *)
(*                                                                         *)
(* A word is the pair <<frame, index>>, so a frame that was cut, mixed     *)
(* with another or reordered can be told.  One Clock step is one clock of  *)
(* the port.  The counters of the state machine hit their limit when a     *)
(* buffer is full (8188 words of 4 bytes, CY_FX_UVC_BUF_FULL_SIZE).        *)
(* When and why the application restarts the stream is UvcApp's subject:   *)
(* here Restart may come at any moment.                                    *)
(***************************************************************************)
EXTENDS Integers, Sequences, FiniteSets

CONSTANTS
  BufWords,      \* words in a full buffer
  BufCount,      \* buffers of each socket (CY_FX_UVC_STREAM_BUF_COUNT)
  FrameLengths,  \* possible numbers of words in a frame
  MaxFrames      \* bound: frames the sensor sends

ASSUME GpifStreamAssumption ==
  /\ BufWords \in Nat \ {0} /\ BufCount \in Nat \ {0}
  /\ FrameLengths \subseteq Nat /\ MaxFrames \in Nat

VARIABLES
  fv, lv,     \* frame valid and line valid, as driven by the bridge
  low,        \* clocks since lv fell, counted up to FrameGap
  lens,       \* lengths of the frames sent so far, the last one the current
  pos,        \* words of the current frame sent so far
  gst, sck,   \* state of the GPIF machine: its name and its socket
  count,      \* DATA counter (socket 0) and ADDR counter (socket 1)
  fwTrg,      \* the firmware input of the machine
  intr,       \* INTR_CPU raised, the handler has not run yet
  buf,        \* words in the open buffer of each socket
  full,       \* buffers of each socket ready for the firmware
  turn,       \* socket whose buffer the channel hands out next
  fid,        \* frame ID bit in glUVCHeader
  usb,        \* committed buffers the host has not read
  rx, rxFid,  \* words of the frame the host is receiving, and its frame ID
  frame,      \* the last frame the host completed, if nothing excuses it
  damage      \* history: "lost" after an overrun or a failed commit, "glued"
              \* after a restart within a frame, else "none"

bridgeVars == <<fv, lv, low, lens, pos>>
gpifVars   == <<gst, sck, count>>
isrVars    == <<fwTrg, intr>>
dmaVars    == <<buf, full, turn, fid>>
hostVars   == <<rx, rxFid, frame>>
vars == <<bridgeVars, gpifVars, isrVars, dmaVars, usb, hostVars, damage>>

Sockets == {0, 1}
Other(s) == 1 - s

(* The port rests at least this many clocks whenever LV falls, also within  *)
(* a line (OutputPort!GapsLongEnough), and between two frames, where the    *)
(* sensor's blanking takes hundreds.                                        *)
LineGap == 2
FrameGap == 3

Init ==
  /\ fv = FALSE /\ lv = FALSE /\ low = FrameGap /\ lens = <<>> /\ pos = 0
  /\ gst = "START" /\ sck = 0 /\ count = [s \in Sockets |-> 0]
  /\ fwTrg = FALSE /\ intr = FALSE
  /\ buf = [s \in Sockets |-> <<>>] /\ full = [s \in Sockets |-> <<>>]
  /\ turn = 0 /\ fid = 0
  /\ usb = <<>> /\ rx = <<>> /\ rxFid = 0 /\ frame = <<>>
  /\ damage = "none"

-----------------------------------------------------------------------------
(* The bridge: a frame is FV high, its lines are LV high within.            *)

InFrame == Len(lens)
Word == <<InFrame, pos>>

Sends ==
  /\ fv /\ pos < lens[InFrame] /\ (lv \/ low >= LineGap)
  /\ lv' = TRUE /\ pos' = pos + 1 /\ low' = 0
  /\ UNCHANGED <<fv, lens>>

Rests ==
  /\ lv' = FALSE
  /\ low' = IF low < FrameGap THEN low + 1 ELSE low
  /\ UNCHANGED pos
  /\ \/ UNCHANGED <<fv, lens>>
     \/ fv /\ pos = lens[InFrame] /\ fv' = FALSE /\ UNCHANGED lens

Begins ==
  /\ ~fv /\ low >= FrameGap /\ InFrame < MaxFrames
  /\ fv' = TRUE /\ pos' = 0
  /\ \E n \in FrameLengths : lens' = Append(lens, n)
  /\ UNCHANGED <<lv, low>>

-----------------------------------------------------------------------------
(* The GPIF state machine.                                                  *)

CountHit(s) == count[s] = BufWords

(* When a line ends with its buffer full, the machine waits in WAIT_FULL.   *)
LineEndsFull(s) == CountHit(s)

(* From FRAME_END the machine goes on with the other socket.                *)
NextSocketSame(s) == s
NextSocket(s) == Other(s)

(* The next frame starts only from a clock without FV.                      *)
FrameMayStartAnytime == TRUE
FrameMayStart == ~fv'

(* The transitions out of the current state: the equation that enables it,  *)
(* the state it leads to and the socket it works on.                        *)
Edge(on, st, s) == [on |-> on, st |-> st, sck |-> s]
Edges ==
  CASE gst = "START"      -> {Edge(TRUE, "IDLE", sck)}
    [] gst = "IDLE"       -> {Edge(FrameMayStart, "WAIT_FOR_FRAME_START", sck)}
    [] gst = "WAIT_FOR_FRAME_START" -> {Edge(fv' /\ lv', "PUSH_DATA", sck)}
    [] gst = "PUSH_DATA"  -> {Edge(lv' /\ CountHit(sck), "PUSH_DATA", Other(sck)),
                              Edge(~lv', "LINE_END", sck)}
    [] gst = "LINE_END"   -> {Edge(~LineEndsFull(sck), "WAIT_TO_FILL", sck),
                              Edge(LineEndsFull(sck), "WAIT_FULL", sck)}
    [] gst = "WAIT_TO_FILL" -> {Edge(lv', "PUSH_DATA", sck),
                                Edge(~fv', "PARTIAL_BUF_IN", sck)}
    [] gst = "WAIT_FULL"  -> {Edge(lv', "PUSH_DATA", Other(sck)),
                              Edge(~fv', "FULL_BUF_IN", sck)}
    [] gst \in {"PARTIAL_BUF_IN", "FULL_BUF_IN"} ->
                             {Edge(fwTrg, "FRAME_END", sck)}
    [] gst = "FRAME_END"  -> {Edge(~fwTrg, "IDLE", NextSocket(sck))}

Moves ==
  \/ \E e \in Edges : e.on /\ gst' = e.st /\ sck' = e.sck
  \/ (\A e \in Edges : ~e.on) /\ UNCHANGED <<gst, sck>>

(* The counter of the socket being filled counts, the other one is loaded.  *)
Counts ==
  count' = CASE gst' = "WAIT_FOR_FRAME_START" -> [s \in Sockets |-> 0]
             [] gst' = "PUSH_DATA" ->
                  [s \in Sockets |-> IF s = sck' THEN count[s] + 1 ELSE 0]
             [] OTHER -> count

(* The states that raise INTR_CPU.                                          *)
InterruptStatesOnlyPartial == {"PARTIAL_BUF_IN"}
InterruptStates == {"PARTIAL_BUF_IN", "FULL_BUF_IN"}

Interrupts == intr' = (intr \/ (gst' # gst /\ gst' \in InterruptStates))

(* A socket with no free buffer drops what is written to it.                *)
InUse(s) == Len(full[s]) + Cardinality({k \in DOMAIN usb : usb[k].sck = s})
HasRoomAlways(s) == TRUE
HasRoom(s) == buf[s] # <<>> \/ InUse(s) < BufCount

PushWord(s, w) ==
  LET filled == Append(buf[s], w) IN
  IF ~HasRoom(s)
  THEN damage' = "lost" /\ UNCHANGED <<buf, full>>
  ELSE /\ UNCHANGED damage
       /\ IF Len(filled) = BufWords
          THEN /\ buf' = [buf EXCEPT ![s] = <<>>]
               /\ full' = [full EXCEPT ![s] = Append(@, filled)]
          ELSE /\ buf' = [buf EXCEPT ![s] = filled]
               /\ UNCHANGED full

Clock ==
  /\ Sends \/ Rests \/ Begins
  /\ Moves /\ Counts /\ Interrupts
  /\ IF gst' = "PUSH_DATA" THEN PushWord(sck', Word')
                           ELSE UNCHANGED <<buf, full, damage>>
  /\ UNCHANGED <<fwTrg, turn, fid, usb, hostVars>>

-----------------------------------------------------------------------------
(* CyFxGpifCB.                                                              *)

WrapsUpNever == FALSE
WrapsUp == gst = "PARTIAL_BUF_IN"

(* CyU3PDmaSocketSetWrapUp hands over the open buffer of the socket.        *)
WrapUp(s) ==
  IF WrapsUp /\ buf[s] # <<>>
  THEN /\ full' = [full EXCEPT ![s] = Append(@, buf[s])]
       /\ buf' = [buf EXCEPT ![s] = <<>>]
  ELSE UNCHANGED <<buf, full>>

(* The handler is told the state the machine is in now; in a state it does  *)
(* not expect it returns at once.                                           *)
FrameEndInterrupt ==
  /\ intr /\ intr' = FALSE
  /\ IF gst \in {"PARTIAL_BUF_IN", "FULL_BUF_IN"}
     THEN WrapUp(sck) /\ fwTrg' = TRUE
     ELSE UNCHANGED <<buf, full, fwTrg>>
  /\ UNCHANGED <<bridgeVars, gpifVars, turn, fid, usb, hostVars, damage>>

(* CyU3PGpifControlSWInput(CyFalse); the pulse outlasts a clock of the port.*)
TriggerOff ==
  /\ fwTrg /\ gst \notin {"PARTIAL_BUF_IN", "FULL_BUF_IN"}
  /\ fwTrg' = FALSE
  /\ UNCHANGED <<bridgeVars, gpifVars, intr, dmaVars, usb, hostVars, damage>>

-----------------------------------------------------------------------------
(* CyFxUvcApplnDmaCallback and CyFxUVCAddHeader: one round of the loop.     *)

EndsFrame(words) == Len(words) # BufWords

(* The frame ID after a buffer: the header toggles when the frame ends.     *)
FidAfterKept(eof) == fid
FidAfter(eof) == IF eof THEN 1 - fid ELSE fid

Commit ==
  /\ full[turn] # <<>>
  /\ LET words == Head(full[turn])
         eof == EndsFrame(words)
     IN /\ fid' = FidAfter(eof)
        /\ \/ /\ usb' = Append(usb, [sck |-> turn, words |-> words, eof |-> eof,
                                     fid |-> fid])
              /\ full' = [full EXCEPT ![turn] = Tail(@)]
              /\ turn' = Other(turn)
              /\ UNCHANGED damage
           \/ /\ damage' = "lost"   \* CommitBuffer fails, the buffer stays
              /\ UNCHANGED <<usb, full, turn>>
  /\ UNCHANGED <<bridgeVars, gpifVars, isrVars, buf, hostVars>>

(* The host collects payloads until one says end of frame; a payload with   *)
(* another frame ID makes it drop what it has.                              *)
HostReads ==
  /\ usb # <<>>
  /\ LET p == Head(usb)
         got == (IF p.fid = rxFid THEN rx ELSE <<>>) \o p.words
     IN /\ rxFid' = p.fid
        /\ IF p.eof
           THEN /\ rx' = <<>> /\ frame' = IF damage = "none" THEN got ELSE <<>>
                /\ damage' = IF damage = "glued" THEN "none" ELSE damage
           ELSE rx' = got /\ UNCHANGED <<frame, damage>>
  /\ usb' = Tail(usb)
  /\ UNCHANGED <<bridgeVars, gpifVars, isrVars, dmaVars>>

(* CyFxUvcApplnStop followed by CyFxUvcApplnStart: the machine is disabled, *)
(* channel and endpoint are emptied, the frame ID starts at 0.  The handler *)
(* is never interrupted by a thread.                                        *)
FirstState == "START"

Restart ==
  /\ ~fwTrg
  /\ gst' = FirstState /\ sck' = 0
  /\ buf' = [s \in Sockets |-> <<>>] /\ full' = [s \in Sockets |-> <<>>]
  /\ turn' = 0 /\ fid' = 0 /\ usb' = <<>>
  /\ damage' = IF rx # <<>> /\ rxFid = 0 THEN "glued" ELSE "none"
  /\ frame' = <<>>
  /\ UNCHANGED <<bridgeVars, count, isrVars, rx, rxFid>>

-----------------------------------------------------------------------------
Next ==
  \/ Clock \/ FrameEndInterrupt \/ TriggerOff \/ Commit \/ HostReads \/ Restart

Spec == Init /\ [][Next]_vars

-----------------------------------------------------------------------------
Intact == damage # "lost"

(* The machine's states between the first word of a frame and its end.      *)
InData == {"PUSH_DATA", "LINE_END", "WAIT_TO_FILL", "WAIT_FULL",
           "PARTIAL_BUF_IN", "FULL_BUF_IN"}
GpifStates == InData \cup {"START", "IDLE", "WAIT_FOR_FRAME_START", "FRAME_END"}

(* Types, and no socket ever holds more buffers than it owns.               *)
TypeOK ==
  /\ gst \in GpifStates /\ sck \in Sockets /\ turn \in Sockets
  /\ count \in [Sockets -> 0..BufWords]
  /\ fid \in {0, 1} /\ rxFid \in {0, 1}
  /\ pos \in Nat /\ low \in 0..FrameGap
  /\ damage \in {"none", "glued", "lost"}
  /\ \A s \in Sockets :
       Len(buf[s]) < BufWords
       /\ InUse(s) + (IF buf[s] = <<>> THEN 0 ELSE 1) <= BufCount

EndsFull(f) == lens[f] % BufWords = 0

(* The word that follows another in what the host receives: the next of the *)
(* same frame, or the first of a later one if that frame ended with a full  *)
(* buffer, which nothing marks as the end of a frame.                       *)
Follows(v, w) ==
  \/ w = <<v[1], v[2] + 1>>
  \/ v[2] = lens[v[1]] /\ EndsFull(v[1]) /\ w[1] > v[1] /\ w[2] = 1

(* What was received is one frame after another, complete and in order, and *)
(* only the last ends with a buffer that is not full.                       *)
IsWhole(words) ==
  /\ \A k \in 1..Len(words) :
       words[k][1] \in 1..Len(lens) /\ words[k][2] \in 1..lens[words[k][1]]
  /\ words[1][2] = 1
  /\ \A k \in 1..Len(words) - 1 : Follows(words[k], words[k + 1])
  /\ LET last == words[Len(words)]
     IN last[2] = lens[last[1]] /\ ~EndsFull(last[1])

(* Every frame the host completes is whole, however late the interrupt, the *)
(* commit or the host are and wherever the stream is restarted: a frame is  *)
(* lost whole or not at all.  Excused are an overrun or a failed commit up  *)
(* to the next restart, and the one frame that starts with frame ID 0 while *)
(* the host still holds the head of an unfinished frame with that ID.       *)
WholeFrames == frame # <<>> => IsWhole(frame)

(* The host never completes a frame twice, nor one that was sent before the  *)
(* last, however far buffers of two sockets, headers and host lag behind one *)
(* another.  A restart and a loss forget the last frame.                     *)
FramesInOrder ==
  [][frame # <<>> /\ frame' # <<>> /\ frame' # frame
       => frame[Len(frame)][1] < frame'[1][1]]_vars

(* The counter of the machine and the buffer of the DMA socket, two pieces  *)
(* of hardware that never see each other, agree about how full it is.       *)
CounterTracksBuffer ==
  Intact /\ gst \in InData /\ ~fwTrg =>
    \/ Len(buf[sck]) = count[sck]
    \/ CountHit(sck) /\ buf[sck] = <<>>

(* The socket whose buffer is completed next.                               *)
NextToFill ==
  IF gst = "FRAME_END" \/ (gst \in InData /\ (CountHit(sck) \/ fwTrg))
  THEN Other(sck) ELSE sck

(* The firmware takes buffers from the sockets in turn and could wait at an *)
(* empty one for ever while the other overflows: the machine fills them in  *)
(* the same turn, across lines, frames and restarts.                        *)
SocketsInTurn ==
  Intact => /\ buf[Other(NextToFill)] = <<>>
            /\ Len(full[turn]) - Len(full[Other(turn)]) =
                 (IF NextToFill = turn THEN 0 ELSE 1)

(* Two payloads in a row carry the same frame ID unless the first ended its *)
(* frame, and the header is ready for the one that follows.                 *)
FrameIdFlipsAtEnd ==
  Intact =>
    \A k \in 1..Len(usb) :
      (IF k = Len(usb) THEN fid ELSE usb[k + 1].fid) =
        (IF usb[k].eof THEN 1 - usb[k].fid ELSE usb[k].fid)

(* A machine that waits for the firmware has told it so: FW_TRG is up, or   *)
(* the interrupt has yet to be served.                                      *)
NeverWaitsUnheard ==
  gst \in {"PARTIAL_BUF_IN", "FULL_BUF_IN"} => intr \/ fwTrg
=============================================================================
