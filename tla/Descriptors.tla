----------------------------- MODULE Descriptors -----------------------------
(***************************************************************************)
(* The configuration descriptors of the device (cyfxuvcdscr.c), as the     *)
(* sequences of descriptors the arrays hold, and what a host learns from   *)
(* them: it steps from descriptor to descriptor by the length each of them *)
(* declares, and stops at the total the first one declares.                *)
(*                                                                         *)
(* Abstracted: fields no property looks at (power, strings, GUIDs, bit     *)
(* rates, aspect ratio, packet sizes).  The build has neither UVC 1.0, the *)
(* debug interface, pan-tilt-zoom nor the extension unit's control.        *)
(***************************************************************************)
EXTENDS VideoModes, Sequences, FiniteSets

(* len is the length the descriptor declares, bytes the one it has.         *)
Plain(kind, len) == [kind |-> kind, len |-> len, bytes |-> len]

Config(total)        == [kind |-> "config", len |-> 9, bytes |-> 9, total |-> total]
Association          == Plain("association", 8)
Interface(number)    == [kind |-> "interface", len |-> 9, bytes |-> 9, number |-> number]
ControlHeader(total) == [kind |-> "vcHeader", len |-> 13, bytes |-> 13, total |-> total]
Endpoint(address)    == [kind |-> "endpoint", len |-> 7, bytes |-> 7, address |-> address]
ClassEndpoint        == Plain("classEndpoint", 5)
Companion            == Plain("companion", 6)

(* Entities of the video function: id, the entity before it, and the bits   *)
(* of bmControls that are set.                                              *)
Entity(kind, len, id, source, controls) ==
  [kind |-> kind, len |-> len, bytes |-> len, id |-> id, source |-> source,
   controls |-> controls]

InputTerminalDscr            == Entity("input", 18, 1, 0, {})
ProcessingUnitDscr(controls) == Entity("processing", 13, 2, 1, controls)
ExtensionUnitDscr            == Entity("extension", 28, 3, 2, {})
OutputTerminalDscr           == Entity("output", 9, 4, 3, {})

StreamHeader(formats, total) ==
  [kind |-> "vsHeader", len |-> 14, bytes |-> 14, formats |-> formats, total |-> total]
Format(frames) == [kind |-> "format", len |-> 27, bytes |-> 27, frames |-> frames]

FrameDescriptor(len, index, width, height, rates) ==
  [kind |-> "frame", len |-> len, bytes |-> 26 + 4 * Len(rates), index |-> index,
   width |-> width, height |-> height,
   intervals |-> {Interval(rates[i]) : i \in DOMAIN rates}]

Video == "bulk video"
Status == "control status"

(* The interface and its entities, the same at each speed but for the       *)
(* controls of the processing unit.                                         *)
VideoControl(controls) ==
  <<Association, Interface(0), ControlHeader(81), InputTerminalDscr,
    ProcessingUnitDscr(controls), ExtensionUnitDscr, OutputTerminalDscr, Endpoint(Status)>>

FSConfigDscr ==
  <<Config(149)>> \o VideoControl({}) \o
  <<ClassEndpoint, Interface(1), StreamHeader(0, 14), Endpoint(Video)>>

HSStreaming ==
  <<Interface(1), StreamHeader(1, 71), Format(1),
    FrameDescriptor(30, VGA, 640, 480, <<30>>), Endpoint(Video)>>
HSConfigDscr ==
  <<Config(206)>> \o VideoControl({0}) \o <<ClassEndpoint>> \o HSStreaming

SSFrames ==
  <<FrameDescriptor(34, VGA, 640, 480, <<200, 30>>),
    FrameDescriptor(38, HD, 1280, 720, <<120, 60, 30>>),
    FrameDescriptor(34, FULL_HD, 1920, 1080, <<60, 30>>),
    FrameDescriptor(30, FULL_FRAME, 3280, 2462, <<15>>),
    FrameDescriptor(30, STRIP_128, 640, 126, <<682>>),
    FrameDescriptor(30, STRIP_80, 640, 78, <<1000>>)>>
SSStreaming ==
  <<Interface(1), StreamHeader(1, 237), Format(6)>> \o SSFrames \o
  <<Endpoint(Video), Companion>>
SSControls == {0, 3, 5}
SSConfigDscr ==
  <<Config(384)>> \o VideoControl(SSControls) \o <<Companion, ClassEndpoint>> \o SSStreaming

-----------------------------------------------------------------------------
(* What a host makes of a configuration.  A position is where a descriptor  *)
(* begins; it is found if the lengths declared before it lead there and the *)
(* total reaches beyond it.                                                 *)
Sums(lengths) ==
  LET sum[i \in 0..Len(lengths)] == IF i = 0 THEN 0 ELSE sum[i - 1] + lengths[i]
  IN sum
Declared(config) == Sums([i \in DOMAIN config |-> config[i].len])
Actual(config) == Sums([i \in DOMAIN config |-> config[i].bytes])

Seen(config) ==
  LET led == Declared(config)
      is  == Actual(config)
  IN {config[i] : i \in {j \in DOMAIN config :
                           /\ \A k \in 1..j : led[k - 1] = is[k - 1]
                           /\ led[j] <= config[1].total}}

OfKind(config, kind) == {d \in Seen(config) : d.kind = kind}

(* The settings a host may commit, and the frame it then expects.           *)
Frames(config) == OfKind(config, "frame")
Offered(config) ==
  UNION {{[frame |-> d.index, interval |-> i] : i \in d.intervals} : d \in Frames(config)}
SuperSpeed == Offered(SSConfigDscr)
SuperSpeedFrame ==
  [s \in SuperSpeed |-> CHOOSE d \in Frames(SSConfigDscr) : d.index = s.frame]

(* A host that trusts the lengths and totals finds everything: each length  *)
(* and total is that of the bytes it stands for, every format and frame     *)
(* that is announced is there, and the entities form one chain.             *)
Bytes(config, kinds) ==
  Sums([i \in DOMAIN config |-> IF config[i].kind \in kinds THEN config[i].bytes ELSE 0])[Len(config)]
Entities == {"input", "processing", "extension", "output"}

Consistent(config) ==
  /\ Seen(config) = {config[i] : i \in DOMAIN config}
  /\ config[1].total = Actual(config)[Len(config)]
  /\ \A d \in OfKind(config, "vcHeader") :
       d.total = Bytes(config, {"vcHeader"} \cup Entities)
  /\ \A d \in OfKind(config, "vsHeader") :
       /\ d.total = Bytes(config, {"vsHeader", "format", "frame"})
       /\ d.formats = Cardinality(OfKind(config, "format"))
  /\ \A d \in OfKind(config, "format") : {f.index : f \in Frames(config)} = 1..d.frames
  /\ \A d \in Seen(config) : d.kind \in Entities \ {"input"} =>
       \E e \in Seen(config) : e.kind \in Entities /\ e.id = d.source

ASSUME DescriptorsConsistent ==
  \A config \in {FSConfigDscr, HSConfigDscr, SSConfigDscr} : Consistent(config)
=============================================================================
