# Specifications of the MIPI CSI receiver and its UVC camera firmware

The repository is a camera: an IMX219 image sensor sends pictures over MIPI
CSI-2 to an FPGA, which receives them, turns raw pixels into YUV and puts them
on a 32-bit parallel port; a Cypress FX3 takes the port's words into DMA buffers
and shows them to a USB host as a UVC video device. The TLA+ modules here model
the camera's control logic on both sides of that port, TLC checks small
instances of them, and TLAPS proves for every instance the invariants of the stream
control, the start-up, the control requests, the sensor's bus, the data path, both aligners,
the pixel path with the output port and the buffer allocator, and that the firmware from its
first instruction on implements an abstract stream control.

Paths below are relative to `src/Cypress FX3 USB3.0 Firmware/` (firmware) and
`src/FPGA/` (Verilog).

## 1. The system

| part | state it keeps | operations | talks to |
|---|---|---|---|
| application thread (`uvc.c:1130-1259`, start and stop at 1028-1127) | `glIsApplnActive`, `glCommitBufferFailureCount`, `glDmaResetFlag`, the GPIF, the DMA channel, the frame timer, link power state | wait for events; start, stop, reset, give up, suspend | callbacks and EP0 thread, by `glFxUVCEvent` |
| EP0 thread (`uvc.c:1262-1886`) | `glEp0Buffer`, probe and commit controls, `glUvcVcErrorCode` | take a request event, dispatch on the setup globals, answer, receive or stall | setup callback (globals), sensor driver (calls), application thread (STREAM event) |
| USB callbacks (`uvc.c:225-401`) | `wIndex`, `wValue`, `bRequest`, `glIsConfigured` | setup packets, bus events | both threads, by events |
| DMA callback, frame timer, GPIF interrupt (`uvc.c:55-66, 404-578`) | `glUVCHeader`, `glDmaResetFlag`, the timer | header and commit of every buffer; stall signals; closing the last buffer of a frame | application thread, GPIF (FW_TRG) |
| GPIF-II machine (`gpif2model.xml`, `cyfxgpif2config.h`) | state, DATA and ADDR counters | deal the port's words out to two DMA sockets | bridge (FV, LV), DMA sockets, firmware (interrupt, FW_TRG) |
| sensor driver (`sensor_imx219.c`, `sensor_imx219.h`, `uvc_settings.h`) | `sensor_config` (settings of each mode), `selected_img_mode`, the sensor's registers | initialise, select and configure a mode, get and set gain, exposure, test pattern, each a sequence of I2C writes | called by the start-up and the EP0 thread; sensor, by I2C |
| USB descriptors (`cyfxuvcdscr.c`) | constants | read by the host | name the frames and intervals the driver's modes are chosen by, and the controls the EP0 thread serves |
| start-up (`uvc.c:581-1025, 1888-2093`) | what has been created | create threads, events, GPIF, channel and timer, find the sensor, connect; stop for good on the first error | everything else, which may run before it has ended |
| byte aligners, lane aligner (`mipi_rx_byte_aligner.v`, `mipi_rx_lane_aligner.v`) | last bytes, offsets, skew counters | find the sync byte of each lane; delay the early lanes | connected by `mipi_bridge.v` |
| packet decoder, depacker, debayer filter (`mipi_csi_packet_decoder.v`, `mipi_rx_raw10_depacker.v`, `debayer_filter.v`) | packet length, byte count, four line RAMs and their rotation | strip headers, cut groups of four pixels, store and combine lines | each other, on both edges of the byte clock |
| colour conversion, output stage (`rgb_to_yuv.v`, `output_reformatter.v`) | output registers, `lsw` | arithmetic; 64 bits into two words on the doubled clock | filter; GPIF (LV, data) |
| DMA buffer allocator (`cyfxtx.c:660-1103`) | `glBufferManager` (bit map, search position), list of blocks in use | set up, tear down, allocate, free | library's drivers, when channels are created and destroyed |
| driver heap, corruption checks, memory helpers (`cyfxtx.c:115-659, 1104-1187`) | a ThreadX byte pool | allocate, free, check headers and footers | the library |

What is hard in it:

* **Interleaving.** Callbacks run between any two calls of the application
  thread's start and stop sequences, and share flags with it without a lock.
* **Coalesced events.** An event group keeps bits, not a queue: what arrives
  in one round of the thread loses its order.
* **A host that disappears.** It may close the stream, reset the bus, suspend
  it, or simply stop reading; it may give up a control request and send another
  while the EP0 thread still works on the first.
* **Two counters for one buffer.** GPIF counter and DMA socket each decide for
  themselves that a buffer is full, and two sockets have to stay in turn.
* **Late interrupts.** `CyFxGpifCB` may run when the machine has moved on.
* **A bit map that has to say where blocks end.** The release of a DMA buffer is told
  an address only.
* **A sensor that is told and never asked.** No I2C write is checked: a lost one
  leaves the sensor in a state the driver does not know of.
* **The same fact in three places.** Modes, descriptors and request handlers each list the
  frames, intervals and controls.
* **Threads before their objects.** Both threads start before the event group, the
  channel or the sensor driver's table are ready.
* **Clock-by-clock alignment.** Lanes with different skew, pixels packed five
  words to four, a RAM rotation that happens while data is still in the pipeline.

What makes each part correct is stated as the properties in section 4.

## 2. Modules

| module | models | composes with |
|---|---|---|
| `UvcApp` | application thread, callbacks, timer, the part of the EP0 thread that starts a stream | abstracts buffers to their number |
| `StreamControl` | abstract: sessions, runs of the video path, a bounded number of retries | implemented by `UvcApp` |
| `Startup` | `main`, `CyFxApplicationDefine`, the initialisers of the application thread | EXTENDS `UvcApp`, which runs beside it |
| `Startup_proofs` | theorems about `UvcApp`, with the refinement, and about `Startup` | EXTENDS `Startup` |
| `GpifStream` | GPIF machine, DMA sockets, frame interrupt, headers, host reassembly | `Restart` is the stop and start that `UvcApp` details |
| `GpifStream_proofs` | theorems about `GpifStream` | EXTENDS `GpifStream` |
| `VideoModes` | table of modes, choice of a mode, frame time | pure |
| `Descriptors` | configuration descriptors and what a host finds in them | EXTENDS `VideoModes` |
| `Sensor` | sensor driver, one step per operation | EXTENDS `VideoModes` |
| `SensorBus` | sensor driver, one step per register write | EXTENDS `Sensor`, `Descriptors` |
| `SensorBus_proofs` | theorems about `SensorBus` and the tables | EXTENDS `SensorBus` |
| `Ep0Control` | EP0 thread, setup callback, host | EXTENDS `Sensor`, `Descriptors` |
| `Ep0Control_proofs` | theorems about `Ep0Control` | EXTENDS `Ep0Control` |
| `LaneRx` | byte aligners and lane aligner | its words are `PixelPath`'s input |
| `LaneRx_proofs` | theorems about `LaneRx` | EXTENDS `LaneRx` |
| `PixelPath` | packet decoder, depacker, debayer filter | the filter's output goes to `OutputPort` |
| `OutputPort` | converter registers, output reformatter | EXTENDS `PixelPath`; its words and LV are `GpifStream`'s input |
| `OutputPort_proofs` | theorems about `PixelPath` and `OutputPort` | EXTENDS `OutputPort` |
| `DmaBuffers` | DMA buffer allocator | stands alone: the channels' buffers come from it |
| `DmaBuffers_proofs` | theorems about `DmaBuffers` | EXTENDS `DmaBuffers` |
| `ColorSpace` | the arithmetic of filter and converter, with theorems | pure; `PixelPath` says which pixels, `ColorSpace` what is computed |

### UvcApp

Each global of the code is a variable with a shorter name (the declaration
says which). The thread is a program counter: `EventGet`, then `OnStream`,
`OnAbort`, `OnDmaReset`, `OnRetry`, `OnGiveUp`, `OnSuspend`, one per `if` of the
loop body, with `Start...` and `Stop...` as subroutines, one action per call that
another party can see. A callback is one atomic step because the FX3 library's
driver threads run above both application threads (priority 8, `uvc.h:45-48`).
`produced` and `committed` count the channel's buffers; `prodEvent` and
`consEvent` are notifications the DMA driver thread has not served. The
notification of a buffer is served before the application thread goes on
(`AppRuns`), except inside `CyU3PDmaMultiChannelReset` and `SetXfer`, which hold
the channel's lock. The commit of a buffer, `SetXfer`, `GpifSMSwitch`,
`GetEP0Data` and `EnterSuspendMode` may each fail. `CyFxAppErrorHandler` never
returns (`dead`). `DmaProduceCallback` may also stop with buffers left and no signal, when `GetBuffer`
returns `INVALID_SEQUENCE` or a debug GPIO cannot be set (`uvc.c:438-467`): they wait for
the next PROD notification, and if none comes for the frame timer.

The frame timer may expire at any moment but one: between `CyU3PTimerStart`
(`uvc.c:1112`) and the next statement, which clears the flag (`TimerMayExpire`);
the shortest period is 200 ms.

`HostQuits`, a host program that ends without a word, differs from a pause only for
liveness: `HostMayQuit` is TRUE in the liveness run alone.

### StreamControl

What the above amounts to for somebody who sees neither threads nor flags: a `session`,
the video path `running` inside it, `retries` since something was delivered, and a
`stop` somebody has asked for. `UvcApp` implements it (`ImplementsStreamControl`) with
`active`, `gpif`, `failures`, and an ABORT bit in the event group or in the thread's
copy of it. What the abstract module rules out and no invariant of `UvcApp` says alone: a
session that ends without a request or a spent budget, a request that
disappears without the end of a session, a video path started outside a session, a session
begun over what the last one left running, a retry beyond the budget. An ABORT that
arrives while the thread handles an earlier one merges with it or makes it stop again, which is
why `End` leaves `stop` open.

### Startup

`Steps` is the firmware's order of creating things, one entry per call that makes
something or may fail. Stream control runs beside it: the EP0 thread from the first
event on, callbacks as soon as there is a channel, host and bus from the
connection on. A step that fails and is checked ends the start-up in an endless loop, while the EP0
thread lives on. `NothingUsedBeforeMade` relates what is used to how far the start-up is. One
call does come too early: the EP0 thread may ask for events before there is an event group
(`uvc.c:1843`). It gets an error and asks again, which `Threads` leaves out and the property does not count
as a use.

### GpifStream

One `Clock` is one clock of the port: the bridge drives FV, LV and a word, the
machine takes the transition whose equation holds, the counters count, the word
goes to the socket. A word is `<<frame, index>>`. `FrameEndInterrupt`,
`TriggerOff`, `Commit`, `HostReads` and `Restart` run at any distance from it.
Transitions, counters and interrupts are those of `gpif2model.xml`, with the
duplicate states for socket 0 and 1 folded into one name and `sck`. The host
joins payloads until an end-of-frame bit and drops what it has on a new frame
ID. `damage` is a history variable: it names what excuses a torn frame.
Assumed of the environment: blanking of at least `LineGap`, `FrameGap` clocks
(the sensor leaves hundreds), and a FW_TRG pulse longer than one clock of the port.

### LaneRx

One `ByteClock` is one clock of the byte aligners (falling edge) and the lane
aligner (rising edge). A byte is represented by the position of its first bit
relative to its lane's sync byte, so a wrong offset or delay shows as a wrong
number. `together` and `words` are history. In the gap, the
environment resets the lane aligner (the clock lane went to low power)
or does not (continuous clock). Assumed: low-power gaps of at least `MinLow`
byte clocks, which the D-PHY's timing gives, and skews inside the aligner's
memory of `ALIGN_DEPTH` bytes.

### PixelPath

One `ByteClock` feeds the decoder a word; decoder and RAMs work at the falling
edge and depacker and filter at the rising edge, which see the new values of the
former and the old values of each other. RAM entries are
`<<frame, line, first byte>>`. `Window` is what the filter has within reach: three
lines of the entries that came one clock before, now and one clock after;
`Averaged` is the table of the 48 averages, which names for each pixel of a group
and each colour the pixels it is made of. Payload words may look like the sync byte or a header. Assumed: the
blanking between lines and frames is longer than the pipeline (`Drained`), and
the checksum after a line does not look like a header (see section 7).

### OutputPort and ColorSpace

`OutputPort` composes `PixelPath` with the next two stages: a step is one byte
clock and two output clocks. The converter works at the falling edge and sees the
filter's last output; at the output clock of the falling edge the reformatter sees
the converter's old or new output, whichever the routing gives (`early`, fixed
for a behaviour). `GapsLongEnough` is the bridge to the firmware's side: LV falls
in the depacker's empty clock within a line, and the two clocks it stays low are just
what the GPIF machine needs to be ready for the next word.

`ColorSpace` is arithmetic only: sums in 12 and 32 bits without a sign, shifts that
fill with zeros, results cut to eight bits. Its 2^32 is beyond TLC's integers, so
no run evaluates it; what it has to say is proved.

### VideoModes and Descriptors

`VideoModes` is `sensor_config` with the choice `sensor_handle_uvc_control` makes by frame
index and interval, and the time a frame takes with given clock and length registers.
`Descriptors` has the three configuration descriptors as sequences of
records with the length each declares (`len`) and the bytes it has (`bytes`). `Seen` is what a
host finds that goes by the lengths and the first total. `DescriptorsConsistent`, an
assumption TLC evaluates in two runs, says that this is everything: totals,
numbers of formats and frames and the chain of entities are those of the bytes,
at each of the three speeds.

### Sensor and SensorBus

`Sensor` has the driver's functions as operators over the settings of every
mode, the selected mode, and the registers. A mode is named by its integration
time, which no two share. What a getter reads through the null pointer is any of `Garbage`; a
store through it is not modelled.

`SensorBus` has the same operations as sequences of register writes (`todo`), any
of which may be lost on the bus (`LoseWrite`), one byte of several included, and
a sensor that is not found when the device starts. `reg`, which
`Sensor` keeps, is what the registers `bus` ought to hold: the run shows when they do. The host commits
what it finds in the descriptors, and settings they do not offer.

### Ep0Control

`Ep0Control` is the setup callback (`Setup`), the host, and the thread:
`Take`, `Dispatch` (looks at `wIndex`), a handler (looks at `wValue` and
`bRequest`), `Received` or `NotReceived`, `Apply`. The globals may change between
these steps and not within one. `late` and `owed` are history. The requests for
controls are those a SuperSpeed host derives from `Descriptors` (`Advertised`), with some that
no descriptor offers.

### DmaBuffers

One action per function of `cyfxtx.c`, each a critical section of the mutex; a call
that fails (no mutex in time, no room, heap not set up) changes nothing. `used` is
the bit map as a set of lines; the loop over its words is the set of places where the
run asked for begins (`Fits`), of which the first is taken. `blocks` is what the
callers hold. `EnableChecks` may turn the checks on before the heap is set up: they add
24 bytes to every block and keep the blocks in a doubly linked list, `prev` and `next`
being the headers. This firmware leaves them off; both settings are run.

Two things to know of this allocator. A search that does not start at the top fails to
see a run of free lines across the word it starts in, and may report no memory
with room left; `FreedIsFound` says that this ends with the next release, which puts
`searchPos` back. And the mask of the bitmap's last word (line 736) is right only for a
heap whose size in lines is a multiple of 32, as in both memory maps of the file, or
leaves a remainder of 16 or more: `HeapAssumption` says so.

## 3. Fairness

Only `uvc_app_live` checks liveness, under `FairSpec`. The threads and the
callbacks run when they can: weak fairness for the EP0 thread, the two DMA
callbacks and the timer (a started timer expires unless it is stopped or started
again). The application thread gets strong fairness: callbacks disable it (a
driver thread runs first) again and again as long as buffers arrive, but
serving a buffer takes less processor time than filling one, so between two of
them it runs. Nothing is assumed of host, sensor and bus: they may stop forever. A suspended bus
stops everything, so `FairSpec` has no suspends (`NextUnsuspended`); `Spec` has them.

## 4. Runs

Passing runs:

| run | instance | what it shows |
|---|---|---|
| `uvc_app` (`Startup`) | failure limit 2, 2 buffers, failing calls, suspends; 2.9 M states | `NothingUsedBeforeMade`: no event is set, and no timer, transfer, machine or sensor driver works, before what it needs exists (the EP0 thread's early `CyU3PEventGet`, which fails and is repeated, is no use); `ImplementsStreamControl`: all of it is a behaviour of `StreamControl`; `TypeOK`; `ActiveMeansRunning`: the stream counts as active exactly when the GPIF runs into a channel with a transfer; `NoLostReset`: a recorded stall keeps its event; `WatchdogArmed`: an active stream is watched; `LinkKeptAwake`: no low power under it without a pending abort; `StoppedIsDrained`: no buffer survives a stop |
| `uvc_app_live` | limit 2, 1 buffer; 0.5 M states | `SilentHostStopsStream`: a host that goes away without a word is noticed; `StallIsServed`: every recorded stall ends in a reset or a stop |
| `gpif_stream` | buffers of 2 words, 2 per socket, frames of 1 to 3 words, 4 frames; 2.2 M states | `WholeFrames`: a frame arrives whole or not at all, excused only by an overrun, a failed commit or a restart within a frame of the same ID; `CounterTracksBuffer`; `SocketsInTurn`; `FrameIdFlipsAtEnd`; `FramesInOrder`: from a restart on, until something is lost, no frame comes twice or after a later one; `NeverWaitsUnheard`; `TypeOK` |
| `lane_rx` | 4 lanes, skews of 1, 7, 12 and 23 bits in every combination, bursts of 6 bytes; 353 k states | `Aligned`: the lanes come out in step, also in a burst after one with other skews; `NothingCut`, `EveryByteOnce` |
| `output_port` | lines of 5, 7 and 10 words, 5 lines, 2 frames; 10.6 k states | `PixelsInPlace`, `LineStored`: pixels reach the RAM address that is theirs; `RowsInOrder`, `LineShown`: the filter shows each line once, with the right lines above and below; `ColoursMatch`: only pixels of one colour are averaged, for the BGGR pattern of `debayer_filter.v:83`; `WordsInOrder`, `LineSent`: every group leaves as two words, once and in order; `GapsLongEnough` |
| `dma_buffers` | words of 4 bits, a heap of 14 lines, requests of 8, 72 and 100 bytes; 51 k states | `BlocksApart`: no line is given away twice; `MarksAreBlocks`: the bits are those of the blocks, so a release clears its own; `FreedIsFound`: what is freed can be had again |
| `ep0_control` | two modes, two payloads, a host that gives up; 1.9 M states | `SettingsCoherent`, `ExposureFitsFrame`: registers agree with the settings of the mode; `NoRequestLeftHanging`; `AnswerFits`: an answer comes from its request's handler; `StallExplained`; `AdvertisedIsServed`: what the descriptors offer is not refused |
| `sensor_bus` | all ten modes, 3 operations of the host, 1 lost transfer; 297 k states | `CommitHeals`: after a COMMIT that arrives whole the registers are what the driver means, whatever was lost before; `StreamsOneMode`: on a bus that works the sensor never streams with the registers of two modes; `PictureAsCommitted`: size and rate are those of the descriptor |

Why the bounds are enough. The failure limit of 2 has every case of the code: a
retry below it, the last one, the reset to zero between. Two buffers let
`produced` and `committed` be non-zero together and a commit fail half-way.
Two-word buffers make a frame end before, at and after a full buffer; with four
frames both sockets get every role and a frame ID returns. The four skews include
lanes in the same byte clock, one and two apart, and the extremes of the
memory. 14 lines in words of four give blocks across word boundaries, searches that wrap,
and a last word with bits beyond the heap; 8 bytes with a header are exactly one line,
the limit below which two are taken. Lines of 5, 10 and 7 words end at a pack, after two packs and within
one; five lines turn the four RAMs all the way round; 5 lines and a second frame
cover what the first frame leaves behind. `WIDTH` is 8 bits (32 in the code) and
the RAMs have 8 entries (1024): both hold the longest line, as they do in the
code. The start-up has no bound: all its steps are there. Modes {2470, 3027} have different default gains; payload 8 is in the
range of every control and the special test pattern, 3000 is beyond brightness
and one mode's exposure. `sensor_bus` has every mode, since the table is what it is about;
three operations are a loss, something after it and the COMMIT that heals it, or three COMMITs in
any order. Exposures 2815 and 3050 differ in both bytes and lie on either side of several
modes' limits; garbage 7 and 60000 are a pattern and no pattern, and an exposure that
limits and one that does not. It stops at `MaxOperations`, so its deadlock check is off.

Runs that show a disagreement between the code and a comment:

| run | property | what TLC finds |
|---|---|---|
| `streams_unconfigured` | `StreamsOnlyConfigured` | a bus reset between COMMIT and start aborts nothing (`uvc.c:229-231`) and a stream starts on an unconfigured device |
| `byte_boundary` | `EveryByteOnce` | a sync byte exactly one byte late wraps the three-bit offset: put out twice, lane a byte late (`mipi_rx_byte_aligner.v:65`) |
| `neighbours` | `NeighboursAdjacent` | after the clock without a group, the left neighbour is taken from the group itself (`debayer_filter.v:185`); with that repaired the property would still fail at line 313: in odd rows the green of a group's last pixel is averaged with a pixel four columns to the right |
| `brightness_current` | `BrightnessIsCurrent` | GET_CUR before the first COMMIT reads through a null pointer (`sensor_imx219.c:533`) |

`lane_rx` leaves out the skews that are a multiple of 8: `byte_boundary` is its counterpart.

`ColoursMatch` and `NeighboursAdjacent` look at groups away from the border: there the
filter reads RAM entries that are not part of the line. Three more comments are
contradicted without a run of their own. The header of the filter says "First line is expected to
RGRG , second line GBGB" (`debayer_filter.v:18`); the filter takes the first line for BGBG and the second
for GRGR (`debayer_filter.v:257-259`), which is the BGGR a later comment gives as the sensor's (line 83)
and `BayerColour` therefore takes as the truth. On line 18's pattern `ColoursMatch` fails, with red
and blue exchanged in every pixel: theorem `HeaderExchanged`. A request for the error code
other than GET_CUR is neither answered nor stalled (`uvc.c:1607`), against "Unsupported request.
Fail by stalling the control endpoint" (`uvc.c:1869`); `NoRequestLeftHanging` excuses this one
request by name. And `uvc.h:105-109` calls the STREAM and ABORT
events mutually exclusive, but the abort handler does not clear STREAM. Both
reach the thread in one round, which starts and then stops the stream whichever came
last; the state stays consistent (`ActiveMeansRunning`), the later COMMIT is lost.

## 5. Theorems

`Startup_proofs` proves of `UvcApp`, for every `MaxFailures > 0`, every `Buffers > 0` and
either value of `ApiFailures` and `HostMayQuit` (`UvcAppAssumption`):

* `TypeCorrect`: `Spec => []TypeOK`
* `Running`: `ActiveMeansRunning`, and `Drained`: `StoppedIsDrained`
* `Recovery`: `NoLostReset`, and `Watched`: `WatchdogArmed`
* `LinkAwake`: `LinkKeptAwake`
* `Refinement`: `Spec => ImplementsStreamControl`
* `Invariance`: `Spec => []IInv`, on which the others rest.

The safety properties speak of the moments when the thread waits (`Idle`). None is
inductive: when the thread takes its events it carries the justification away in
its local copy, and in the middle of a start the GPIF is off on purpose. `IInv`
says what holds at every program point: who called the subroutine
(`CallerInv`), which of GPIF and transfer are on (`RunningInv`), where the
failure budget may be used up, and that no CONS notification can then reset it
(`BudgetInv`), when the channel is empty (`DrainedInv`), and that a raised flag,
a missing timer or an enabled link has its event either in the group or in the
thread's copy, not yet tested (`ResetInv`, `WatchdogInv`, `LinkInv`). TLC
checked `IInv` before it was proved. The step is split in five lemmas: types of the
numbers and sets, types of the flags, the thread's control invariants
(`RoundStep`), the signals (`SignalStep`), and their sum (`NextIInv`). The
refinement rests on it too (`ControlStep`): that a retry finds the machine stopped and the budget
not spent, or a start a session, is what `RunningInv` and `BudgetInv` know at that point.

The same module carries this over to the firmware as a whole, under the same
assumption: `StartupImplementsUvcApp` (`StartupSpec => Spec`: seen without its own
variables, the start-up is stuttering), and with it `StartupSafe` (the safety invariants above)
and `StartupRefinement` (`StartupSpec => ImplementsStreamControl`), the statements the
run `uvc_app` checks.

`MadeBeforeUsed` is `StartupSpec => []NothingUsedBeforeMade`. It rests on a fact about the order
of the code, `ConnectIsLast`: the device is put on the bus after everything else is made. Until
then (`BootInv`) no host request has arrived, so no event is set, the EP0 thread waits,
and nothing runs that a callback could come from.

`DmaBuffers_proofs` proves, for every width of a word, every heap size and all
requests within `HeapAssumption`:

* `Apart`: `Spec => []BlocksApart`
* `Marks`: `Spec => []MarksAreBlocks`
* `FreedFound`: `Spec => FreedIsFound`

`BlocksApart` is not inductive, as the search goes by the bits alone. `IInv` adds
`MarksInv` (the bits are those of the blocks) and that every block has a marked line in
front of its unmarked last one. A run of zeros can then touch a block only in that last line,
and only with its own first line, which is not handed out (`AllocKeeps`).
`OnesAreMarks` is the other half: the ones counted from a block's start are its marks,
because its last line is unmarked and nobody else's.

* `ListComplete`: `Spec => []InUseListComplete`

The last is about the list kept once `CyU3PBufEnableChecks` has been called. Nothing in this firmware
calls it, so no run checks the property. It
needs to know what the pointers form: `ListInv` says that some function of
`0..n` (`n` blocks) lists the blocks' addresses newest first, each once, null at the end, with `prev`
one further and `next` one back. Allocation puts an address in front of it (`ListAlloc`), a
release takes one out of the middle (`ListFree`, from `UnlinkKeeps`), and the
recursive walk of `Visited` follows it (`Followed`, by a least counterexample).

`Ep0Control_proofs` proves, for every set of modes with their table, every set of payloads and a
host that gives up or not: `Settled` (`SettingsCoherent`), `Exposing` (`ExposureFitsFrame`),
`Answered` (`NoRequestLeftHanging`), `Fitting` (`AnswerFits`), `Explaining`
(`StallExplained`) and `Serving` (`AdvertisedIsServed`). `EP0Inv` has two halves. `SensorInv` keeps
the settings of every mode and the registers of the one that streams; it holds whatever
the thread does. `ThreadInv` says what the thread knows of the setup globals at each
point: unless the host has given up a request that the thread may still work on (`late`),
they are those of the request it works on (`InStep`); then, only that the
request waited for is in the event group or in the thread's hands (`NotForgotten`). That
the controls a host can ask for are those the handlers know (`AdvertisedControls`) is read off the
descriptors, entity by entity.

`SensorBus_proofs` proves, for any number of operations and of lost transfers and whatever the
host sets: `Healing` (`CommitHeals`), `OneModeStreams` (`StreamsOneMode`) and `PictureDelivered`
(`PictureAsCommitted`). All three speak of registers that are still to be written, so the invariant
`BusInv` looks ahead: `After(bus, todo, n, r, v)` says that register `r` has the value `v` once `n`
more writes are made. An operation is a fact about the list it begins with (`Configures`,
`Defaults`, `Joined`), a write that arrives moves every list one nearer (`WritesMove`), and a lost
one voids the claims until the next COMMIT. `HealInv` is then "all writes made, the
registers are as meant", `StreamInv` "wherever the stream is on, the registers are of one
mode", the writes ahead included. `PictureDelivered` adds that what is meant is the mode of the
COMMIT (`PictureInv`) and goes through the ten settings of the descriptors (`FramesFound`, `EverySettingKeeps`). Its
hypothesis, `Modes = ModeIds`, is the driver's table: without a mode, its COMMIT keeps the mode
before it.

`GpifStream_proofs` proves, for every buffer size, number of buffers, number of frames and set of
frame lengths, everything the run checks: `TypeCorrect`, `CounterExact` (`CounterTracksBuffer`), `InTurn`
(`SocketsInTurn`), `FrameIds` (`FrameIdFlipsAtEnd`), `Heard` (`NeverWaitsUnheard`) and, on a second
inductive invariant, `FramesWhole` (`WholeFrames`) and `OneAfterAnother` (`FramesInOrder`).
`MovesAreArrows` reduces
the machine, with its folded states, to the list of its arrows. `CounterInv` then has a
clause for each state (which counter is up to date, which is one behind the word just
pushed), `HandshakeInv` says where the machine can be while FW_TRG is up, and
`BuffersInv` why the sockets stay in turn: every word not yet committed is in the open buffer or
in a full one, and the socket whose turn it is has as many full ones as the other or one more.

The first invariant says where the words are and how many; that they are the right ones is the
second (`StreamInvariance`). `LineInv` keeps the machine in step with the lines of the bridge:
it is out of PUSH_DATA and LINE_END before LV can rise again, which is what the gaps of two and three clocks are
for, it waits for a frame from before its first word, and its counter counts from a
multiple of the buffer size. `StreamInv` then follows the words to the host. Every full or committed
buffer is a block of consecutive words of one frame, from a multiple of the buffer size to a full buffer
or the frame's end, and ahead of the block before it in the order in which the
firmware takes them (`OrderInv`): the next word of that frame, or the first of a later one if the
frame was over. What the host goes on with (`Got`, nothing if the frame ID has changed) is a run of such
blocks ending with a full one, and the oldest buffer is ahead of it (`FrontInv`). The last word
of the newest buffer is the one the machine is at, or its frame is over (`TipInv`), so the word
written next joins. The frame ends where a block is not full, and only there, because the first word of
a block is at a multiple of the buffer size. After a restart within a frame `FrontInv` is given up until
the next end of frame, `TipInv` only while nothing is in the channel; after a lost buffer both are, until a restart.
`LaterInv` adds that what is on its way was sent after the last frame completed; when nothing is, the machine
is out of that frame. `OneAfterAnother` is read off it.

`LaneRx_proofs` proves, for every number of lanes, every memory depth and burst length:
`BytesFollow` (`EveryByteOnce`), `LanesTogether` (`Aligned`) and `Uncut` (`NothingCut`). Everything is told
by the clock in which a lane's sync byte comes out (`Arrives`): the byte aligner's
registers are a function of it (`ByteInv`), and the counters of the lane aligner are the
distances between arrivals, counted up to now from the first one (`LaneInv`; of the burst
before, at most one word is left in low power). Two hypotheses: `OffBoundary`, no skew is a multiple of
8, is what the run `byte_boundary` shows to be necessary; `WithinReach`, lanes apart by
less than `ALIGN_DEPTH <= 16`, is the memory and its four-bit counters
(depth 3 in `mipi_rx_lane_aligner.v:28`).

`OutputPort_proofs` proves, for every set of line lengths that fits the line RAMs:

* of the pixel path, `Depacked` (`PixelsInPlace`), `Stores` (`LineStored`), `InOrder`
  (`RowsInOrder`), `Shows` (`LineShown`), `Colours` (`ColoursMatch`) and, for the pattern of the
  filter's own header, `HeaderExchanged` (`HeaderExchanges`, see section 4);
* of the port, `WordOrder` (`WordsInOrder`), `Sends` (`LineSent`) and `Gaps`
  (`GapsLongEnough`), for either routing;
* `PortTakesPath` (`PortSpec => Spec`) and with it `PathBehindPort`: the five above, under the
  port's specification, which is the one the run checks.

The invariant follows the data, one part per stage: decoder and sensor agree on what is left of a
line (`DecoderInv`); the depacker's counters are functions of the word's number
(`DepackerInv`); the RAM written is not one of the three read, and each holds the line the rotation
says (`TurnInv`, `StoredInv`); what the filter reads and shows is what was stored one and two
clocks ago (`CountInv`, `ReadInv`, `ShownInv`); and each group shown is two words at the port
(`Shape`, `Order`, `Amount`). From `CountInv` on, one hypothesis: `CounterLasts`, fewer than
4096 lines in a frame, for `line_counter` has twelve bits (`debayer_filter.v:45`) and the output stops
where it wraps; the largest mode has 2464 lines. `Colours` rests on `Mosaic`, which goes through the 48
averages.

Each of these invariants was checked by TLC on the run's instance, or a smaller one, before it was proved.

`ColorSpace` proves, for every 10-bit pixel:

* `HardwareIsTool`: the converter's unsigned 32-bit arithmetic, cut to eight bits,
  gives what the signed formulas of `Tools/rgb_to_yuv.c` give (`WrapIsHarmless`: a
  wrapped negative sum is off by a multiple of 256, which the cut removes);
* `GreyStaysGrey`: a pixel without colour has neutral U and V;
* `AverageBetween`: the filter's average lies between the darkest and the brightest of
  its four pixels.

Only model-checked:

* liveness (`SilentHostStopsStream`, `StallIsServed`): fairness and leads-to are outside
  the prover's reach;
* that the descriptors are consistent (`DescriptorsConsistent`), a fact about constants that TLC
  evaluates and the proofs assume;
* the four disagreements: a counterexample is a proof.

## 6. Plan

In this order; each step keeps what exists.

1. A further abstract specification: a `FrameStream` (frames are sent, and delivered whole
   or lost) that `GpifStream` implements; an abstract heap for `DmaBuffers`.
2. A composition of `SensorBus`, `UvcApp` and the receiver: a COMMIT that reconfigures the
   sensor under a running stream.

The runs answer one question each; an abstract specification becomes a property of
the run that checks the detailed one.

## 7. Not modelled

* The generated deserialiser and RAMs, test benches, hardware, data sheet.
* Pan-tilt-zoom and the extension unit's control: not compiled in. Device, BOS and string
  descriptors have no totals, links or settings.
* The driver heap is a ThreadX byte pool behind a wrapper that only adds work when
  `CyU3PMemEnableChecks` was called, which this firmware never does. With the checks its list of
  blocks in use would be changed without a lock (`cyfxtx.c:463`), unlike that of
  `DmaBuffers`. The corruption checks read headers and footers; copies, comparisons and the
  endless loops of the exception handlers have no state.
* The results of `CyU3PDeviceCacheControl`, `CyU3PUsbSetDesc` and `CyU3PTimerCreate`: the
  code drops them, and `Startup` takes these calls to succeed.
* The setting a PROBE stores (`uvc.c:1743-1757`): the only reader is GET_CUR, which
  repeats it. `GetEP0Data` that fails while the host still waits leaves the request
  unanswered (`uvc.c:1309`); in `Ep0Control` it fails only when the host has given up.
* A COMMIT of a setting no mode has starts the stream all the same (`uvc.c:1785-1794`), in
  the mode before it or, before the first, through the null pointer. `Sensor` models what
  the registers get; `PictureAsCommitted` speaks of offered settings only.
* A sensor that does not answer at the start never gets the default table
  (`sensor_imx219.c:516`) and is not tried again. `PictureAsCommitted` excuses it;
  `CommitHeals` covers the registers a COMMIT writes.
* The picture while the exposure is written: its bytes go out one by one under
  a streaming sensor (`sensor_imx219.c:568`), and from 2815 to 3050 the register passes
  3071.
* The read of the orientation in `set_mirror_flip` (`sensor_imx219.c:343`), which passes an
  uninitialised byte for an address: what is then written does not depend on it.
* A last payload word that begins like the sync byte and a checksum that begins
  like the RAW10 type: the decoder (`mipi_csi_packet_decoder.v:55`) would take them
  for a header. `PixelPath`'s checksum never looks like one.
* Skews beyond the aligner's memory, a burst whose lanes are all valid for one clock only
  (shorter than any packet), and payloads that are not a multiple of four bytes.
* After an overrun or a failed commit GPIF and DMA channel may disagree about
  whose turn it is; the code's recovery is the restart, and the properties of
  `GpifStream` hold again from there.
* A restart in the middle of a frame with ID 0: the host may join the head of the old
  frame and the new one (`uvc.c:1075` starts again with ID 0). `WholeFrames` excuses it.
* What the frame timer, running on after a late PROD callback during a stop,
  does to the next stream is modelled and harmless: it can only signal a stall that is
  served by one more reset.

## 8. How to run

    tlc -config MC_Startup.cfg Startup        # the table of runs names each module
    tlapm Startup_proofs.tla                  # the same for each of Ep0Control_proofs, SensorBus_proofs,
                                              # GpifStream_proofs, LaneRx_proofs, OutputPort_proofs,
                                              # DmaBuffers_proofs and ColorSpace
