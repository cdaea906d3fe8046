------------------------------- MODULE UvcApp -------------------------------
(***************************************************************************)
(* Stream control of the FX3 firmware (uvc.c): the application thread that *)
(* starts, stops and resets the video stream, the EP0 thread that commits  *)
(* a video mode, and the callbacks that run beside them -- USB setup and   *)
(* bus events, DMA produce and consume notifications, the frame timer.     *)
(* They meet in one event group and in a handful of global flags.          *)
(*                                                                         *)
(* Granularity.  A callback runs in a driver thread of the FX3 library,    *)
(* above both application threads (their priority is 8, uvc.h:45-48), so   *)
(* it is one atomic step.  The application thread is cut at each call that *)
(* another party can see: any callback may run between two of its steps.   *)
(*                                                                         *)
(* Abstracted: the contents of buffers and their headers (only their       *)
(* number remains), the sensor set-up done by a COMMIT (it only takes time *)
(* here), EP NAK (nothing is consumed between the NAK and the flush that   *)
(* follows it), debug output.  A bit of the local copy flag is dropped     *)
(* once it has been tested: the code never looks at it again.              *)
(***************************************************************************)
EXTENDS Integers, FiniteSets

CONSTANTS
  MaxFailures,  \* CY_FX_UVC_MAX_COMMIT_BUF_FAILURE_CNT
  Buffers,      \* DMA buffers of the channel: both sockets together
  ApiFailures,  \* may SetXfer and GpifSMSwitch report an error?
  HostMayQuit   \* is a host that quits told from one that only pauses?

ASSUME UvcAppAssumption ==
  /\ MaxFailures \in Nat \ {0}
  /\ Buffers \in Nat \ {0}
  /\ ApiFailures \in BOOLEAN
  /\ HostMayQuit \in BOOLEAN

VARIABLES
  events,        \* glFxUVCEvent: bits set and not yet taken
  appPc,         \* where the application thread is
  ret,           \* where CyFxUvcApplnStart / Stop return to
  flag,          \* local copy of the event bits taken by EventGet
  ep0Pc,         \* where the EP0 thread is
  active,        \* glIsApplnActive
  configured,    \* glIsConfigured
  failures,      \* glCommitBufferFailureCount
  resetFlag,     \* glDmaResetFlag
  timer,         \* UvcTimer is running
  gpif,          \* the GPIF-II state machine is running
  xfer,          \* the DMA channel has a transfer set (SetXfer after Reset)
  produced,      \* buffers filled by the GPIF and not yet committed
  committed,     \* buffers committed and not yet read by the host
  prodEvent,     \* a PROD notification waits for the DMA driver thread
  consEvent,     \* a CONS notification waits for the DMA driver thread
  lpm,           \* USB link power management allowed
  hostAlive      \* the host program still uses the camera

threadVars == <<appPc, ret, flag>>
ctlVars    == <<active, failures, resetFlag>>
hwVars     == <<timer, gpif, xfer, lpm>>
dmaVars    == <<produced, committed, prodEvent, consEvent>>
hostVars   == <<configured, hostAlive>>
vars == <<events, threadVars, ep0Pc, ctlVars, hwVars, dmaVars, hostVars>>

AppBits == {"STREAM", "ABORT", "DMA_RESET", "SUSPEND"}
Ep0Bits == {"VS_REQ"}

StartPcs == {"startLpm", "startReset", "startXfer", "startTimer", "startFlag",
             "startGpif"}
StopPcs  == {"stopTimer", "stopGpif", "stopFlag", "stopReset"}
MainPcs  == {"wait", "stream", "abort", "reset", "retry", "giveUp", "suspend",
             "asleep", "dead"}
ResetFlags == {"NOT_ACTIVE", "COMMIT_BUFFER_FAILURE", "FRAME_TIMER_OVERFLOW"}

(* CyU3PSysEnterSuspendMode gates the CPU clock: no thread and no callback  *)
(* runs until the bus wakes the device.                                     *)
Awake == appPc # "asleep"

(* A notification is served before the application thread runs on, unless   *)
(* that thread holds the channel's lock (CyU3PDmaMultiChannelReset and      *)
(* SetXfer), which the callback's GetBuffer needs.                          *)
AppRuns == ~prodEvent /\ ~consEvent

Init ==
  /\ events = {} /\ flag = {}
  /\ appPc = "wait" /\ ret = "wait" /\ ep0Pc = "wait"
  /\ active = FALSE /\ configured = FALSE
  /\ failures = 0 /\ resetFlag = "NOT_ACTIVE"
  /\ timer = FALSE /\ gpif = FALSE /\ xfer = FALSE
  /\ produced = 0 /\ committed = 0
  /\ prodEvent = FALSE /\ consEvent = FALSE
  /\ lpm = TRUE /\ hostAlive = TRUE

-----------------------------------------------------------------------------
(* USB callbacks: CyFxUVCApplnUSBSetupCB and CyFxUVCApplnUSBEventCB.        *)

(* SET_CUR of the COMMIT control: the setup callback leaves the request to  *)
(* the EP0 thread.  The host sends no request while the last one is still   *)
(* owed an answer; a COMMIT is answered by GetEP0Data.                      *)
SetupCommit ==
  /\ Awake /\ hostAlive /\ configured
  /\ ep0Pc # "getData" /\ "VS_REQ" \notin events
  /\ events' = events \cup {"VS_REQ"}
  /\ UNCHANGED <<threadVars, ep0Pc, ctlVars, hwVars, dmaVars, hostVars>>

(* SET_INTERFACE 0 of the streaming interface, or CLEAR_FEATURE of the video *)
(* endpoint: both end in CyFxUVCApplnAbortHandler.                           *)
SetupStop ==
  /\ Awake /\ hostAlive /\ configured
  /\ ep0Pc # "getData" /\ "VS_REQ" \notin events
  /\ events' = events \cup {"ABORT"}
  /\ UNCHANGED <<threadVars, ep0Pc, ctlVars, hwVars, dmaVars, hostVars>>

(* The guard under which a bus event aborts the stream.                     *)
AbortOnBusEventIgnoringActive == FALSE
AbortOnBusEvent == active

(* SETCONF, RESET, DISCONNECT and CONNECT.                                   *)
UsbBusEvent(evtype) ==
  /\ Awake
  /\ configured' = (evtype = "SETCONF")
  /\ lpm' = TRUE
  /\ events' = IF AbortOnBusEvent THEN events \cup {"ABORT"} ELSE events
  /\ UNCHANGED <<threadVars, ep0Pc, ctlVars, timer, gpif, xfer, dmaVars,
                 hostAlive>>

UsbSuspend ==
  /\ Awake
  /\ events' = events \cup {"SUSPEND"}
  /\ UNCHANGED <<threadVars, ep0Pc, ctlVars, hwVars, dmaVars, hostVars>>

-----------------------------------------------------------------------------
(* The EP0 thread, as far as it concerns the stream.                         *)

Ep0Take ==
  /\ Awake /\ ep0Pc = "wait" /\ "VS_REQ" \in events
  /\ events' = events \ {"VS_REQ"}
  /\ ep0Pc' = "getData"
  /\ UNCHANGED <<threadVars, ctlVars, hwVars, dmaVars, hostVars>>

(* CyU3PUsbGetEP0Data may fail: the request is then dropped.                 *)
Ep0GetData ==
  /\ Awake /\ ep0Pc = "getData"
  /\ ep0Pc' \in {"sensor", "wait"}
  /\ UNCHANGED <<events, threadVars, ctlVars, hwVars, dmaVars, hostVars>>

(* sensor_handle_uvc_control has returned: ask for the stream.               *)
Ep0Commit ==
  /\ Awake /\ ep0Pc = "sensor"
  /\ ep0Pc' = "wait"
  /\ events' = events \cup {"STREAM"}
  /\ UNCHANGED <<threadVars, ctlVars, hwVars, dmaVars, hostVars>>

-----------------------------------------------------------------------------
(* DMA notifications and the frame timer.                                    *)

(* What a callback does when the stream has stalled.                         *)
SignalResetUnflagged(reason) ==
  /\ resetFlag' = IF resetFlag = "NOT_ACTIVE" THEN reason ELSE resetFlag
  /\ events' = events
SignalResetAnds(reason) ==   \* CYU3P_EVENT_AND in place of CYU3P_EVENT_OR
  IF resetFlag = "NOT_ACTIVE"
  THEN resetFlag' = reason /\ events' = events \cap {"DMA_RESET"}
  ELSE UNCHANGED <<resetFlag, events>>
SignalReset(reason) ==
  IF resetFlag = "NOT_ACTIVE"
  THEN resetFlag' = reason /\ events' = events \cup {"DMA_RESET"}
  ELSE UNCHANGED <<resetFlag, events>>

(* The timer is restarted by every PROD notification.                        *)
TimerAfterProduceStopped == FALSE
TimerAfterProduce == TRUE

(* CyFxUvcApplnDmaCallback, PROD: commit the filled buffers in order until   *)
(* none is left or a call fails.  Only a failed commit is signalled: when    *)
(* GetBuffer returns INVALID_SEQUENCE, or a GPIO call fails, the buffers     *)
(* left wait for the next PROD notification.                                 *)
DmaProduceCallback ==
  /\ Awake /\ prodEvent
  /\ prodEvent' = FALSE
  /\ timer' = TimerAfterProduce
  /\ \E done \in 0..produced :
       /\ produced' = produced - done
       /\ committed' = committed + done
       /\ \/ UNCHANGED <<resetFlag, events>>
          \/ done < produced /\ SignalReset("COMMIT_BUFFER_FAILURE")
  /\ UNCHANGED <<threadVars, ep0Pc, active, failures, gpif, xfer, lpm,
                 consEvent, hostVars>>

(* CyFxUvcApplnDmaCallback, CONS.                                            *)
DmaConsumeCallback ==
  /\ Awake /\ consEvent
  /\ consEvent' = FALSE
  /\ failures' = 0
  /\ UNCHANGED <<events, threadVars, ep0Pc, active, resetFlag, hwVars,
                 produced, committed, prodEvent, hostVars>>

(* Lines 1112 and 1114 are adjacent and the period is at least 200 ms: a     *)
(* timer started at 1112 does not expire before 1114 has run.                *)
TimerMayExpire == timer /\ appPc # "startFlag"

(* CyFxUvcAppProgressTimer; the timer is one-shot.                           *)
FrameTimerOverflow ==
  /\ Awake /\ TimerMayExpire
  /\ timer' = FALSE
  /\ SignalReset("FRAME_TIMER_OVERFLOW")
  /\ UNCHANGED <<threadVars, ep0Pc, active, failures, gpif, xfer, lpm,
                 dmaVars, hostVars>>

-----------------------------------------------------------------------------
(* The hardware and the host, as the firmware sees them.                     *)

GpifProduce ==
  /\ Awake /\ gpif /\ xfer
  /\ produced + committed < Buffers
  /\ produced' = produced + 1
  /\ prodEvent' = TRUE
  /\ UNCHANGED <<events, threadVars, ep0Pc, ctlVars, hwVars, committed,
                 consEvent, hostVars>>

HostConsume ==
  /\ Awake /\ hostAlive /\ configured /\ committed > 0
  /\ committed' = committed - 1
  /\ consEvent' = TRUE
  /\ UNCHANGED <<events, threadVars, ep0Pc, ctlVars, hwVars, produced,
                 prodEvent, hostVars>>

(* The host program ends without a word: Mac OS "just stops issuing IN       *)
(* tokens" (uvc.c:38).  A host may pause at any time anyway: only liveness   *)
(* needs to know that it has quit.                                           *)
HostQuits ==
  /\ HostMayQuit /\ hostAlive
  /\ hostAlive' = FALSE
  /\ UNCHANGED <<events, threadVars, ep0Pc, ctlVars, hwVars, dmaVars,
                 configured>>

-----------------------------------------------------------------------------
(* CyFxUvcApplnStart, one action per call another party can see.             *)

StartLpm ==
  /\ appPc = "startLpm" /\ AppRuns
  /\ appPc' = "startReset"
  /\ lpm' = FALSE
  /\ UNCHANGED <<events, ret, flag, ep0Pc, ctlVars, timer, gpif, xfer,
                 dmaVars, hostVars>>

StartReset ==
  /\ appPc = "startReset"
  /\ appPc' = "startXfer"
  /\ xfer' = FALSE /\ produced' = 0 /\ committed' = 0
  /\ UNCHANGED <<events, ret, flag, ep0Pc, ctlVars, timer, gpif, lpm,
                 prodEvent, consEvent, hostVars>>

StartXfer ==
  /\ appPc = "startXfer"
  /\ \/ /\ appPc' = "startTimer" /\ xfer' = TRUE
     \/ /\ ApiFailures
        /\ appPc' = "dead" /\ UNCHANGED xfer
  /\ UNCHANGED <<events, ret, flag, ep0Pc, ctlVars, timer, gpif, lpm, dmaVars,
                 hostVars>>

StartTimer ==
  /\ appPc = "startTimer" /\ AppRuns
  /\ appPc' = "startFlag"
  /\ timer' = TRUE
  /\ UNCHANGED <<events, ret, flag, ep0Pc, ctlVars, gpif, xfer, lpm, dmaVars,
                 hostVars>>

(* The value CyFxUvcApplnStart leaves in glDmaResetFlag.                     *)
ResetFlagAtStartKept == resetFlag
ResetFlagAtStart == "NOT_ACTIVE"

StartFlag ==
  /\ appPc = "startFlag" /\ AppRuns
  /\ appPc' = "startGpif"
  /\ resetFlag' = ResetFlagAtStart
  /\ UNCHANGED <<events, ret, flag, ep0Pc, active, failures, hwVars, dmaVars,
                 hostVars>>

StartGpif ==
  /\ appPc = "startGpif" /\ AppRuns
  /\ \/ /\ appPc' = ret /\ gpif' = TRUE
     \/ /\ ApiFailures
        /\ appPc' = "dead" /\ UNCHANGED gpif
  /\ UNCHANGED <<events, ret, flag, ep0Pc, ctlVars, timer, xfer, lpm, dmaVars,
                 hostVars>>

(* CyFxUvcApplnStop.                                                         *)

StopTimer ==
  /\ appPc = "stopTimer" /\ AppRuns
  /\ appPc' = "stopGpif"
  /\ timer' = FALSE
  /\ UNCHANGED <<events, ret, flag, ep0Pc, ctlVars, gpif, xfer, lpm, dmaVars,
                 hostVars>>

StopGpif ==
  /\ appPc = "stopGpif" /\ AppRuns
  /\ appPc' = "stopFlag"
  /\ gpif' = FALSE
  /\ UNCHANGED <<events, ret, flag, ep0Pc, ctlVars, timer, xfer, lpm, dmaVars,
                 hostVars>>

StopFlag ==
  /\ appPc = "stopFlag" /\ AppRuns
  /\ appPc' = "stopReset"
  /\ resetFlag' = "NOT_ACTIVE"
  /\ UNCHANGED <<events, ret, flag, ep0Pc, active, failures, hwVars, dmaVars,
                 hostVars>>

(* What a channel reset leaves of the buffers.                               *)
CommittedAfterStopKept == committed
CommittedAfterStop == 0

StopReset ==
  /\ appPc = "stopReset"
  /\ appPc' = ret
  /\ xfer' = FALSE /\ produced' = 0 /\ committed' = CommittedAfterStop
  /\ lpm' = TRUE
  /\ UNCHANGED <<events, ret, flag, ep0Pc, ctlVars, timer, gpif, prodEvent,
                 consEvent, hostVars>>

-----------------------------------------------------------------------------
(* UVCAppThread_Entry.                                                       *)

(* CyU3PEventGet with OR_CLEAR: take every bit the thread waits for.         *)
EventGet ==
  /\ appPc = "wait" /\ AppRuns
  /\ events \cap AppBits # {}
  /\ flag' = events \cap AppBits
  /\ events' = events \ AppBits
  /\ appPc' = "stream"
  /\ UNCHANGED <<ret, ep0Pc, ctlVars, hwVars, dmaVars, hostVars>>

OnStream ==
  /\ appPc = "stream" /\ AppRuns
  /\ IF "STREAM" \in flag
     THEN active' = TRUE /\ appPc' = "startLpm" /\ ret' = "abort"
     ELSE appPc' = "abort" /\ UNCHANGED <<active, ret>>
  /\ flag' = flag \ {"STREAM"}
  /\ UNCHANGED <<events, ep0Pc, failures, resetFlag, hwVars, dmaVars,
                 hostVars>>

OnAbort ==
  /\ appPc = "abort" /\ AppRuns
  /\ IF "ABORT" \in flag
     THEN active' = FALSE /\ appPc' = "stopTimer" /\ ret' = "reset"
     ELSE appPc' = "reset" /\ UNCHANGED <<active, ret>>
  /\ flag' = flag \ {"ABORT"}
  /\ UNCHANGED <<events, ep0Pc, failures, resetFlag, hwVars, dmaVars,
                 hostVars>>

OnDmaReset ==
  /\ appPc = "reset" /\ AppRuns
  /\ IF "DMA_RESET" \in flag /\ active
     THEN appPc' = "stopTimer" /\ ret' = "retry"
     ELSE appPc' = "suspend" /\ UNCHANGED ret
  /\ flag' = flag \ {"DMA_RESET"}
  /\ UNCHANGED <<events, ep0Pc, ctlVars, hwVars, dmaVars, hostVars>>

(* ++glCommitBufferFailureCount < MAX: start again?                          *)
RetryAllowedOffByOne(n) == n <= MaxFailures
RetryAllowed(n) == n < MaxFailures

OnRetry ==
  /\ appPc = "retry" /\ AppRuns
  /\ IF active
     THEN /\ failures' = failures + 1
          /\ IF RetryAllowed(failures + 1)
             THEN appPc' = "startLpm" /\ ret' = "giveUp"
             ELSE appPc' = "giveUp" /\ UNCHANGED ret
     ELSE appPc' = "giveUp" /\ UNCHANGED <<failures, ret>>
  /\ UNCHANGED <<events, flag, ep0Pc, active, resetFlag, hwVars, dmaVars,
                 hostVars>>

(* The count at which the thread stops for good.                             *)
GivesUpTooLate(n) == n > MaxFailures
GivesUp(n) == n = MaxFailures

OnGiveUp ==
  /\ appPc = "giveUp" /\ AppRuns
  /\ appPc' = "suspend"
  /\ IF GivesUp(failures)
     THEN active' = FALSE /\ failures' = 0
     ELSE UNCHANGED <<active, failures>>
  /\ UNCHANGED <<events, ret, flag, ep0Pc, resetFlag, hwVars, dmaVars,
                 hostVars>>

(* At the end of the loop body the thread's locals are dead.                 *)
LoopEnd ==
  IF appPc' = "wait" THEN flag' = {} /\ ret' = "wait" ELSE UNCHANGED <<flag, ret>>

(* CyU3PSysEnterSuspendMode may refuse, and the loop then ends.              *)
OnSuspend ==
  /\ appPc = "suspend" /\ AppRuns
  /\ IF "SUSPEND" \in flag THEN appPc' \in {"asleep", "wait"}
                           ELSE appPc' = "wait"
  /\ LoopEnd
  /\ UNCHANGED <<events, ep0Pc, ctlVars, hwVars, dmaVars, hostVars>>

(* Bus activity wakes the device; it tries again while the link is in U3.    *)
WakeUp ==
  /\ appPc = "asleep"
  /\ appPc' \in {"suspend", "wait"}
  /\ LoopEnd
  /\ UNCHANGED <<events, ep0Pc, ctlVars, hwVars, dmaVars, hostVars>>

-----------------------------------------------------------------------------
AppThread ==
  \/ EventGet \/ OnStream \/ OnAbort \/ OnDmaReset \/ OnRetry \/ OnGiveUp
  \/ OnSuspend
  \/ StartLpm \/ StartReset \/ StartXfer \/ StartTimer \/ StartFlag \/ StartGpif
  \/ StopTimer \/ StopGpif \/ StopFlag \/ StopReset

Ep0Thread == Ep0Take \/ Ep0GetData \/ Ep0Commit

HostAndSensor ==
  \/ SetupCommit \/ SetupStop
  \/ \E evtype \in {"SETCONF", "RESET", "DISCONNECT", "CONNECT"} :
       UsbBusEvent(evtype)
  \/ GpifProduce \/ HostConsume \/ HostQuits

Environment == HostAndSensor \/ UsbSuspend \/ WakeUp

Callbacks == DmaProduceCallback \/ DmaConsumeCallback \/ FrameTimerOverflow

Next == AppThread \/ Ep0Thread \/ Callbacks \/ Environment

Spec == Init /\ [][Next]_vars

(* The threads and the driver callbacks run; a started timer expires.        *)
(* Callbacks preempt the application thread again and again, but serving a   *)
(* buffer takes less CPU time than filling one: the thread gets its turns    *)
(* (strong fairness).  Nothing is assumed of the host, the sensor or the bus.*)
Fairness ==
  /\ SF_vars(AppThread) /\ WF_vars(Ep0Thread)
  /\ WF_vars(DmaProduceCallback) /\ WF_vars(DmaConsumeCallback)
  /\ WF_vars(FrameTimerOverflow)

(* A bus that is suspended stops all of it: liveness is about one that is not.*)
NextUnsuspended == AppThread \/ Ep0Thread \/ Callbacks \/ HostAndSensor

FairSpec == Init /\ [][NextUnsuspended]_vars /\ Fairness

-----------------------------------------------------------------------------
ControlTypes ==
  /\ events \subseteq AppBits \cup Ep0Bits
  /\ flag \subseteq AppBits
  /\ appPc \in MainPcs \cup StartPcs \cup StopPcs
  /\ ret \in {"wait", "abort", "reset", "retry", "giveUp"}
  /\ ep0Pc \in {"wait", "getData", "sensor"}
  /\ resetFlag \in ResetFlags
  /\ failures \in 0..MaxFailures
  /\ produced \in 0..Buffers /\ committed \in 0..Buffers
  /\ produced + committed <= Buffers

FlagTypes ==
  /\ active \in BOOLEAN /\ configured \in BOOLEAN /\ timer \in BOOLEAN
  /\ gpif \in BOOLEAN /\ xfer \in BOOLEAN /\ lpm \in BOOLEAN
  /\ prodEvent \in BOOLEAN /\ consEvent \in BOOLEAN /\ hostAlive \in BOOLEAN

(* Types, the failure budget never exceeded, and never more buffers in the   *)
(* channel than it owns.                                                     *)
TypeOK == ControlTypes /\ FlagTypes

Idle == appPc = "wait"

(* Between two rounds of the thread, the stream counts as active exactly     *)
(* when the GPIF runs into a channel that has a transfer set: no path        *)
(* through start, abort, reset, retry and give-up leaves one without the     *)
(* other.                                                                    *)
ActiveMeansRunning == Idle => ((gpif <=> active) /\ (xfer <=> active))

(* A stall that a callback has recorded is never forgotten: while the stream *)
(* is up, glDmaResetFlag is raised only with the reset event still pending.  *)
(* If it were raised alone, no later stall could signal again.               *)
NoLostReset ==
  Idle /\ active /\ resetFlag # "NOT_ACTIVE" => "DMA_RESET" \in events

(* An active stream is always watched: the frame timer runs, or its overflow *)
(* is already on the way to the thread.                                      *)
WatchdogArmed == Idle /\ active => timer \/ "DMA_RESET" \in events

(* "Make sure we return to an active USB link state and stay there": the     *)
(* link may go to low power under an active stream only if a bus event has   *)
(* just asked for its end.                                                   *)
LinkKeptAwake == Idle /\ active /\ lpm => "ABORT" \in events

(* A stopped stream leaves no buffer behind for the next session.            *)
StoppedIsDrained == Idle /\ ~active => produced = 0 /\ committed = 0

-----------------------------------------------------------------------------
(* A stop request is on its way as a bit of the event group, and then as one *)
(* of the thread's local copy.                                               *)
StopAsked == "ABORT" \in events \cup flag

Control == INSTANCE StreamControl WITH
  session <- active, running <- gpif, retries <- failures, stop <- StopAsked

(* The threads, callbacks and flags do what stream control promises: no stop *)
(* request is dropped on its way through event group and local copy, the     *)
(* video path is started only inside a session and a session is never begun  *)
(* over a machine that still runs, and the thread gives up exactly when the  *)
(* budget is spent on a stopped machine.                                     *)
ImplementsStreamControl == Control!Spec

-----------------------------------------------------------------------------
(* Liveness, under FairSpec.                                                 *)

Halted == appPc = "dead"

(* A host that goes away without stopping the stream is noticed: the commit  *)
(* failures or timer overflows add up and the stream is stopped (uvc.c:38).  *)
SilentHostStopsStream == (~hostAlive) ~> (~active \/ Halted)

(* A stall recorded while the stream is up is served: the flag comes down    *)
(* again with the reset, or the stream is stopped altogether.                *)
StallIsServed ==
  (active /\ resetFlag # "NOT_ACTIVE")
    ~> (resetFlag = "NOT_ACTIVE" \/ ~active \/ Halted)

-----------------------------------------------------------------------------
(* What a comment says and the code does not do.                             *)

(* uvc.c:229-231: the abort handler is called on every USB reset and         *)
(* disconnect, so no stream runs on an unconfigured device unless its abort  *)
(* is pending.                                                               *)
StreamsOnlyConfigured == Idle /\ active /\ ~configured => "ABORT" \in events
=============================================================================
