--------------------------- MODULE Startup_proofs ---------------------------
(***************************************************************************)
(* Type correctness and the safety invariants of UvcApp, for every failure *)
(* budget and every number of buffers; that it implements its abstract     *)
(* specification; that all of it holds from the first instruction of the   *)
(* firmware on; and that nothing is used before the start-up has made it.  *)
(*                                                                         *)
(* The safety invariants speak of the moments the application thread waits *)
(* for events.  IInv carries them through the thread's round: each part    *)
(* says, for the program points at which it can be relied upon, what the   *)
(* invariant becomes while a bit that justifies it has moved from the      *)
(* event group into the thread's local copy.                               *)
(***************************************************************************)
EXTENDS Startup, TLAPS

(* The points between start, stop and retry.                                *)
RoundPcs == {"wait", "stream", "abort", "reset", "suspend", "asleep"}

(* The round still holds the bits it took and has not come to.               *)
ResetPending ==
  \/ "DMA_RESET" \in events
  \/ appPc \in {"stream", "abort", "reset"} /\ "DMA_RESET" \in flag
AbortPending ==
  \/ "ABORT" \in events
  \/ appPc \in {"stream", "abort"} \cup StartPcs /\ "ABORT" \in flag

(* Who called start and stop.                                                *)
CallerInv ==
  /\ appPc \in StartPcs => ret \in {"abort", "giveUp"} /\ active
  /\ appPc \in StopPcs => \/ ret = "reset" /\ ~active
                          \/ ret = "retry" /\ active
  /\ appPc = "retry" => active
  /\ \/ appPc \in {"reset", "retry", "giveUp", "suspend", "asleep", "wait"} \cup StopPcs
     \/ appPc \in StartPcs /\ ret = "giveUp"
     => "ABORT" \notin flag

(* The state of the GPIF and the channel at each point.                      *)
RunningInv ==
  /\ appPc \in RoundPcs => (gpif <=> active) /\ (xfer <=> active)
  /\ appPc \in {"startTimer", "startFlag", "startGpif"} => xfer
  /\ appPc \in {"stopFlag", "stopReset", "retry"} => ~gpif
  /\ appPc = "retry" => ~xfer
  /\ appPc = "giveUp" =>
       /\ active
       /\ (gpif <=> failures < MaxFailures) /\ (xfer <=> gpif)

(* The failure budget: used up only between the last retry and the give-up,  *)
(* and then nothing in the channel can produce a CONS notification.          *)
BudgetInv ==
  /\ appPc # "giveUp" => failures < MaxFailures
  /\ appPc = "giveUp" /\ ~gpif => ~consEvent

DrainedInv ==
  \/ appPc \in RoundPcs /\ ~active
  \/ appPc = "retry"
  \/ appPc = "giveUp" /\ ~gpif
  => produced = 0 /\ committed = 0

ResetInv ==
  \/ appPc \in RoundPcs /\ active
  \/ appPc \in {"stopReset", "retry", "giveUp", "startGpif"}
  => (resetFlag # "NOT_ACTIVE" => ResetPending)

WatchdogInv ==
  /\ appPc = "startFlag" => timer
  /\ \/ appPc \in RoundPcs /\ active
     \/ appPc = "startGpif"
     \/ appPc = "giveUp" /\ gpif
     => timer \/ ResetPending

LinkInv ==
  \/ appPc \in RoundPcs /\ active
  \/ appPc \in StartPcs \ {"startLpm"}
  \/ appPc = "giveUp" /\ gpif
  => (lpm => AbortPending)

IInv ==
  /\ TypeOK /\ CallerInv /\ RunningInv /\ BudgetInv /\ DrainedInv
  /\ ResetInv /\ WatchdogInv /\ LinkInv

-----------------------------------------------------------------------------
(* The initial state.                                                       *)
LEMMA InitIInv == Init => IInv
<1> SUFFICES ASSUME Init PROVE IInv
  OBVIOUS
<1> USE UvcAppAssumption DEF UvcAppAssumption, Init
<1>1. ControlTypes
  BY DEF ControlTypes, AppBits, Ep0Bits, StartPcs, StopPcs, MainPcs, ResetFlags
<1>2. FlagTypes
  BY Zenon DEF FlagTypes
<1>3. CallerInv /\ RunningInv /\ BudgetInv /\ DrainedInv
  BY DEF CallerInv, RunningInv, BudgetInv, DrainedInv, StartPcs, StopPcs, RoundPcs
<1>4. ResetInv /\ WatchdogInv /\ LinkInv
  BY DEF ResetInv, WatchdogInv, LinkInv, StartPcs, RoundPcs
<1> QED
  BY <1>1, <1>2, <1>3, <1>4 DEF IInv, TypeOK

(* Numbers, sets and program points keep their types.                       *)
LEMMA ControlTypesStep == IInv /\ [Next]_vars => ControlTypes'
<1> SUFFICES ASSUME IInv, [Next]_vars PROVE ControlTypes'
  OBVIOUS
<1> USE UvcAppAssumption DEF UvcAppAssumption, IInv, TypeOK, ControlTypes,
        BudgetInv, AppBits, Ep0Bits, StartPcs, StopPcs, MainPcs, ResetFlags,
        threadVars, ctlVars, hwVars, dmaVars, hostVars, Awake, AppRuns
<1>1. CASE SetupCommit \/ SetupStop \/ UsbSuspend
  <2>1. CASE SetupCommit
    BY <2>1 DEF SetupCommit
  <2>2. CASE SetupStop
    BY <2>2 DEF SetupStop
  <2>3. CASE UsbSuspend
    BY <2>3 DEF UsbSuspend
  <2> QED
    BY <1>1, <2>1, <2>2, <2>3
<1>2. CASE Ep0Take \/ Ep0GetData \/ Ep0Commit
  BY <1>2 DEF Ep0Take, Ep0GetData, Ep0Commit
<1>3. CASE DmaProduceCallback
  <2>1. PICK done \in 0..produced : /\ produced' = produced - done
                                    /\ committed' = committed + done
    BY <1>3 DEF DmaProduceCallback
  <2>2. resetFlag' \in ResetFlags /\ events' \subseteq AppBits \cup Ep0Bits
    BY <1>3 DEF DmaProduceCallback, SignalReset
  <2> QED
    BY <1>3, <2>1, <2>2 DEF DmaProduceCallback
<1>4. CASE DmaConsumeCallback
  BY <1>4 DEF DmaConsumeCallback
<1>5. CASE FrameTimerOverflow
  BY <1>5 DEF FrameTimerOverflow, SignalReset, TimerMayExpire
<1>6. CASE GpifProduce
  BY <1>6 DEF GpifProduce
<1>7. CASE HostConsume \/ HostQuits
  <2>1. CASE HostConsume
    BY <2>1 DEF HostConsume
  <2>2. CASE HostQuits
    BY <2>2 DEF HostQuits
  <2> QED
    BY <1>7, <2>1, <2>2
<1>8. CASE EventGet
  BY <1>8 DEF EventGet
<1>9. CASE OnStream
  BY <1>9 DEF OnStream
<1>10. CASE OnAbort
  BY <1>10 DEF OnAbort
<1>11. CASE OnDmaReset
  BY <1>11 DEF OnDmaReset
<1>12. CASE OnRetry
  BY <1>12 DEF OnRetry, RetryAllowed
<1>13. CASE OnGiveUp
  BY <1>13 DEF OnGiveUp, GivesUp
<1>14. CASE OnSuspend \/ WakeUp
  BY <1>14 DEF OnSuspend, WakeUp, LoopEnd
<1>15. CASE StartLpm \/ StartReset \/ StartXfer
  <2>1. CASE StartLpm
    BY <2>1 DEF StartLpm
  <2>2. CASE StartReset
    BY <2>2 DEF StartReset
  <2>3. CASE StartXfer
    BY <2>3 DEF StartXfer
  <2> QED
    BY <1>15, <2>1, <2>2, <2>3
<1>16. CASE StartTimer \/ StartFlag \/ StartGpif
  BY <1>16 DEF StartTimer, StartFlag, StartGpif, ResetFlagAtStart
<1>17. CASE StopTimer \/ StopGpif \/ StopFlag
  BY <1>17 DEF StopTimer, StopGpif, StopFlag
<1>18. CASE StopReset
  BY <1>18 DEF StopReset, CommittedAfterStop
<1>19. ASSUME NEW evtype \in {"SETCONF", "RESET", "DISCONNECT", "CONNECT"},
             UsbBusEvent(evtype)
      PROVE ControlTypes'
  BY <1>19 DEF UsbBusEvent, AbortOnBusEvent
<1>20. CASE UNCHANGED vars
  BY <1>20 DEF vars
<1> QED
  BY <1>1, <1>2, <1>3, <1>4, <1>5, <1>6, <1>7, <1>8, <1>9, <1>10, <1>11,
     <1>12, <1>13, <1>14, <1>15, <1>16, <1>17, <1>18, <1>19, <1>20
  DEF Next, AppThread, Ep0Thread, Callbacks, HostAndSensor, Environment

(* The flags stay Boolean.                                                   *)
LEMMA FlagTypesStep == IInv /\ [Next]_vars => FlagTypes'
<1> SUFFICES ASSUME IInv, [Next]_vars PROVE FlagTypes'
  OBVIOUS
<1> USE UvcAppAssumption DEF UvcAppAssumption, IInv, TypeOK, FlagTypes,
        threadVars, ctlVars, hwVars, dmaVars, hostVars, Awake, AppRuns
<1>1. CASE SetupCommit \/ SetupStop \/ UsbSuspend
  BY <1>1, Zenon DEF SetupCommit, SetupStop, UsbSuspend
<1>2. CASE Ep0Take \/ Ep0GetData \/ Ep0Commit
  BY <1>2, Zenon DEF Ep0Take, Ep0GetData, Ep0Commit
<1>3. CASE DmaProduceCallback
  BY <1>3, Zenon DEF DmaProduceCallback, SignalReset, TimerAfterProduce
<1>4. CASE DmaConsumeCallback
  BY <1>4, Zenon DEF DmaConsumeCallback
<1>5. CASE FrameTimerOverflow
  BY <1>5, Zenon DEF FrameTimerOverflow, SignalReset, TimerMayExpire
<1>6. CASE GpifProduce
  BY <1>6, Zenon DEF GpifProduce
<1>7. CASE HostConsume \/ HostQuits
  BY <1>7, Zenon DEF HostConsume, HostQuits
<1>8. CASE EventGet
  BY <1>8, Zenon DEF EventGet
<1>9. CASE OnStream
  BY <1>9, Zenon DEF OnStream
<1>10. CASE OnAbort
  BY <1>10, Zenon DEF OnAbort
<1>11. CASE OnDmaReset
  BY <1>11, Zenon DEF OnDmaReset
<1>12. CASE OnRetry
  BY <1>12, Zenon DEF OnRetry, RetryAllowed
<1>13. CASE OnGiveUp
  BY <1>13, Zenon DEF OnGiveUp, GivesUp
<1>14. CASE OnSuspend \/ WakeUp
  BY <1>14, Zenon DEF OnSuspend, WakeUp, LoopEnd
<1>15. CASE StartLpm \/ StartReset \/ StartXfer
  BY <1>15, Zenon DEF StartLpm, StartReset, StartXfer
<1>16. CASE StartTimer \/ StartFlag \/ StartGpif
  BY <1>16, Zenon DEF StartTimer, StartFlag, StartGpif, ResetFlagAtStart
<1>17. CASE StopTimer \/ StopGpif \/ StopFlag
  BY <1>17, Zenon DEF StopTimer, StopGpif, StopFlag
<1>18. CASE StopReset
  BY <1>18, Zenon DEF StopReset, CommittedAfterStop
<1>19. ASSUME NEW evtype \in {"SETCONF", "RESET", "DISCONNECT", "CONNECT"},
             UsbBusEvent(evtype)
      PROVE FlagTypes'
  BY <1>19, Zenon DEF UsbBusEvent, AbortOnBusEvent
<1>20. CASE UNCHANGED vars
  BY <1>20, Zenon DEF vars
<1> QED
  BY <1>1, <1>2, <1>3, <1>4, <1>5, <1>6, <1>7, <1>8, <1>9, <1>10, <1>11,
     <1>12, <1>13, <1>14, <1>15, <1>16, <1>17, <1>18, <1>19, <1>20
  DEF Next, AppThread, Ep0Thread, Callbacks, HostAndSensor, Environment

(* Callers, GPIF and channel, failure budget and buffers fit the thread's     *)
(* place in its round.                                                       *)
LEMMA RoundStep == IInv /\ [Next]_vars => (CallerInv /\ RunningInv /\ BudgetInv /\ DrainedInv)'
<1> SUFFICES ASSUME IInv, [Next]_vars PROVE (CallerInv /\ RunningInv /\ BudgetInv /\ DrainedInv)'
  OBVIOUS
<1> USE UvcAppAssumption DEF UvcAppAssumption, IInv, TypeOK, ControlTypes,
        FlagTypes, CallerInv, RunningInv, BudgetInv, DrainedInv, StartPcs,
        StopPcs, RoundPcs, threadVars, ctlVars, hwVars, dmaVars, hostVars, Awake, AppRuns
<1>1. CASE SetupCommit \/ SetupStop \/ UsbSuspend
  BY <1>1 DEF SetupCommit, SetupStop, UsbSuspend
<1>2. CASE Ep0Take \/ Ep0GetData \/ Ep0Commit
  BY <1>2 DEF Ep0Take, Ep0GetData, Ep0Commit
<1>3. CASE DmaProduceCallback
  BY <1>3 DEF DmaProduceCallback, SignalReset, TimerAfterProduce
<1>4. CASE DmaConsumeCallback
  BY <1>4 DEF DmaConsumeCallback
<1>5. CASE FrameTimerOverflow
  BY <1>5 DEF FrameTimerOverflow, SignalReset, TimerMayExpire
<1>6. CASE GpifProduce
  BY <1>6 DEF GpifProduce
<1>7. CASE HostConsume \/ HostQuits
  BY <1>7 DEF HostConsume, HostQuits
<1>8. CASE EventGet
  BY <1>8 DEF EventGet
<1>9. CASE OnStream
  BY <1>9 DEF OnStream
<1>10. CASE OnAbort
  BY <1>10 DEF OnAbort
<1>11. CASE OnDmaReset
  BY <1>11 DEF OnDmaReset
<1>12. CASE OnRetry
  BY <1>12 DEF OnRetry, RetryAllowed
<1>13. CASE OnGiveUp
  <2>1. CASE failures = MaxFailures
    <3>1. ~active'
      BY <1>13, <2>1, Zenon DEF OnGiveUp, GivesUp
    <3> QED
      BY <1>13, <2>1, <3>1 DEF OnGiveUp, GivesUp
  <2>2. CASE failures # MaxFailures
    BY <1>13, <2>2 DEF OnGiveUp, GivesUp
  <2> QED
    BY <2>1, <2>2
<1>14. CASE OnSuspend \/ WakeUp
  BY <1>14 DEF OnSuspend, WakeUp, LoopEnd
<1>15. CASE StartLpm \/ StartReset \/ StartXfer
  BY <1>15 DEF StartLpm, StartReset, StartXfer
<1>16. CASE StartTimer \/ StartFlag \/ StartGpif
  BY <1>16 DEF StartTimer, StartFlag, StartGpif, ResetFlagAtStart
<1>17. CASE StopTimer \/ StopGpif \/ StopFlag
  BY <1>17 DEF StopTimer, StopGpif, StopFlag
<1>18. CASE StopReset
  BY <1>18 DEF StopReset, CommittedAfterStop
<1>19. ASSUME NEW evtype \in {"SETCONF", "RESET", "DISCONNECT", "CONNECT"},
             UsbBusEvent(evtype)
      PROVE (CallerInv /\ RunningInv /\ BudgetInv /\ DrainedInv)'
  BY <1>19 DEF UsbBusEvent, AbortOnBusEvent
<1>20. CASE UNCHANGED vars
  BY <1>20 DEF vars
<1> QED
  BY <1>1, <1>2, <1>3, <1>4, <1>5, <1>6, <1>7, <1>8, <1>9, <1>10, <1>11,
     <1>12, <1>13, <1>14, <1>15, <1>16, <1>17, <1>18, <1>19, <1>20
  DEF Next, AppThread, Ep0Thread, Callbacks, HostAndSensor, Environment

(* Recorded stalls, the watchdog and pending aborts are not lost.             *)
LEMMA SignalStep == IInv /\ [Next]_vars => (ResetInv /\ WatchdogInv /\ LinkInv)'
<1> SUFFICES ASSUME IInv, [Next]_vars PROVE (ResetInv /\ WatchdogInv /\ LinkInv)'
  OBVIOUS
<1> USE UvcAppAssumption DEF UvcAppAssumption, IInv, TypeOK, ControlTypes,
        FlagTypes, CallerInv, RunningInv, ResetInv, WatchdogInv, LinkInv,
        ResetPending, AbortPending, AppBits, StartPcs, StopPcs, RoundPcs,
        threadVars, ctlVars, hwVars, dmaVars, hostVars, Awake, AppRuns
<1>1. CASE SetupCommit \/ SetupStop \/ UsbSuspend
  BY <1>1 DEF SetupCommit, SetupStop, UsbSuspend
<1>2. CASE Ep0Take \/ Ep0GetData \/ Ep0Commit
  BY <1>2 DEF Ep0Take, Ep0GetData, Ep0Commit
<1>3. CASE DmaProduceCallback
  BY <1>3 DEF DmaProduceCallback, SignalReset, TimerAfterProduce
<1>4. CASE DmaConsumeCallback
  BY <1>4 DEF DmaConsumeCallback
<1>5. CASE FrameTimerOverflow
  BY <1>5 DEF FrameTimerOverflow, SignalReset, TimerMayExpire
<1>6. CASE GpifProduce
  BY <1>6 DEF GpifProduce
<1>7. CASE HostConsume \/ HostQuits
  BY <1>7 DEF HostConsume, HostQuits
<1>8. CASE EventGet
  BY <1>8 DEF EventGet
<1>9. CASE OnStream
  BY <1>9 DEF OnStream
<1>10. CASE OnAbort
  BY <1>10 DEF OnAbort
<1>11. CASE OnDmaReset
  BY <1>11 DEF OnDmaReset
<1>12. CASE OnRetry
  BY <1>12 DEF OnRetry, RetryAllowed
<1>13. CASE OnGiveUp
  <2>1. CASE failures = MaxFailures
    <3>1. ~active'
      BY <1>13, <2>1, Zenon DEF OnGiveUp, GivesUp
    <3> QED
      BY <1>13, <2>1, <3>1 DEF OnGiveUp, GivesUp
  <2>2. CASE failures # MaxFailures
    BY <1>13, <2>2 DEF OnGiveUp, GivesUp
  <2> QED
    BY <2>1, <2>2
<1>14. CASE OnSuspend \/ WakeUp
  BY <1>14 DEF OnSuspend, WakeUp, LoopEnd
<1>15. CASE StartLpm \/ StartReset \/ StartXfer
  BY <1>15 DEF StartLpm, StartReset, StartXfer
<1>16. CASE StartTimer \/ StartFlag \/ StartGpif
  BY <1>16 DEF StartTimer, StartFlag, StartGpif, ResetFlagAtStart
<1>17. CASE StopTimer \/ StopGpif \/ StopFlag
  BY <1>17 DEF StopTimer, StopGpif, StopFlag
<1>18. CASE StopReset
  BY <1>18 DEF StopReset, CommittedAfterStop
<1>19. ASSUME NEW evtype \in {"SETCONF", "RESET", "DISCONNECT", "CONNECT"},
             UsbBusEvent(evtype)
      PROVE (ResetInv /\ WatchdogInv /\ LinkInv)'
  BY <1>19 DEF UsbBusEvent, AbortOnBusEvent
<1>20. CASE UNCHANGED vars
  BY <1>20 DEF vars
<1> QED
  BY <1>1, <1>2, <1>3, <1>4, <1>5, <1>6, <1>7, <1>8, <1>9, <1>10, <1>11,
     <1>12, <1>13, <1>14, <1>15, <1>16, <1>17, <1>18, <1>19, <1>20
  DEF Next, AppThread, Ep0Thread, Callbacks, HostAndSensor, Environment

(* IInv is inductive.                                                        *)
LEMMA NextIInv == IInv /\ [Next]_vars => IInv'
  BY ControlTypesStep, FlagTypesStep, RoundStep, SignalStep DEF IInv, TypeOK

THEOREM Invariance == Spec => []IInv
<1>1. Init => IInv
  BY InitIInv
<1>2. IInv /\ [Next]_vars => IInv'
  BY NextIInv
<1> QED
  BY <1>1, <1>2, PTL DEF Spec

-----------------------------------------------------------------------------
(* Every variable keeps its type, the failure count stays within its budget  *)
(* and the channel never holds more buffers than it owns.                    *)
THEOREM TypeCorrect == Spec => []TypeOK
<1>1. IInv => TypeOK
  BY DEF IInv
<1> QED
  BY <1>1, Invariance, PTL

(* While the thread waits, the stream is active exactly when the GPIF and    *)
(* the DMA channel are running.                                              *)
THEOREM Running == Spec => []ActiveMeansRunning
<1>1. IInv => ActiveMeansRunning
  BY DEF IInv, RunningInv, RoundPcs, ActiveMeansRunning, Idle
<1> QED
  BY <1>1, Invariance, PTL

(* A stopped stream has left no buffer, filled or committed.                 *)
THEOREM Drained == Spec => []StoppedIsDrained
<1>1. IInv => StoppedIsDrained
  BY DEF IInv, DrainedInv, RoundPcs, StoppedIsDrained, Idle
<1> QED
  BY <1>1, Invariance, PTL

(* No recorded stall of an active stream is lost.                            *)
THEOREM Recovery == Spec => []NoLostReset
<1>1. IInv => NoLostReset
  BY DEF IInv, ResetInv, RoundPcs, ResetPending, NoLostReset, Idle
<1> QED
  BY <1>1, Invariance, PTL

(* An active stream is always watched by the timer, or its reset is pending. *)
THEOREM Watched == Spec => []WatchdogArmed
<1>1. IInv => WatchdogArmed
  BY DEF IInv, WatchdogInv, RoundPcs, ResetPending, WatchdogArmed, Idle
<1> QED
  BY <1>1, Invariance, PTL

(* The link sleeps under an active stream only with an abort on its way.     *)
THEOREM LinkAwake == Spec => []LinkKeptAwake
<1>1. IInv => LinkKeptAwake
  BY DEF IInv, LinkInv, RoundPcs, StartPcs, AbortPending, LinkKeptAwake, Idle
<1> QED
  BY <1>1, Invariance, PTL

-----------------------------------------------------------------------------
(* A stop request stays where AbortPending looks for it, or its session ends.*)
LEMMA ControlStep == IInv /\ [Next]_vars => [Control!Next]_(Control!controlVars)
<1> SUFFICES ASSUME IInv, [Next]_vars PROVE [Control!Next]_(Control!controlVars)
  OBVIOUS
<1> USE UvcAppAssumption DEF UvcAppAssumption, IInv, TypeOK, ControlTypes,
        FlagTypes, CallerInv, RunningInv, BudgetInv, StopAsked, AppBits,
        StartPcs, StopPcs, RoundPcs, threadVars, ctlVars, hwVars, dmaVars,
        hostVars, Awake, AppRuns, Control!Next, Control!controlVars,
        Control!AskStop, Control!Begin, Control!End, Control!Run, Control!Halt,
        Control!Deliver, Control!Retry, Control!GiveUp
<1>1. CASE SetupCommit \/ SetupStop \/ UsbSuspend
  BY <1>1 DEF SetupCommit, SetupStop, UsbSuspend
<1>2. CASE Ep0Take \/ Ep0GetData \/ Ep0Commit
  BY <1>2 DEF Ep0Take, Ep0GetData, Ep0Commit
<1>3. CASE DmaProduceCallback
  BY <1>3 DEF DmaProduceCallback, SignalReset
<1>4. CASE DmaConsumeCallback
  BY <1>4 DEF DmaConsumeCallback
<1>5. CASE FrameTimerOverflow
  BY <1>5 DEF FrameTimerOverflow, SignalReset
<1>6. CASE GpifProduce
  BY <1>6 DEF GpifProduce
<1>7. CASE HostConsume \/ HostQuits
  BY <1>7 DEF HostConsume, HostQuits
<1>8. CASE EventGet
  BY <1>8 DEF EventGet
<1>9. CASE OnStream
  BY <1>9 DEF OnStream
<1>10. CASE OnAbort
  BY <1>10 DEF OnAbort
<1>11. CASE OnDmaReset
  BY <1>11 DEF OnDmaReset
<1>12. CASE OnRetry
  BY <1>12 DEF OnRetry, RetryAllowed
<1>13. CASE OnGiveUp
  <2>1. CASE failures = MaxFailures
    <3>1. active' = FALSE /\ failures' = 0 /\ active /\ ~gpif
      BY <1>13, <2>1 DEF OnGiveUp, GivesUp
    <3> QED
      BY <1>13, <2>1, <3>1 DEF OnGiveUp
  <2>2. CASE failures # MaxFailures
    BY <1>13, <2>2 DEF OnGiveUp, GivesUp
  <2> QED
    BY <2>1, <2>2
<1>14. CASE OnSuspend \/ WakeUp
  BY <1>14 DEF OnSuspend, WakeUp, LoopEnd
<1>15. CASE StartLpm \/ StartReset \/ StartXfer
  BY <1>15 DEF StartLpm, StartReset, StartXfer
<1>16. CASE StartTimer \/ StartFlag \/ StartGpif
  BY <1>16 DEF StartTimer, StartFlag, StartGpif
<1>17. CASE StopTimer \/ StopGpif \/ StopFlag
  BY <1>17 DEF StopTimer, StopGpif, StopFlag
<1>18. CASE StopReset
  BY <1>18 DEF StopReset
<1>19. ASSUME NEW evtype \in {"SETCONF", "RESET", "DISCONNECT", "CONNECT"},
             UsbBusEvent(evtype)
      PROVE [Control!Next]_(Control!controlVars)
  BY <1>19 DEF UsbBusEvent, AbortOnBusEvent
<1>20. CASE UNCHANGED vars
  BY <1>20 DEF vars
<1> QED
  BY <1>1, <1>2, <1>3, <1>4, <1>5, <1>6, <1>7, <1>8, <1>9, <1>10, <1>11,
     <1>12, <1>13, <1>14, <1>15, <1>16, <1>17, <1>18, <1>19, <1>20
  DEF Next, AppThread, Ep0Thread, Callbacks, HostAndSensor, Environment

(* Threads, callbacks and flags implement stream control, for every failure  *)
(* budget and every number of buffers.                                       *)
THEOREM Refinement == Spec => ImplementsStreamControl
<1>1. Init => Control!Init
  BY DEF Init, Control!Init, StopAsked
<1>2. IInv /\ [Next]_vars => [Control!Next]_(Control!controlVars)
  BY ControlStep
<1> QED
  BY <1>1, <1>2, Invariance, PTL DEF Spec, ImplementsStreamControl, Control!Spec

-----------------------------------------------------------------------------

(* The start-up adds nothing to stream control but the time it takes: seen  *)
(* without its own two variables, it is a behaviour of UvcApp.              *)
THEOREM StartupImplementsUvcApp == StartupSpec => Spec
<1>1. StartupInit => Init
  BY DEF StartupInit
<1>2. [StartupNext]_<<vars, bootVars>> => [Next]_vars
  <2> SUFFICES ASSUME [StartupNext]_<<vars, bootVars>> PROVE [Next]_vars
    OBVIOUS
  <2>1. CASE Boot
    BY <2>1 DEF Boot
  <2>2. CASE ErrorHandler
    BY <2>2 DEF ErrorHandler
  <2>3. CASE Threads \/ DriverThreads \/ OutsideWorld
    BY <2>3 DEF Threads, DriverThreads, OutsideWorld, Next
  <2>4. CASE UNCHANGED <<vars, bootVars>>
    BY <2>4
  <2> QED
    BY <2>1, <2>2, <2>3, <2>4 DEF StartupNext
<1> QED
  BY <1>1, <1>2, PTL DEF StartupSpec, Spec

(* The safety invariants of stream control, from the first instruction on.  *)
THEOREM StartupSafe ==
  StartupSpec => [](/\ TypeOK /\ ActiveMeansRunning /\ StoppedIsDrained
                    /\ NoLostReset /\ WatchdogArmed /\ LinkKeptAwake)
  BY StartupImplementsUvcApp, TypeCorrect, Running, Drained, Recovery, Watched,
     LinkAwake, PTL

(* The firmware as a whole implements the abstract stream control.          *)
THEOREM StartupRefinement == StartupSpec => ImplementsStreamControl
  BY StartupImplementsUvcApp, Refinement

-----------------------------------------------------------------------------
(* The device is put on the bus last, when all else is made.                *)
LEMMA ConnectIsLast ==
  /\ Len(Steps) \in Nat
  /\ Position["connect"] = Len(Steps)
  /\ \A object \in Objects : Position[object] <= Len(Steps)
  /\ {"eventGroup", "timer", "channel", "gpifLoad", "gpifCallback", "i2cConfig",
      "sensorInit", "connect"} \subseteq Objects
<1>1. /\ DOMAIN Steps = 1..30 /\ Len(Steps) = 30
      /\ Steps[30] = "connect" /\ \A i \in 1..29 : Steps[i] # "connect"
  BY DEF Steps, Main, ApplicationDefine, DebugInit, I2CInit, ApplnInit, GpifInit,
         UsbDevice
<1>2. /\ Steps[11] = "i2cConfig" /\ Steps[12] = "eventGroup" /\ Steps[17] = "gpifLoad"
      /\ Steps[18] = "gpifCallback" /\ Steps[20] = "sensorInit"
      /\ Steps[28] = "channel" /\ Steps[29] = "timer"
  BY DEF Steps, Main, ApplicationDefine, DebugInit, I2CInit, ApplnInit, GpifInit,
         UsbDevice
<1>3. \A object \in Objects : Position[object] \in 1..30
  BY <1>1 DEF Position, Objects
<1>4. \A object \in Objects : Steps[Position[object]] = object
  BY <1>1 DEF Position, Objects
<1>5. {"eventGroup", "timer", "channel", "gpifLoad", "gpifCallback", "i2cConfig",
       "sensorInit", "connect"} \subseteq Objects
  BY <1>1, <1>2 DEF Objects
<1>6. Position["connect"] = 30
  BY <1>1, <1>3, <1>4, <1>5
<1> QED
  BY <1>1, <1>3, <1>5, <1>6

(* Before the start-up is over, the EP0 thread has not seen an event and     *)
(* nothing the callbacks wait for has been started.                          *)
BootInv ==
  /\ step \in 0..Len(Steps)
  /\ step < Len(Steps) =>
       /\ events = {} /\ ep0Pc = "wait"
       /\ ~timer /\ ~xfer /\ ~gpif /\ ~prodEvent /\ ~consEvent

LEMMA BootInvStep == BootInv /\ [StartupNext]_<<vars, bootVars>> => BootInv'
<1> SUFFICES ASSUME BootInv, [StartupNext]_<<vars, bootVars>> PROVE BootInv'
  OBVIOUS
<1> USE ConnectIsLast DEF BootInv
<1>1. CASE Boot
  BY <1>1 DEF Boot, vars, threadVars, ctlVars, hwVars, dmaVars, hostVars
<1>2. CASE ErrorHandler
  BY <1>2 DEF ErrorHandler, vars, bootVars, threadVars, ctlVars, hwVars, dmaVars, hostVars
<1>3. CASE Threads
  <2>1. step' = step
    BY <1>3 DEF Threads, bootVars
  <2>2. step = Len(Steps)
    BY <1>3 DEF Threads, Ep0Thread, Ep0Take, Ep0GetData, Ep0Commit
  <2> QED
    BY <2>1, <2>2
<1>4. CASE DriverThreads
  <2>1. step' = step
    BY <1>4 DEF DriverThreads, bootVars
  <2>2. step = Len(Steps)
    BY <1>4 DEF DriverThreads, Callbacks, DmaProduceCallback, DmaConsumeCallback,
                FrameTimerOverflow, TimerMayExpire
  <2> QED
    BY <2>1, <2>2
<1>5. CASE OutsideWorld
  BY <1>5 DEF OutsideWorld, Made, bootVars
<1>6. CASE UNCHANGED <<vars, bootVars>>
  BY <1>6 DEF vars, bootVars, threadVars, ctlVars, hwVars, dmaVars, hostVars
<1> QED
  BY <1>1, <1>2, <1>3, <1>4, <1>5, <1>6 DEF StartupNext

(* No event is set, no timer, channel or machine runs and the EP0 thread is  *)
(* not in the sensor driver before the start-up has made what they work on.  *)
THEOREM MadeBeforeUsed == StartupSpec => []NothingUsedBeforeMade
<1>1. StartupInit => BootInv
  BY ConnectIsLast DEF StartupInit, Init, BootInv
<1>2. BootInv => NothingUsedBeforeMade
  BY ConnectIsLast DEF BootInv, NothingUsedBeforeMade, Made
<1> QED
  BY <1>1, <1>2, BootInvStep, PTL DEF StartupSpec
=============================================================================
