------------------------------- MODULE Startup -------------------------------
(***************************************************************************)
(* Start-up of the FX3 firmware (uvc.c: main, CyFxApplicationDefine and    *)
(* the three initialisers UVCAppThread_Entry calls), with the stream       *)
(* control of UvcApp beside it: the EP0 thread is started together with    *)
(* the application thread, before anything it works on exists, and the USB *)
(* callbacks run from the moment the device is put on the bus.             *)
(*                                                                         *)
(* A step is a call that makes something or that may fail.  A failed step  *)
(* ends the start-up for good: before the threads run in an endless loop,  *)
(* in the application thread in CyFxAppErrorHandler.                       *)
(*                                                                         *)
(* Abstracted: clocks, pin numbers and sizes.  The results of              *)
(* CyU3PDeviceCacheControl, CyU3PUsbSetDesc and CyU3PTimerCreate are not   *)
(* looked at by the code: these calls are taken to succeed.                *)
(***************************************************************************)
EXTENDS UvcApp, Sequences

VARIABLES
  step,    \* number of start-up steps that are done
  stuck    \* the step after them has failed

bootVars == <<step, stuck>>

Main == <<"deviceInit", "ioMatrix">>
ApplicationDefine == <<"stacks", "appThread", "ep0Thread">>
DebugInit == <<"uartInit", "uartConfig", "uartXfer", "debugInit">>
I2CInit == <<"i2cInit", "i2cConfig">>
GpifInit == <<"gpifLoad">>

(* CyFxUVCApplnInit; the device goes on the bus last.                       *)
UsbDevice == <<"usbStart", "setupCallback", "eventCallback", "lpmCallback",
               "descriptors", "videoEndpoint", "statusEndpoint">>
ApplnInitConnectsEarly ==
  <<"connect", "eventGroup", "gpioInit", "debugPin", "resetPin", "pibInit">> \o GpifInit
    \o <<"gpifCallback", "sensorReset", "sensorInit">> \o UsbDevice
    \o <<"channel", "timer">>
ApplnInit ==
  <<"eventGroup", "gpioInit", "debugPin", "resetPin", "pibInit">> \o GpifInit
    \o <<"gpifCallback", "sensorReset", "sensorInit">> \o UsbDevice
    \o <<"channel", "timer", "connect">>

Steps == Main \o ApplicationDefine \o DebugInit \o I2CInit \o ApplnInit

(* The steps whose result is not looked at, or that have none.              *)
Unchecked == {"gpifCallback", "sensorReset", "sensorInit", "setupCallback",
              "eventCallback", "lpmCallback", "descriptors", "timer"}

Objects == {Steps[i] : i \in DOMAIN Steps}
Position == [object \in Objects |-> CHOOSE i \in DOMAIN Steps : Steps[i] = object]
Made(object) == Position[object] <= step

StartupInit == Init /\ step = 0 /\ stuck = FALSE

Boot ==
  /\ step < Len(Steps) /\ ~stuck
  /\ \/ step' = step + 1 /\ UNCHANGED stuck
     \/ /\ ApiFailures /\ Steps[step + 1] \notin Unchecked
        /\ stuck' = TRUE /\ UNCHANGED step
  /\ UNCHANGED vars

(* The endless loops a failed step ends in.                                 *)
ErrorHandler == stuck /\ UNCHANGED <<vars, bootVars>>

(* The application thread enters its loop when all is made.  The EP0 thread *)
(* gets an error from CyU3PEventGet, and tries again, while there is no     *)
(* event group.  Host and bus reach the device once it is connected.        *)
Threads ==
  /\ \/ step = Len(Steps) /\ AppThread
     \/ Made("eventGroup") /\ Ep0Thread
  /\ UNCHANGED bootVars
DriverThreads == Callbacks /\ UNCHANGED bootVars
OutsideWorld == Made("connect") /\ Environment /\ UNCHANGED bootVars

StartupNext == Boot \/ ErrorHandler \/ Threads \/ DriverThreads \/ OutsideWorld

StartupSpec == StartupInit /\ [][StartupNext]_<<vars, bootVars>>

-----------------------------------------------------------------------------
(* Nothing is used before it is made, in whatever order threads, callbacks  *)
(* and start-up run: no event is set without an event group, no timer,      *)
(* channel or machine runs before its own creation, and the EP0 thread is   *)
(* not in the sensor driver (its table and the I2C bus, which have no lock) *)
(* until the application thread has left it.                                *)
NothingUsedBeforeMade ==
  /\ events # {} => Made("eventGroup")
  /\ timer => Made("timer")
  /\ xfer => Made("channel")
  /\ gpif => Made("gpifLoad") /\ Made("gpifCallback")
  /\ ep0Pc = "sensor" => Made("i2cConfig") /\ Made("sensorInit")
=============================================================================
