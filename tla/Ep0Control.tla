----------------------------- MODULE Ep0Control -----------------------------
(***************************************************************************)
(* Control requests of the UVC device (uvc.c): the setup callback stores   *)
(* the fields of a SETUP packet in globals and sets an event; the EP0      *)
(* thread takes the event, looks the request up in the globals and answers *)
(* with data, takes data from the host, or stalls the endpoint.  A host    *)
(* that gives up waiting sends its next request while the thread is still  *)
(* at work on the last one, and overwrites the globals under its feet.     *)
(*                                                                         *)
(* The thread is cut wherever the globals may change between two looks.    *)
(* The host knows the device's controls from its descriptors.              *)
(* Abstracted: the GET requests that answer with a constant are one        *)
(* (GET_CONST: LEN, MIN, MAX, RES, INFO and most DEF); the setting a PROBE *)
(* stores, which only GET_CUR repeats; vendor and standard requests.  The  *)
(* camera terminal and the extension unit have no controls in this build   *)
(* (UVC_PTZ_SUPPORT and UVC_EXTENSION_UNIT are off).                       *)
(***************************************************************************)
EXTENDS Sensor, Descriptors

CONSTANTS
  Payloads,      \* values the host sends with SET_CUR of a PU control
  GivesUp        \* may the host stop waiting for an answer?

ASSUME Ep0ControlAssumption ==
  Payloads \subseteq 0..(2^16 - 1) /\ GivesUp \in BOOLEAN

VARIABLES
  setup,     \* wIndex (unit), wValue (sel) and bRequest (req) of the last SETUP
  bits,      \* request events not yet taken
  flag,      \* events the thread has taken and not yet handled
  pc, unit,  \* where the thread is, and the unit it dispatched to
  pending,   \* the SET_CUR whose data the thread waits for or works on
  data,      \* the data received
  error,     \* glUvcVcErrorCode
  waiting,   \* the request the host waits on
  answer,    \* the answer to the last request, until the host sends the next
  late,      \* history: the thread may still be at work on a request given up
  owed       \* history: a unit stalled a request, and the host has not read why

threadVars == <<flag, pc, unit, pending, data>>
hostVars   == <<waiting, answer, late, owed>>
vars == <<sensorVars, setup, bits, threadVars, error, hostVars>>

(* Selectors: the high byte of wValue.  The brightness control, COMMIT and  *)
(* the error code have the same one.                                        *)
PROBE == 1
COMMIT == 2
BRIGHTNESS == 2
ERROR_CODE == 2
SATURATION == 7   \* used as exposure
GAMMA == 9        \* used as test pattern
UNSUPPORTED == 3

PuControlsNoGamma == {BRIGHTNESS, SATURATION}
PuControls == {BRIGHTNESS, SATURATION, GAMMA}
VsControls == {PROBE, COMMIT}
Units == {"PU", "CT", "XU"}

(* Requests the host makes: for each unit, all that are handled differently.*)
Request(u, sels, reqs) == [unit : {u}, sel : sels, req : reqs]
NoRequest == [unit |-> "none", sel |-> 0, req |-> "none"]

(* The units by their IDs in wIndex, and the selectors of a processing unit *)
(* in the order of the bits of bmControls.                                  *)
UnitId == <<"CT", "PU", "XU">>
PuSelector == <<2, 3, 6, 7, 8, 9, 10>>

(* The controls a SuperSpeed host finds in the descriptors.                 *)
Advertised ==
  UNION {Request(UnitId[d.id], {PuSelector[bit + 1] : bit \in d.controls},
                 {"GET_CUR", "SET_CUR", "GET_CONST"})
         : d \in {e \in Seen(SSConfigDscr) : e.kind \in {"input", "processing", "extension"}}}

HostRequests ==
  Advertised \cup Request("PU", {BRIGHTNESS}, {"BAD"})
  \cup Request("PU", {SATURATION}, {"GET_DEF"})
  \cup Request("PU", {UNSUPPORTED}, {"GET_CUR"})
  \cup Request("CT", {UNSUPPORTED}, {"GET_CUR"}) \cup Request("XU", {UNSUPPORTED}, {"SET_CUR"})
  \cup Request("UNKNOWN", {UNSUPPORTED}, {"GET_CUR"})
  \cup Request("IF", {ERROR_CODE}, {"GET_CUR", "GET_CONST"})
  \cup Request("VS", VsControls, {"GET_CUR", "SET_CUR"})
  \cup Request("VS", {PROBE}, {"BAD"})

Settings == Modes \cup {NoMode}   \* what COMMIT may ask for, NoMode: no such mode

Silence == [what |-> "none", fits |-> TRUE, value |-> 0]

Init ==
  /\ SensorInit
  /\ setup = NoRequest /\ bits = {} /\ flag = {}
  /\ pc = "wait" /\ unit = "none" /\ pending = NoRequest /\ data = 0
  /\ error = "NO_ERROR"
  /\ waiting = NoRequest /\ answer = Silence /\ late = FALSE /\ owed = FALSE

-----------------------------------------------------------------------------
(* CyFxUVCApplnUSBSetupCB.                                                  *)
Setup ==
  /\ waiting = NoRequest
  /\ \E r \in HostRequests :
       /\ waiting' = r /\ setup' = r
       /\ bits' = bits \cup {IF r.unit = "VS" THEN "VS" ELSE "VC"}
  /\ answer' = Silence
  /\ late' = (late /\ ~(pc = "wait" /\ bits = {}))
  /\ UNCHANGED <<sensorVars, threadVars, error, owed>>

HostGivesUp ==
  /\ GivesUp /\ waiting # NoRequest
  /\ waiting' = NoRequest /\ late' = TRUE /\ owed' = FALSE
  /\ UNCHANGED <<sensorVars, setup, bits, threadVars, error, answer>>

-----------------------------------------------------------------------------
(* UVCAppEP0Thread_Entry.                                                   *)
EventsLeftNotCleared == bits
EventsLeft == {}

Take ==
  /\ pc = "wait" /\ bits # {}
  /\ flag' = bits /\ bits' = EventsLeft
  /\ pc' = "dispatch"
  /\ UNCHANGED <<sensorVars, setup, unit, pending, data, error, hostVars>>

(* Sending data or a stall ends the request the host waits on, whichever it *)
(* is.  It is lost on a host that does not wait.                            *)
Answer(what, u, value) ==
  IF waiting = NoRequest THEN UNCHANGED hostVars
  ELSE /\ answer' = [what |-> what, value |-> value,
                     fits |-> waiting = [setup EXCEPT !.unit = u]]
       /\ owed' = IF what = "stall" /\ waiting.unit \in Units THEN ~late
                  ELSE IF waiting.unit = "IF" THEN FALSE ELSE owed
       /\ waiting' = NoRequest /\ UNCHANGED late

AfterFirstOnly(f) == "wait"
After(f) == IF f = {} THEN "wait" ELSE "dispatch"

Done(e) == /\ flag' = flag \ {e} /\ pc' = After(flag \ {e})
           /\ unit' = "none" /\ pending' = NoRequest /\ data' = 0

(* wIndex is looked at first; the request is read from the globals later.   *)
Dispatch ==
  /\ pc = "dispatch"
  /\ LET e == IF "VC" \in flag THEN "VC" ELSE "VS"
         u == IF e = "VC" THEN (IF setup.unit = "VS" THEN "IF" ELSE setup.unit)
              ELSE (IF setup.unit = "VS" THEN "VS" ELSE "UNKNOWN")
     IN IF u = "UNKNOWN"
        THEN Answer("stall", u, 0) /\ Done(e)
        ELSE /\ pc' = "handle" /\ unit' = u
             /\ UNCHANGED <<flag, pending, data, hostVars>>
  /\ UNCHANGED <<sensorVars, setup, bits, error>>

Event == IF unit = "VS" THEN "VS" ELSE "VC"
Stall(code) == /\ pc = "handle" /\ Answer("stall", unit, 0) /\ Done(Event)
               /\ error' = code
               /\ UNCHANGED <<sensorVars, setup, bits>>
Send(values) == /\ pc = "handle"
                /\ \E v \in values : Answer("data", unit, v)
                /\ Done(Event)
                /\ UNCHANGED <<sensorVars, setup, bits>>
Receive == /\ pc = "handle" /\ pc' = "receive" /\ pending' = [setup EXCEPT !.unit = unit]
           /\ UNCHANGED <<sensorVars, setup, bits, flag, unit, data, error,
                          hostVars>>

(* What a GET of a processing unit control answers.                         *)
PuValues ==
  CASE setup.req = "GET_CUR" /\ setup.sel = BRIGHTNESS -> {Brightness(g) : g \in Garbage}
    [] setup.req = "GET_CUR" /\ setup.sel = GAMMA -> {TestPattern(g) : g \in Garbage}
    [] setup.req \in {"GET_CUR", "GET_DEF"} /\ setup.sel = SATURATION ->
         {Exposure(g) : g \in Garbage}
    [] OTHER -> {0}

(* The error code a stall of an unknown request leaves for the host.        *)
CodeOfBadRequestNone == error
CodeOfBadRequest == "INVALID_REQUEST"

(* UVCHandleProcessingUnitRqts.                                             *)
ProcessingUnit ==
  /\ unit = "PU"
  /\ \/ setup.sel \notin PuControls /\ Stall("INVALID_CONTROL")
     \/ setup.sel \in PuControls /\ setup.req = "BAD" /\ Stall(CodeOfBadRequest)
     \/ /\ setup.sel \in PuControls /\ setup.req \notin {"SET_CUR", "BAD"}
        /\ Send(PuValues) /\ UNCHANGED error
     \/ setup.sel \in PuControls /\ setup.req = "SET_CUR" /\ Receive

(* UVCHandleCameraTerminalRqts, UVCHandleExtensionUnitRqts: no controls.    *)
CameraTerminal == unit = "CT" /\ Stall("INVALID_CONTROL")
ExtensionUnit == unit = "XU" /\ Stall("INVALID_CONTROL")

(* UVCHandleInterfaceCtrlRqts: any other request is not answered at all.    *)
InterfaceControl ==
  /\ unit = "IF"
  /\ IF setup.sel = ERROR_CODE /\ setup.req = "GET_CUR"
     THEN Send({0}) /\ error' = "NO_ERROR"
     ELSE /\ pc = "handle" /\ Done("VC")
          /\ UNCHANGED <<sensorVars, setup, bits, error, hostVars>>

(* UVCHandleVideoStreamingRqts.  COMMIT has no default.                      *)
VideoStreaming ==
  /\ unit = "VS"
  /\ LET bad == \/ setup.sel \notin VsControls \/ setup.req = "BAD"
                \/ setup.sel = COMMIT /\ setup.req = "GET_DEF"
     IN \/ bad /\ Stall(error)
        \/ ~bad /\ setup.req # "SET_CUR" /\ Send({0}) /\ UNCHANGED error
        \/ ~bad /\ setup.req = "SET_CUR" /\ Receive

-----------------------------------------------------------------------------
(* CyU3PUsbGetEP0Data: the data arrive and the request is over for the host,*)
(* or the host has given it up.                                             *)
Received ==
  /\ pc = "receive" /\ waiting = pending
  /\ data' \in (IF unit = "VS" THEN Settings ELSE Payloads)
  /\ answer' = [what |-> "ack", fits |-> TRUE, value |-> 0]
  /\ waiting' = NoRequest /\ pc' = "apply"
  /\ UNCHANGED <<sensorVars, setup, bits, flag, unit, pending, error, late, owed>>

NotReceived ==
  /\ pc = "receive" /\ waiting # pending
  /\ Done(Event)
  /\ UNCHANGED <<sensorVars, setup, bits, error, hostVars>>

(* The rest of a SET_CUR: the value is used if it is in the control's range.*)
BrightnessInRange(v) == v <= 255

Apply ==
  /\ pc = "apply" /\ Done(Event)
  /\ IF unit = "PU"
     THEN CASE pending.sel = BRIGHTNESS /\ BrightnessInRange(data) -> SetBrightness(data)
            [] pending.sel = SATURATION -> \E x \in Garbage : SetExposure(data, x)
            [] pending.sel = GAMMA /\ data <= 8 -> SetTestPattern(data)
            [] OTHER -> UNCHANGED sensorVars
     ELSE IF pending.sel = COMMIT THEN \E x \in Garbage : HandleUvcControl(data, x)
     ELSE UNCHANGED sensorVars
  /\ UNCHANGED <<setup, bits, error, hostVars>>

Handle == \/ ProcessingUnit \/ CameraTerminal \/ ExtensionUnit
          \/ InterfaceControl \/ VideoStreaming
Thread == Take \/ Dispatch \/ Handle \/ Received \/ NotReceived \/ Apply

Next == Setup \/ HostGivesUp \/ Thread

Spec == Init /\ [][Next]_vars

-----------------------------------------------------------------------------
(* Once a mode is selected, the registers hold the gain and the pattern kept *)
(* for that mode, so what GET_CUR reports is what the sensor does, through   *)
(* every order of SET_CUR and COMMIT.  Pattern 8 is the exception: SET_CUR   *)
(* writes it, and a COMMIT turns it off.                                     *)
SettingsCoherent ==
  selected # NoMode =>
    /\ reg.gain = gain[selected]
    /\ \/ reg.pattern = pattern[selected]
       \/ pattern[selected] = 8 /\ reg.pattern = 0

(* The exposure never exceeds what the frame of the mode the sensor is in    *)
(* has time for: a longer one would slow down the frame rate                 *)
(* (sensor_imx219.c:99).                                                     *)
ExposureFitsFrame == selected # NoMode => reg.exposure <= reg.mode

(* The thread never goes to sleep on a request: when nothing is left to do,  *)
(* nobody waits, even with a host that gives up and asks again, when both    *)
(* events are taken at once.  The one exception is a request for the error   *)
(* code other than GET_CUR: it is claimed and never answered (uvc.c:1607),   *)
(* against the rule of uvc.c:1869.                                           *)
NoRequestLeftHanging ==
  pc = "wait" /\ bits = {} =>
    waiting = NoRequest \/ (waiting.unit = "IF" /\ waiting.req # "GET_CUR")

(* An answer comes from the handler of the request it ends, unless the       *)
(* thread was still at work on one the host had given up: as soon as the     *)
(* thread has been idle once, host and device are in step again.             *)
AnswerFits == late \/ answer.fits

(* A host that is stalled by a unit of the device finds out why: the code    *)
(* is kept for it until it reads the code, whatever it asks before that.     *)
StallExplained == owed /\ ~late => error # "NO_ERROR"

(* A host that asks for what the descriptors advertise is not refused: the   *)
(* bits of bmControls (cyfxuvcdscr.c), the selectors of uvc.h and the        *)
(* switches of the handlers agree.                                           *)
AdvertisedIsServed ==
  [][(waiting \in Advertised /\ waiting' = NoRequest /\ ~late')
       => answer'.what # "stall"]_vars

(* uvc.c:1279: "Current brightness value."  GET_CUR answers with the gain    *)
(* the sensor works with.                                                    *)
BrightnessIsCurrent ==
  [][waiting = [unit |-> "PU", sel |-> BRIGHTNESS, req |-> "GET_CUR"]
       /\ answer'.what = "data"
     => answer'.value = reg.gain]_vars
=============================================================================
