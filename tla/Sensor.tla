------------------------------- MODULE Sensor -------------------------------
(***************************************************************************)
(* The image sensor driver (sensor_imx219.c): the mode selected by the     *)
(* last COMMIT, the settings each mode keeps in memory, and the registers  *)
(* of the sensor that the driver writes over I2C.  All of it runs in the   *)
(* EP0 thread; the operators below are the driver's functions.             *)
(*                                                                         *)
(* Each operation is one step here, and the registers of a mode are one    *)
(* field: SensorBus takes them apart into the writes on the I2C bus, which *)
(* may fail.  Through the null pointer anything may be read; what is       *)
(* stored through it is not modelled.                                      *)
(***************************************************************************)
EXTENDS VideoModes

CONSTANTS
  Modes,       \* the modes of sensor_config, by integration time
  FullFrame,   \* mode_3280x2464_15
  Garbage      \* what may be read where no mode is selected

(* selected_img_mode is a null pointer, NoMode, before the first COMMIT; the *)
(* widest fields read through it have 16 bits.                               *)
ASSUME SensorAssumption ==
  /\ Modes \subseteq ModeIds /\ FullFrame \in Modes
  /\ Garbage # {} /\ \A x \in Garbage : x \in Nat /\ x < 65536

VARIABLES
  selected,     \* selected_img_mode
  gain,         \* gain of each mode
  pattern,      \* test_pattern of each mode
  reg           \* the sensor's registers

sensorVars == <<selected, gain, pattern, reg>>

Smaller(a, b) == IF a < b THEN a ELSE b

(* What sensor_configure_mode writes.  The test pattern register gets the   *)
(* pattern of the mode if it is one of the sensor's.                        *)
Configured(m, g, p) ==
  [mode |-> m, gain |-> g, exposure |-> m, pattern |-> IF p < 8 THEN p ELSE 0]

(* SensorInit configures the full frame mode, but selects none.             *)
SensorInit ==
  /\ selected = NoMode
  /\ gain = [m \in Modes |-> SensorConfig[m].gain] /\ pattern = [m \in Modes |-> 0]
  /\ reg = Configured(FullFrame, SensorConfig[FullFrame].gain, 0)

(* The selected mode after a COMMIT of m; frame and interval may name none. *)
ModeAfterCommit(m) == IF m \in Modes THEN m ELSE selected

(* sensor_handle_uvc_control and sensor_configure_mode; x is what the null   *)
(* pointer reads, as below.                                                  *)
ConfiguredKeepingGain(m, g, p) == [Configured(m, g, p) EXCEPT !.gain = reg.gain]
ConfigureMode(m, g, p) == Configured(m, g, p)

HandleUvcControl(m, x) ==
  LET mode == ModeAfterCommit(m) IN
  /\ selected' = mode
  /\ reg' = IF mode = NoMode THEN ConfigureMode(x, x % 256, x % 256)
             ELSE ConfigureMode(mode, gain[mode], pattern[mode])
  /\ UNCHANGED <<gain, pattern>>

(* SensorGetBrightness, sensor_get_exposure, sensor_get_test_pattern.        *)
Brightness(x)  == IF selected = NoMode THEN x % 256 ELSE gain[selected]
Exposure(x)    == IF selected = NoMode THEN x ELSE selected
TestPattern(x) == IF selected = NoMode THEN x % 256 ELSE pattern[selected]

StoreIn(f, v) == IF selected = NoMode THEN f ELSE [f EXCEPT ![selected] = v]

SetBrightness(v) ==
  /\ gain' = StoreIn(gain, v)
  /\ reg' = [reg EXCEPT !.gain = v]
  /\ UNCHANGED <<selected, pattern>>

(* The new exposure is limited to that of the mode, and not stored there.    *)
LimitUnlimited(v, most) == v
Limit(v, most) == Smaller(v, most)

SetExposure(v, x) ==
  /\ reg' = [reg EXCEPT !.exposure = Limit(v, Exposure(x))]
  /\ UNCHANGED <<selected, gain, pattern>>

SetTestPattern(v) ==
  LET p == IF v > 8 THEN 0 ELSE v IN
  /\ pattern' = StoreIn(pattern, p)
  /\ reg' = [reg EXCEPT !.pattern = p]
  /\ UNCHANGED <<selected, gain>>
=============================================================================
