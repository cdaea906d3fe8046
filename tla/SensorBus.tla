------------------------------ MODULE SensorBus ------------------------------
(***************************************************************************)
(* The sensor driver on the I2C bus (sensor_imx219.c): each operation of   *)
(* Sensor takes effect as a sequence of register writes, any of which may  *)
(* fail without the driver noticing, and the sensor may not be found at    *)
(* all when the device starts.  The host commits what the descriptors      *)
(* offer and sets what controls it likes; the driver finishes one          *)
(* operation before it begins the next, since all come from one thread.    *)
(*                                                                         *)
(* The registers that are written together with one meaning are one here;  *)
(* when writes to them fail some bytes may be new and others old (Torn).   *)
(* The two bytes of the exposure, which also change while the sensor       *)
(* streams, are apart.  The variable reg of Sensor is what the registers   *)
(* ought to hold once the operation is over.                               *)
(***************************************************************************)
EXTENDS Sensor, Descriptors

CONSTANTS
  Gains, Exposures, Patterns,   \* what the host sets the controls to
  MaxOperations,                \* bound: operations of the host
  MaxLost                       \* bound: writes and reads that fail

ASSUME SensorBusAssumption ==
  /\ \A v \in Gains : v \in Nat /\ v < 256
  /\ \A v \in Exposures : v \in Nat /\ v < 65536
  /\ Patterns \subseteq 0..8
  /\ MaxOperations \in Nat /\ MaxLost \in Nat

VARIABLES
  found,        \* the driver has looked for the sensor
  bus,          \* the registers as they are
  todo,         \* the writes the operation has yet to make
  operations,   \* operations begun
  lost,         \* transfers that failed
  intact,       \* history: none has since the registers were last configured
  asked         \* history: the setting of the last COMMIT

busVars == <<found, bus, todo, operations, lost, intact, asked>>
vars == <<sensorVars, busVars>>

(* What the registers of several bytes hold when only some are new.          *)
Torn == [clock |-> <<>>, length |-> <<>>, window |-> Window(-1, -1, -1, -1),
         size |-> <<>>, patternSize |-> <<>>, binning |-> -1]
Write(r, v) == [r |-> r, v |-> v]

(* SensorReset: the registers after a software reset; the sensor sleeps.     *)
Sleeping == [on |-> 0, table |-> FALSE, orient |-> 0, gain |-> 0, pattern |-> 0,
             exposureMsb |-> 3, exposureLsb |-> 232]
AfterReset ==
  [r \in DOMAIN Torn \cup DOMAIN Sleeping |->
     IF r \in DOMAIN Torn THEN Torn[r] ELSE Sleeping[r]]

StreamOn(on) == <<Write("on", on)>>
ExposureWrites(v) ==
  <<Write("exposureMsb", (v \div 256) % 256), Write("exposureLsb", v % 256)>>

(* mode_default: sent once, ends with the sensor streaming.                  *)
DefaultWrites ==
  StreamOn(0) \o
  <<Write("table", TRUE), Write("length", <<LineLength, 1763>>), Write("window", FullHd),
    Write("size", <<1920, 1080>>), Write("binning", 0), Write("clock", <<82, 5>>),
    Write("pattern", 0), Write("patternSize", <<1280, 720>>), Write("gain", 128)>>
  \o ExposureWrites(849) \o StreamOn(1)

(* The mode a pointer leads to; behind the null pointer anything.            *)
Pointed(m) ==
  IF m \in ModeIds THEN SensorConfig[m]
  ELSE [clock |-> <<m, m>>, lines |-> m, gain |-> m, window |-> Window(m, m, m, m),
        size |-> <<m, m>>, binning |-> m]

(* sensor_configure_mode: mode m with its gain g and its pattern p, written  *)
(* while the sensor does not stream.                                         *)
ModeRegisters(m, g, p) ==
  LET mode == Pointed(m) IN
  <<Write("clock", mode.clock)>> \o ExposureWrites(m) \o
  <<Write("gain", g % 256), Write("length", <<LineLength, mode.lines>>),
    Write("window", mode.window), Write("size", mode.size),
    Write("pattern", IF p < 8 THEN p ELSE 0), Write("patternSize", mode.size),
    Write("binning", IF mode.binning = 2 THEN 3 ELSE 0)>>

ConfigureWritesStreaming(m, g, p) ==
  <<Write("orient", 3)>> \o ModeRegisters(m, g, p) \o StreamOn(1)
ConfigureWrites(m, g, p) ==
  <<Write("orient", 3)>> \o StreamOn(0) \o ModeRegisters(m, g, p) \o StreamOn(1)

-----------------------------------------------------------------------------
Init ==
  /\ SensorInit
  /\ found = FALSE /\ bus = AfterReset /\ todo = <<>>
  /\ operations = 0 /\ lost = 0 /\ intact = FALSE /\ asked = Setting(0, 1)

(* SensorInit: nothing is written to a sensor whose ID is not right.  When   *)
(* the ID cannot be read, what lay on the stack is taken for it.             *)
Find ==
  /\ ~found /\ found' = TRUE
  /\ \/ UNCHANGED lost
     \/ lost < MaxLost /\ lost' = lost + 1
  /\ \/ /\ todo' = DefaultWrites
                     \o ConfigureWrites(FullFrame, gain[FullFrame], pattern[FullFrame])
        /\ intact' = TRUE
     \/ lost' > lost /\ UNCHANGED <<todo, intact>>
  /\ UNCHANGED <<sensorVars, bus, operations, asked>>

(* The write at the head of the operation arrives or is lost; the driver     *)
(* goes on either way.                                                       *)
WriteRegister ==
  /\ todo # <<>>
  /\ bus' = [bus EXCEPT ![Head(todo).r] = Head(todo).v]
  /\ todo' = Tail(todo)
  /\ UNCHANGED <<sensorVars, found, operations, lost, intact, asked>>

LoseWrite ==
  /\ todo # <<>> /\ lost < MaxLost
  /\ LET r == Head(todo).r IN
     \/ UNCHANGED bus
     \/ r \in DOMAIN Torn /\ bus' = [bus EXCEPT ![r] = Torn[r]]
  /\ todo' = Tail(todo) /\ lost' = lost + 1 /\ intact' = FALSE
  /\ UNCHANGED <<sensorVars, found, operations, asked>>

Begins(writes) ==
  /\ found /\ todo = <<>> /\ operations < MaxOperations
  /\ operations' = operations + 1 /\ todo' = writes
  /\ UNCHANGED <<found, bus, lost>>

(* What a host commits: a setting that is offered, or one that is not.       *)
Settings == SuperSpeed \cup {Setting(VGA, 60), Setting(7, 30)}
ModesOffered == {ModeOf(s) : s \in SuperSpeed}

(* sensor_handle_uvc_control.                                                *)
ModeWritesOnChange(x) ==
  IF selected' = selected THEN <<>>
  ELSE ConfigureWrites(selected', gain'[selected'], pattern'[selected'])
ModeWrites(x) ==
  IF selected' = NoMode THEN ConfigureWrites(x, x % 256, x % 256)
  ELSE ConfigureWrites(selected', gain'[selected'], pattern'[selected'])

Commit ==
  \E s \in Settings, x \in Garbage :
    /\ HandleUvcControl(ModeOf(s), x) /\ Begins(ModeWrites(x))
    /\ asked' = s /\ intact' = TRUE

ChangeBrightness ==
  \E v \in Gains : Begins(<<Write("gain", v)>>) /\ SetBrightness(v)
                   /\ UNCHANGED <<intact, asked>>

ChangeExposure ==
  \E v \in Exposures, x \in Garbage :
    /\ Begins(ExposureWrites(Smaller(v, Exposure(x)))) /\ SetExposure(v, x)
    /\ UNCHANGED <<intact, asked>>

ChangePattern ==
  \E v \in Patterns : Begins(<<Write("pattern", v)>>) /\ SetTestPattern(v)
                      /\ UNCHANGED <<intact, asked>>

Operation == Commit \/ ChangeBrightness \/ ChangeExposure \/ ChangePattern
Next == Find \/ WriteRegister \/ LoseWrite \/ Operation

Spec == Init /\ [][Next]_vars

-----------------------------------------------------------------------------
ExposureOnBus == 256 * bus.exposureMsb + bus.exposureLsb
OfOneMode(mode) ==
  /\ bus.clock = mode.clock /\ bus.length = <<LineLength, mode.lines>>
  /\ bus.window = mode.window /\ bus.size = mode.size
  /\ bus.binning = IF mode.binning = 2 THEN 3 ELSE 0

DefaultMode == Mode(<<82, 5>>, 1763, 128, FullHd, <<1920, 1080>>, 0)

(* Whatever went wrong before, a COMMIT whose writes all arrive puts the     *)
(* sensor right: after it, and after every later operation that arrives, the *)
(* registers hold what the driver means them to (Sensor), to the last byte.  *)
CommitHeals ==
  found /\ todo = <<>> /\ intact =>
    /\ OfOneMode(Pointed(reg.mode)) /\ bus.patternSize = bus.size
    /\ bus.gain = reg.gain /\ bus.pattern = reg.pattern
    /\ ExposureOnBus = reg.exposure
    /\ bus.on = 1 /\ bus.orient = 3

(* On a bus that works the sensor never streams with registers of two modes, *)
(* not even while a mode is being written.                                   *)
StreamsOneMode ==
  lost = 0 /\ bus.on = 1 =>
    \E m \in ModeIds \cup Garbage : OfOneMode(Pointed(m)) \/ OfOneMode(DefaultMode)

(* A host gets the picture it was offered: two lines more than the           *)
(* descriptor says, which the debayer filter takes away, and the rate the    *)
(* descriptor says to within one percent, whatever the exposure was set to.  *)
(* Each mode of the driver is offered.                                       *)
PictureAsCommitted ==
  /\ found /\ todo = <<>> /\ intact /\ bus.table /\ asked \in SuperSpeed =>
       LET frame == SuperSpeedFrame[asked]
           time  == FrameTime(bus.clock, bus.length)
       IN /\ bus.size = <<frame.width, frame.height + 2>>
          /\ 100 * (time - asked.interval) \in -asked.interval .. asked.interval
          /\ ExposureOnBus <= bus.length[2] - 4
  /\ ModesOffered = ModeIds
=============================================================================
