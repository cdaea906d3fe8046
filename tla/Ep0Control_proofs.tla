-------------------------- MODULE Ep0Control_proofs --------------------------
(***************************************************************************)
(* The invariants of Ep0Control and what it owes a host that keeps to the  *)
(* descriptors, for every set of modes, every payload and every host.      *)
(*                                                                         *)
(* EP0Inv has a part for the driver's tables and registers and a part for  *)
(* the thread.  The second says what the thread knows at each point of its *)
(* work while the globals of the SETUP packet may change: without a host   *)
(* that gives up, everything (InStep); with one, no more than that the     *)
(* request waited on still has its event (NotForgotten).                   *)
(***************************************************************************)
EXTENDS Ep0Control, TLAPS

(* The entities that have controls.                                          *)
ControlKinds == {"input", "processing", "extension"}

(* An element of a concatenation is an element of one of its three parts.    *)
LEMMA InConcatenation ==
  ASSUME NEW S, NEW r \in Seq(S), NEW s \in Seq(S), NEW t \in Seq(S)
  PROVE  \A i \in DOMAIN (r \o s \o t) :
           \/ \E j \in DOMAIN r : (r \o s \o t)[i] = r[j]
           \/ \E j \in DOMAIN s : (r \o s \o t)[i] = s[j]
           \/ \E j \in DOMAIN t : (r \o s \o t)[i] = t[j]
<1>1. r \o s \in Seq(S) /\ Len(r \o s) = Len(r) + Len(s)
  OBVIOUS
<1>2. SUFFICES ASSUME NEW i \in 1..(Len(r) + Len(s) + Len(t))
               PROVE  \/ \E j \in DOMAIN r : (r \o s \o t)[i] = r[j]
                      \/ \E j \in DOMAIN s : (r \o s \o t)[i] = s[j]
                      \/ \E j \in DOMAIN t : (r \o s \o t)[i] = t[j]
  BY <1>1
<1>3. CASE i <= Len(r)
  BY <1>1, <1>3
<1>4. CASE i > Len(r) /\ i <= Len(r) + Len(s)
  <2>1. (r \o s \o t)[i] = s[i - Len(r)] /\ i - Len(r) \in DOMAIN s
    BY <1>1, <1>4
  <2> QED
    BY <2>1
<1>5. CASE i > Len(r) + Len(s)
  <2>1. (r \o s \o t)[i] = t[i - Len(r) - Len(s)] /\ i - Len(r) - Len(s) \in DOMAIN t
    BY <1>1, <1>5
  <2> QED
    BY <2>1
<1> QED
  BY <1>3, <1>4, <1>5

(* The entities of a configuration a request may name, read off the array.   *)
LEMMA EntitiesFound ==
  \A d \in Seen(SSConfigDscr) :
    d.kind \in ControlKinds =>
      d \in {InputTerminalDscr, ProcessingUnitDscr(SSControls), ExtensionUnitDscr}
<1> DEFINE Rest == <<Companion, ClassEndpoint>> \o SSStreaming
           Control == VideoControl(SSControls)
<1>1. \A i \in DOMAIN Rest : Rest[i].kind \notin ControlKinds
  BY DEF Companion, ClassEndpoint, SSStreaming, SSFrames, Plain, Interface, Format,
         StreamHeader, Endpoint, FrameDescriptor, ControlKinds
<1>2. \A i \in DOMAIN Control :
        Control[i].kind \in ControlKinds =>
          Control[i] \in {InputTerminalDscr, ProcessingUnitDscr(SSControls), ExtensionUnitDscr}
  <2>1. /\ Association.kind \notin ControlKinds /\ Interface(0).kind \notin ControlKinds
        /\ ControlHeader(81).kind \notin ControlKinds
        /\ OutputTerminalDscr.kind \notin ControlKinds
        /\ Endpoint(Status).kind \notin ControlKinds
    BY DEF Association, Plain, Interface, ControlHeader, OutputTerminalDscr, Entity,
           Endpoint, ControlKinds
  <2> QED
    BY <2>1 DEF VideoControl
<1>3. SSConfigDscr = <<Config(384)>> \o Control \o Rest
  BY DEF SSConfigDscr
<1>4. Config(384).kind \notin ControlKinds
  BY DEF Config, ControlKinds
<1>5. \A i \in DOMAIN SSConfigDscr :
        \/ SSConfigDscr[i] = Config(384)
        \/ \E j \in DOMAIN Control : SSConfigDscr[i] = Control[j]
        \/ \E j \in DOMAIN Rest : SSConfigDscr[i] = Rest[j]
  <2> DEFINE front == <<Config(384)>>
             S == UNION {{front[k] : k \in DOMAIN front}, {Control[k] : k \in DOMAIN Control},
                         {Rest[k] : k \in DOMAIN Rest}}
  <2>1. front \in Seq(S) /\ \A k \in DOMAIN front : front[k] = Config(384)
    OBVIOUS
  <2>2. Control \in Seq(S)
    BY DEF VideoControl
  <2>3. Rest \in Seq(S)
    BY DEF SSStreaming, SSFrames
  <2> HIDE DEF front, Control, Rest, S
  <2> QED
    BY <1>3, <2>1, <2>2, <2>3, InConcatenation
<1> QED
  BY <1>1, <1>2, <1>4, <1>5 DEF Seen

-----------------------------------------------------------------------------
(* The event a request sets, and the requests nobody answers.                *)
Ev(r) == IF r.unit = "VS" THEN "VS" ELSE "VC"
Unanswered(r) == r.unit = "IF" /\ r.req # "GET_CUR"

(* Types, and what the thread holds while it takes data.                     *)
TypeOK ==
  /\ setup \in HostRequests \cup {NoRequest}
  /\ waiting \in HostRequests \cup {NoRequest}
  /\ bits \subseteq {"VC", "VS"} /\ flag \subseteq {"VC", "VS"}
  /\ pc \in {"wait", "dispatch", "handle", "receive", "apply"}
  /\ unit \in {"none", "PU", "CT", "XU", "IF", "VS"}
  /\ late \in BOOLEAN /\ owed \in BOOLEAN
  /\ pc \in {"receive", "apply"} => unit \in {"PU", "VS"}
  /\ pc = "apply" => /\ unit = "PU" => data \in Payloads
                     /\ unit = "VS" => data \in Settings

(* The settings: what the registers hold is what the driver's tables say.    *)
SensorType ==
  /\ selected \in Settings
  /\ gain \in [Modes -> Int] /\ pattern \in [Modes -> 0..8]
  /\ reg \in [mode : Int, gain : Int, exposure : Int, pattern : Int]

SensorInv ==
  /\ SensorType
  /\ selected # NoMode =>
       /\ reg.mode = selected
       /\ reg.exposure <= selected
       /\ reg.gain = gain[selected]
       /\ \/ reg.pattern = pattern[selected]
          \/ pattern[selected] = 8 /\ reg.pattern = 0

(* Where the thread is, and which events it has in hand.                     *)
Holding ==
  /\ bits \cup flag # {} => setup # NoRequest
  /\ pc = "wait" => flag = {}
  /\ pc = "dispatch" => flag # {}
  /\ pc \in {"handle", "receive", "apply"} => Event \in flag /\ unit # "none"

(* The request the host waits on still has its event set or taken, and the   *)
(* thread that is past the look at wIndex works on it, unless the event is   *)
(* set once more.                                                            *)
NotForgotten ==
  waiting # NoRequest =>
    /\ waiting = setup
    /\ Ev(waiting) \in bits \cup flag \/ Unanswered(waiting)
    /\ (Event \notin bits /\ Ev(waiting) = Event) =>
         /\ pc = "handle" => unit = waiting.unit
         /\ pc = "receive" => unit = waiting.unit /\ pending = waiting
    /\ pc = "apply" => Ev(waiting) \in bits

(* A thread that is not late works on the one request the host waits on, and *)
(* on nothing else.                                                          *)
InStep ==
  /\ pc \in {"dispatch", "handle", "receive"} =>
       waiting = setup /\ waiting # NoRequest /\ bits = {} /\ flag = {Ev(setup)}
  /\ pc \in {"handle", "receive"} => unit = setup.unit
  /\ pc = "receive" => pending = setup
  /\ pc = "apply" => flag = {Event}
  /\ pc \in {"wait", "apply"} /\ waiting = NoRequest => bits = {}
  /\ pc \in {"wait", "apply"} /\ waiting # NoRequest =>
       bits = {Ev(setup)} \/ (bits = {} /\ Unanswered(setup))

Explained ==
  /\ late => ~owed
  /\ owed => error # "NO_ERROR"

ThreadInv ==
  TypeOK /\ Holding /\ NotForgotten /\ (late \/ InStep) /\ AnswerFits /\ Explained

EP0Inv == SensorInv /\ ThreadInv

-----------------------------------------------------------------------------
(* The modes are named by natural numbers, and the null pointer is none.     *)
LEMMA ModesAreNat ==
  /\ Modes \subseteq Nat /\ NoMode \notin Modes /\ NoMode \in Int
  /\ FullFrame \in Modes /\ Garbage \subseteq Nat
  /\ \A m \in Modes : SensorConfig[m].gain \in Int
<1>1. ModeIds \subseteq Nat /\ NoMode \notin ModeIds /\ NoMode \in Int
  BY DEF ModeIds, NoMode
<1>2. \A m \in ModeIds : SensorConfig[m].gain \in Int
  BY DEF ModeIds, SensorConfig, Mode
<1> QED
  BY <1>1, <1>2, SensorAssumption

(* SensorInit selects no mode, so nothing has to agree yet.                  *)
LEMMA InitSettings == SensorInit => SensorInv
<1> SUFFICES ASSUME SensorInit PROVE SensorInv
  OBVIOUS
<1>1. selected = NoMode /\ gain \in [Modes -> Int] /\ pattern \in [Modes -> 0..8]
  BY ModesAreNat DEF SensorInit
<1>2. reg \in [mode : Int, gain : Int, exposure : Int, pattern : Int]
  BY ModesAreNat DEF SensorInit, Configured
<1> QED
  BY <1>1, <1>2 DEF SensorInv, SensorType, Settings

(* SET_CUR of the brightness writes table and register.                      *)
LEMMA BrightnessKeepsSettings ==
  ASSUME SensorInv, NEW v \in Int, SetBrightness(v)
  PROVE  SensorInv'
BY ModesAreNat DEF SensorInv, SensorType, Settings, SetBrightness, StoreIn

(* The exposure is limited to the time of the selected mode.                 *)
LEMMA ExposureKeepsSettings ==
  ASSUME SensorInv, NEW v \in Int, NEW x \in Garbage, SetExposure(v, x)
  PROVE  SensorInv'
BY ModesAreNat
   DEF SensorInv, SensorType, Settings, SetExposure, Exposure, Limit, Smaller

(* The test pattern is stored and written, pattern 8 too.                    *)
LEMMA TestPatternKeepsSettings ==
  ASSUME SensorInv, NEW v \in 0..8, SetTestPattern(v)
  PROVE  SensorInv'
BY ModesAreNat DEF SensorInv, SensorType, Settings, SetTestPattern, StoreIn

(* A COMMIT writes what the tables hold for the mode.                        *)
LEMMA CommitKeepsSettings ==
  ASSUME SensorInv, NEW m \in Settings, NEW x \in Garbage, HandleUvcControl(m, x)
  PROVE  SensorInv'
BY ModesAreNat
   DEF SensorInv, SensorType, Settings, HandleUvcControl, ModeAfterCommit, ConfigureMode,
       Configured

-----------------------------------------------------------------------------
(* The controls the descriptors advertise are those of the processing unit   *)
(* that its handler serves.                                                  *)
LEMMA AdvertisedControls ==
  Advertised \subseteq Request("PU", PuControls, {"GET_CUR", "SET_CUR", "GET_CONST"})
<1> SUFFICES ASSUME NEW d \in Seen(SSConfigDscr), d.kind \in ControlKinds,
                    NEW r \in Request(UnitId[d.id], {PuSelector[bit + 1] : bit \in d.controls},
                                      {"GET_CUR", "SET_CUR", "GET_CONST"})
             PROVE  r \in Request("PU", PuControls, {"GET_CUR", "SET_CUR", "GET_CONST"})
  BY DEF Advertised, ControlKinds
<1>1. d \in {InputTerminalDscr, ProcessingUnitDscr(SSControls), ExtensionUnitDscr}
  BY EntitiesFound
<1>2. CASE d \in {InputTerminalDscr, ExtensionUnitDscr}
  <2>1. d.controls = {}
    BY <1>2 DEF InputTerminalDscr, ExtensionUnitDscr, Entity
  <2> QED
    BY <2>1 DEF Request
<1>3. CASE d = ProcessingUnitDscr(SSControls)
  <2>1. d.controls = {0, 3, 5} /\ UnitId[d.id] = "PU"
    BY <1>3 DEF ProcessingUnitDscr, SSControls, Entity, UnitId
  <2>2. {PuSelector[bit + 1] : bit \in {0, 3, 5}} = PuControls
    BY DEF PuSelector, PuControls, BRIGHTNESS, SATURATION, GAMMA
  <2> QED
    BY <2>1, <2>2
<1> QED
  BY <1>1, <1>2, <1>3

(* What the proofs need to know of the requests a host makes.                *)
RequestUnits == {"PU", "CT", "XU", "UNKNOWN", "IF", "VS"}

LEMMA Requests ==
  /\ \A r \in HostRequests :
       /\ r = [unit |-> r.unit, sel |-> r.sel, req |-> r.req]
       /\ r.unit \in RequestUnits
       /\ r.unit = "IF" => r.sel = ERROR_CODE
  /\ NoRequest \notin HostRequests /\ NoRequest.unit = "none"
  /\ NoRequest = [unit |-> NoRequest.unit, sel |-> NoRequest.sel, req |-> NoRequest.req]
<1>1. \A u, sels, reqs : \A r \in Request(u, sels, reqs) :
        r = [unit |-> r.unit, sel |-> r.sel, req |-> r.req] /\ r.unit = u /\ r.sel \in sels
  BY DEF Request
<1>2. \A r \in Advertised :
        r = [unit |-> r.unit, sel |-> r.sel, req |-> r.req] /\ r.unit = "PU"
  BY <1>1, AdvertisedControls
<1>3. NoRequest.unit = "none"
  BY DEF NoRequest
<1>4. \A r \in HostRequests :
       /\ r = [unit |-> r.unit, sel |-> r.sel, req |-> r.req]
       /\ r.unit \in RequestUnits
       /\ r.unit = "IF" => r.sel = ERROR_CODE
  <2> SUFFICES ASSUME NEW r \in HostRequests
               PROVE  /\ r = [unit |-> r.unit, sel |-> r.sel, req |-> r.req]
                      /\ r.unit \in RequestUnits
                      /\ r.unit = "IF" => r.sel = ERROR_CODE
    OBVIOUS
  <2>1. CASE r \in Advertised
    BY <1>2, <2>1 DEF RequestUnits
  <2>2. CASE r \in Request("IF", {ERROR_CODE}, {"GET_CUR", "GET_CONST"})
    BY <1>1, <2>2 DEF RequestUnits
  <2>3. ASSUME NEW u \in RequestUnits \ {"IF"}, NEW sels, NEW reqs, r \in Request(u, sels, reqs)
        PROVE  /\ r = [unit |-> r.unit, sel |-> r.sel, req |-> r.req]
               /\ r.unit \in RequestUnits /\ r.unit # "IF"
    BY <1>1, <2>3
  <2>4. {"PU", "CT", "XU", "UNKNOWN", "VS"} \subseteq RequestUnits \ {"IF"}
    BY DEF RequestUnits
  <2> QED
    BY <2>1, <2>2, <2>3, <2>4, Zenon DEF HostRequests
<1> QED
  BY <1>3, <1>4 DEF NoRequest, RequestUnits

(* A request is itself with the unit it names.                               *)
LEMMA SameUnit ==
  ASSUME NEW r \in HostRequests \cup {NoRequest}
  PROVE  [r EXCEPT !.unit = r.unit] = r
<1>1. r = [unit |-> r.unit, sel |-> r.sel, req |-> r.req]
  BY Requests
<1> QED
  BY <1>1

-----------------------------------------------------------------------------
(* The host: a new request, and giving up the last one.                      *)
LEMMA SetupKeeps == ThreadInv /\ Setup => ThreadInv'
<1> SUFFICES ASSUME ThreadInv, Setup PROVE ThreadInv'
  OBVIOUS
<1> USE DEF ThreadInv
<1>1. PICK r \in HostRequests :
        /\ waiting' = r /\ setup' = r
        /\ bits' = bits \cup {Ev(r)}
  BY DEF Setup, Ev
<1>2. /\ waiting = NoRequest /\ answer' = Silence /\ r # NoRequest
      /\ late' = (late /\ ~(pc = "wait" /\ bits = {}))
      /\ UNCHANGED <<flag, pc, unit, pending, data, error, owed>>
  BY Requests DEF Setup, threadVars
<1>3. TypeOK'
  BY <1>1, <1>2, SMT DEF TypeOK, Ev
<1>4. Holding'
  BY <1>1, <1>2 DEF Holding, Event
<1>5. NotForgotten'
  BY <1>1, <1>2 DEF NotForgotten, Ev, Event, Holding
<1>6. late' \/ InStep'
  BY <1>1, <1>2 DEF InStep, Holding, Ev, Event, NotForgotten, TypeOK
<1>7. AnswerFits' /\ Explained'
  BY <1>2 DEF AnswerFits, Explained, Silence
<1> QED
  BY <1>3, <1>4, <1>5, <1>6, <1>7

(* A host that gives up leaves the thread late.                              *)
LEMMA GivingUpKeeps == ThreadInv /\ HostGivesUp => ThreadInv'
BY DEF ThreadInv, HostGivesUp, threadVars, TypeOK, Holding, NotForgotten, InStep, AnswerFits,
       Explained, Ev, Event, Unanswered

(* The thread takes its events.                                              *)
LEMMA TakeKeeps == ThreadInv /\ Take => ThreadInv'
<1> SUFFICES ASSUME ThreadInv, Take PROVE ThreadInv'
  OBVIOUS
<1> USE DEF ThreadInv
<1>1. /\ pc = "wait" /\ pc' = "dispatch" /\ flag' = bits /\ bits' = {} /\ bits # {}
      /\ UNCHANGED <<setup, unit, pending, data, error, waiting, answer, late, owed>>
  BY DEF Take, EventsLeft, hostVars
<1>2. TypeOK' /\ Holding' /\ AnswerFits' /\ Explained'
  BY <1>1 DEF TypeOK, Holding, AnswerFits, Explained, Event
<1>3. NotForgotten'
  BY <1>1 DEF NotForgotten, Holding, Ev, Event, Unanswered
<1>4. late' \/ InStep'
  BY <1>1 DEF InStep, NotForgotten, Ev, Event
<1> QED
  BY <1>2, <1>3, <1>4

(* A step that sends data or a stall and is done with an event.              *)
LEMMA AnsweringKeeps ==
  ASSUME ThreadInv, pc \in {"dispatch", "handle"},
         NEW what, NEW u, NEW v, NEW e \in flag, Answer(what, u, v), Done(e),
         UNCHANGED <<setup, bits>>, ~late => u = setup.unit,
         ~late /\ owed' => error' # "NO_ERROR"
  PROVE  ThreadInv'
<1> USE DEF ThreadInv
<1>1. waiting' = NoRequest /\ late' = late
  BY DEF Answer, hostVars
<1>2. /\ flag' = flag \ {e} /\ (pc' = IF flag' = {} THEN "wait" ELSE "dispatch")
      /\ unit' = "none" /\ pending' = NoRequest /\ data' = 0
  BY DEF Done, After
<1>3. late => ~owed'
  BY DEF Answer, hostVars, Explained
<1>4. ~late => waiting = setup /\ waiting # NoRequest /\ bits = {} /\ flag = {e}
  BY DEF InStep
<1>5. owed' \in BOOLEAN
  BY DEF Answer, hostVars, TypeOK
<1>6. TypeOK' /\ Holding'
  BY <1>1, <1>2, <1>5 DEF TypeOK, Holding
<1>7. NotForgotten'
  BY <1>1 DEF NotForgotten
<1>8. late' \/ InStep'
  BY <1>1, <1>2, <1>4 DEF InStep
<1>9. AnswerFits'
  <2>1. CASE late
    BY <2>1, <1>1 DEF AnswerFits
  <2>2. CASE ~late
    <3>1. [setup EXCEPT !.unit = u] = setup
      BY <2>2, SameUnit DEF TypeOK
    <3>2. answer' = [what |-> what, value |-> v, fits |-> waiting = [setup EXCEPT !.unit = u]]
      BY <1>4, <2>2 DEF Answer
    <3> QED
      BY <1>4, <2>2, <3>1, <3>2 DEF AnswerFits
  <2> QED
    BY <2>1, <2>2
<1>10. Explained'
  BY <1>1, <1>3 DEF Explained
<1> QED
  BY <1>6, <1>7, <1>8, <1>9, <1>10

(* The look at wIndex.                                                       *)
LEMMA DispatchKeeps == ThreadInv /\ Dispatch => ThreadInv'
<1> SUFFICES ASSUME ThreadInv, Dispatch PROVE ThreadInv'
  OBVIOUS
<1> USE DEF ThreadInv
<1> DEFINE e == IF "VC" \in flag THEN "VC" ELSE "VS"
           u == IF e = "VC" THEN (IF setup.unit = "VS" THEN "IF" ELSE setup.unit)
                ELSE (IF setup.unit = "VS" THEN "VS" ELSE "UNKNOWN")
<1>1. pc = "dispatch" /\ UNCHANGED <<setup, bits, error>>
  BY DEF Dispatch
<1>2. e \in flag /\ flag \subseteq {"VC", "VS"}
  BY <1>1 DEF TypeOK, Holding
<1>3. ~late => u = setup.unit /\ e = Ev(setup) /\ flag = {e} /\ setup = waiting /\ bits = {}
  BY <1>1 DEF InStep, Ev
<1>4. setup.unit \in RequestUnits
  BY <1>2, Requests DEF Holding, TypeOK
<1>5. CASE u = "UNKNOWN"
  <2>1. Answer("stall", u, 0) /\ Done(e)
    BY <1>5 DEF Dispatch
  <2>2. ~late /\ owed' => error' # "NO_ERROR"
    <3> SUFFICES ASSUME ~late PROVE owed' => error # "NO_ERROR"
      BY <1>1
    <3>1. setup.unit = "UNKNOWN" /\ waiting = setup
      BY <1>3, <1>5
    <3>2. owed' = owed
      BY <2>1, <3>1 DEF Answer, Units, hostVars
    <3> QED
      BY <3>2 DEF Explained
  <2> QED
    BY <1>1, <1>2, <1>3, <2>1, <2>2, AnsweringKeeps
<1>6. CASE u # "UNKNOWN"
  <2>1. /\ pc' = "handle" /\ unit' = u
        /\ UNCHANGED <<flag, pending, data, waiting, answer, late, owed>>
    BY <1>6 DEF Dispatch, hostVars
  <2>2. u \in {"PU", "CT", "XU", "IF", "VS"} /\ ((u = "VS") <=> (e = "VS"))
    BY <1>2, <1>4, <1>6 DEF RequestUnits
  <2>3. TypeOK' /\ Holding'
    BY <1>1, <1>2, <2>1, <2>2 DEF TypeOK, Holding, Event
  <2>4. NotForgotten'
    BY <1>1, <2>1, <2>2 DEF NotForgotten, Ev, Event, Unanswered
  <2>5. late' \/ InStep'
    BY <1>1, <1>3, <2>1 DEF InStep, Ev
  <2>6. AnswerFits' /\ Explained'
    BY <1>1, <2>1 DEF AnswerFits, Explained
  <2> QED
    BY <2>3, <2>4, <2>5, <2>6
<1> QED
  BY <1>5, <1>6

-----------------------------------------------------------------------------
(* The handlers.  A stall leaves a code, unless it is no unit that stalls.   *)
LEMMA StallKeeps ==
  ASSUME ThreadInv, NEW code, Stall(code),
         code = error \/ code # "NO_ERROR", unit \in Units => code # "NO_ERROR"
  PROVE  ThreadInv'
<1>1. /\ pc = "handle" /\ Answer("stall", unit, 0) /\ Done(Event) /\ error' = code
      /\ UNCHANGED <<setup, bits>>
  BY DEF Stall
<1>2. Event \in flag
  BY <1>1 DEF ThreadInv, Holding
<1>3. ~late => unit = setup.unit /\ waiting = setup /\ waiting # NoRequest
  BY <1>1 DEF ThreadInv, InStep
<1>4. ~late /\ owed' => error' # "NO_ERROR"
  BY <1>1, <1>3 DEF Answer, ThreadInv, Explained
<1> QED
  BY <1>1, <1>2, <1>3, <1>4, AnsweringKeeps

(* Data: only the error code itself may reset the code.                      *)
LEMMA SendKeeps ==
  ASSUME ThreadInv, NEW values, Send(values),
         error' = error \/ (unit = "IF" /\ error' = "NO_ERROR")
  PROVE  ThreadInv'
<1>1. PICK v \in values : Answer("data", unit, v)
  BY DEF Send
<1>2. pc = "handle" /\ Done(Event) /\ UNCHANGED <<setup, bits>>
  BY DEF Send
<1>3. Event \in flag
  BY <1>2 DEF ThreadInv, Holding
<1>4. ~late => unit = setup.unit /\ waiting = setup /\ waiting # NoRequest
  BY <1>2 DEF ThreadInv, InStep
<1>5. ~late /\ owed' => error' # "NO_ERROR"
  BY <1>1, <1>4 DEF Answer, ThreadInv, Explained
<1> QED
  BY <1>1, <1>2, <1>3, <1>4, <1>5, AnsweringKeeps

(* The thread asks for the data of a SET_CUR.                                *)
LEMMA ReceiveKeeps == ThreadInv /\ unit \in {"PU", "VS"} /\ Receive => ThreadInv'
<1> SUFFICES ASSUME ThreadInv, unit \in {"PU", "VS"}, Receive PROVE ThreadInv'
  OBVIOUS
<1> USE DEF ThreadInv
<1>1. /\ pc = "handle" /\ pc' = "receive" /\ pending' = [setup EXCEPT !.unit = unit]
      /\ UNCHANGED <<setup, bits, flag, unit, data, error, waiting, answer, late, owed>>
  BY DEF Receive, hostVars
<1>2. unit = setup.unit => pending' = setup
  BY <1>1, SameUnit DEF TypeOK
<1>3. TypeOK' /\ Holding' /\ AnswerFits' /\ Explained'
  BY <1>1 DEF TypeOK, Holding, Event, AnswerFits, Explained
<1>4. NotForgotten'
  BY <1>1, <1>2 DEF NotForgotten, Ev, Event, Unanswered
<1>5. late' \/ InStep'
  BY <1>1, <1>2 DEF InStep, Ev
<1> QED
  BY <1>3, <1>4, <1>5

(* A request for the error code that gets no answer.                         *)
LEMMA SilenceKeeps ==
  ASSUME ThreadInv, pc = "handle", unit = "IF", Done("VC"),
         ~(setup.sel = ERROR_CODE /\ setup.req = "GET_CUR"),
         UNCHANGED <<setup, bits, error, hostVars>>
  PROVE  ThreadInv'
<1> USE DEF ThreadInv
<1>1. Event = "VC" /\ "VC" \in flag
  BY DEF Holding, Event
<1>2. /\ flag' = flag \ {"VC"} /\ (pc' = IF flag' = {} THEN "wait" ELSE "dispatch")
      /\ unit' = "none" /\ pending' = NoRequest /\ data' = 0
      /\ UNCHANGED <<setup, bits, error, waiting, answer, late, owed>>
  BY DEF Done, After, hostVars
<1>3. setup.unit = "IF" => Unanswered(setup)
  <2>1. setup \in HostRequests
    BY <1>1 DEF Holding, TypeOK
  <2> QED
    BY <2>1, Requests DEF Unanswered
<1>4. TypeOK' /\ Holding' /\ AnswerFits' /\ Explained'
  BY <1>2 DEF TypeOK, Holding, AnswerFits, Explained
<1>5. NotForgotten'
  BY <1>1, <1>2, <1>3 DEF NotForgotten, Ev, Event, Unanswered, Holding
<1>6. late' \/ InStep'
  BY <1>1, <1>2, <1>3 DEF InStep, Ev
<1> QED
  BY <1>4, <1>5, <1>6

(* Every branch of every handler is one of these.                            *)
LEMMA HandleKeeps == ThreadInv /\ pc = "handle" /\ Handle => ThreadInv'
<1> SUFFICES ASSUME ThreadInv, Handle PROVE ThreadInv'
  OBVIOUS
<1>1. CASE ProcessingUnit
  <2>1. unit = "PU" /\ unit \in Units
    BY <1>1 DEF ProcessingUnit, Units
  <2>2. CASE Stall("INVALID_CONTROL")
    BY <2>2, StallKeeps
  <2>3. CASE Stall(CodeOfBadRequest)
    BY <2>3, StallKeeps DEF CodeOfBadRequest
  <2>4. CASE Send(PuValues) /\ UNCHANGED error
    BY <2>4, SendKeeps
  <2>5. CASE Receive
    BY <2>1, <2>5, ReceiveKeeps
  <2> QED
    BY <1>1, <2>2, <2>3, <2>4, <2>5 DEF ProcessingUnit
<1>2. CASE CameraTerminal \/ ExtensionUnit
  BY <1>2, StallKeeps DEF CameraTerminal, ExtensionUnit
<1>3. CASE InterfaceControl
  <2>1. CASE setup.sel = ERROR_CODE /\ setup.req = "GET_CUR"
    <3>1. unit = "IF" /\ Send({0}) /\ error' = "NO_ERROR"
      BY <1>3, <2>1 DEF InterfaceControl
    <3> QED
      BY <3>1, SendKeeps
  <2>2. CASE ~(setup.sel = ERROR_CODE /\ setup.req = "GET_CUR")
    <3>1. /\ unit = "IF" /\ pc = "handle" /\ Done("VC")
          /\ UNCHANGED <<setup, bits, error, hostVars>>
      BY <1>3, <2>2 DEF InterfaceControl
    <3> QED
      BY <2>2, <3>1, SilenceKeeps
  <2> QED
    BY <2>1, <2>2
<1>4. CASE VideoStreaming
  <2>1. unit = "VS" /\ unit \notin Units
    BY <1>4 DEF VideoStreaming, Units
  <2>2. CASE Stall(error)
    BY <2>1, <2>2, StallKeeps
  <2>3. CASE Send({0}) /\ UNCHANGED error
    BY <2>3, SendKeeps
  <2>4. CASE Receive
    BY <2>1, <2>4, ReceiveKeeps
  <2> QED
    BY <1>4, <2>2, <2>3, <2>4 DEF VideoStreaming
<1> QED
  BY <1>1, <1>2, <1>3, <1>4 DEF Handle

-----------------------------------------------------------------------------
(* The data of a SET_CUR: they arrive, they do not, and they are used.       *)
LEMMA ReceivedKeeps == ThreadInv /\ Received => ThreadInv'
<1> SUFFICES ASSUME ThreadInv, Received PROVE ThreadInv'
  OBVIOUS
<1> USE DEF ThreadInv
<1>1. /\ pc = "receive" /\ waiting = pending /\ pc' = "apply"
      /\ data' \in (IF unit = "VS" THEN Settings ELSE Payloads)
      /\ waiting' = NoRequest /\ answer'.fits
      /\ UNCHANGED <<setup, bits, flag, unit, pending, error, late, owed>>
  BY DEF Received
<1>2. TypeOK' /\ Holding' /\ NotForgotten' /\ AnswerFits' /\ Explained'
  BY <1>1 DEF TypeOK, Holding, Event, NotForgotten, AnswerFits, Explained
<1>3. late' \/ InStep'
  BY <1>1 DEF InStep, Ev, Event
<1> QED
  BY <1>2, <1>3

(* The thread is done with data that did not come or were used.              *)
LEMMA FinishedKeeps ==
  ASSUME ThreadInv, Done(Event), UNCHANGED <<setup, bits, error, hostVars>>,
         \/ pc = "receive" /\ waiting # pending
         \/ pc = "apply"
  PROVE  ThreadInv'
<1> USE DEF ThreadInv
<1>1. /\ flag' = flag \ {Event} /\ (pc' = IF flag' = {} THEN "wait" ELSE "dispatch")
      /\ unit' = "none" /\ pending' = NoRequest /\ data' = 0
      /\ UNCHANGED <<setup, bits, error, waiting, answer, late, owed>>
  BY DEF Done, After, hostVars
<1>2. TypeOK' /\ Holding' /\ AnswerFits' /\ Explained'
  BY <1>1 DEF TypeOK, Holding, AnswerFits, Explained
<1>3. NotForgotten'
  BY <1>1 DEF NotForgotten, Ev, Event, Unanswered
<1>4. late' \/ InStep'
  BY <1>1 DEF InStep, Ev, Event
<1> QED
  BY <1>2, <1>3, <1>4

(* Only the use of the data, and of a COMMIT, reaches the driver.            *)
LEMMA ApplyKeepsSettings == ThreadInv /\ SensorInv /\ Apply => SensorInv'
<1> SUFFICES ASSUME ThreadInv, SensorInv, Apply PROVE SensorInv'
  OBVIOUS
<1>1. pc = "apply" /\ unit \in {"PU", "VS"}
  BY DEF ThreadInv, TypeOK, Apply
<1>2. CASE UNCHANGED sensorVars
  BY <1>2 DEF SensorInv, SensorType, sensorVars
<1>3. CASE unit = "PU"
  <2>1. data \in Payloads /\ Payloads \subseteq 0..(2^16 - 1)
    BY <1>1, <1>3, Ep0ControlAssumption DEF ThreadInv, TypeOK
  <2>2. data \in 0..(2^16 - 1)
    BY <2>1
  <2>3. CASE SetBrightness(data)
    BY <2>2, <2>3, BrightnessKeepsSettings
  <2>4. ASSUME NEW x \in Garbage, SetExposure(data, x) PROVE SensorInv'
    BY <2>2, <2>4, ExposureKeepsSettings
  <2>5. CASE data <= 8 /\ SetTestPattern(data)
    <3>1. data \in 0..8
      BY <2>2, <2>5
    <3> QED
      BY <3>1, <2>5, TestPatternKeepsSettings
  <2> QED
    BY <1>2, <1>3, <2>3, <2>4, <2>5 DEF Apply
<1>4. CASE unit = "VS"
  <2>1. data \in Settings
    BY <1>1, <1>4 DEF ThreadInv, TypeOK
  <2>2. ASSUME NEW x \in Garbage, HandleUvcControl(data, x) PROVE SensorInv'
    BY <2>1, <2>2, CommitKeepsSettings
  <2> QED
    BY <1>2, <1>4, <2>2 DEF Apply
<1> QED
  BY <1>1, <1>3, <1>4

-----------------------------------------------------------------------------
(* The driver is called from Apply alone.                                    *)
LEMMA SensorUntouched ==
  ASSUME SensorInv, UNCHANGED sensorVars PROVE SensorInv'
BY DEF SensorInv, SensorType, sensorVars

(* The host's steps and each point of the thread's program.                  *)
LEMMA EP0Step == EP0Inv /\ [Next]_vars => EP0Inv'
<1> SUFFICES ASSUME EP0Inv, [Next]_vars PROVE EP0Inv'
  OBVIOUS
<1> USE DEF EP0Inv
<1>1. CASE Setup
  BY <1>1, SetupKeeps, SensorUntouched DEF Setup
<1>2. CASE HostGivesUp
  BY <1>2, GivingUpKeeps, SensorUntouched DEF HostGivesUp
<1>3. CASE Take
  BY <1>3, TakeKeeps, SensorUntouched DEF Take
<1>4. CASE Dispatch
  BY <1>4, DispatchKeeps, SensorUntouched DEF Dispatch
<1>5. CASE Handle
  <2>1. pc = "handle" /\ UNCHANGED sensorVars
    BY <1>5 DEF Handle, ProcessingUnit, CameraTerminal, ExtensionUnit, InterfaceControl,
                VideoStreaming, Stall, Send, Receive
  <2> QED
    BY <1>5, <2>1, HandleKeeps, SensorUntouched
<1>6. CASE Received
  BY <1>6, ReceivedKeeps, SensorUntouched DEF Received
<1>7. CASE NotReceived
  BY <1>7, FinishedKeeps, SensorUntouched DEF NotReceived
<1>8. CASE Apply
  BY <1>8, FinishedKeeps, ApplyKeepsSettings DEF Apply
<1>9. CASE UNCHANGED vars
  BY <1>9, SensorUntouched
     DEF vars, threadVars, hostVars, ThreadInv, TypeOK, Holding, NotForgotten, InStep, AnswerFits,
         Explained, Ev, Event, Unanswered
<1> QED
  BY <1>1, <1>2, <1>3, <1>4, <1>5, <1>6, <1>7, <1>8, <1>9 DEF Next, Thread

(* The inductive invariant, for every choice of modes, payloads and hosts.   *)
THEOREM Invariance == Spec => []EP0Inv
<1>1. Init => EP0Inv
  <2> SUFFICES ASSUME Init PROVE EP0Inv
    OBVIOUS
  <2>1. SensorInv
    BY InitSettings DEF Init
  <2>2. ThreadInv
    BY Requests
       DEF Init, ThreadInv, TypeOK, Holding, NotForgotten, InStep, AnswerFits, Explained, Silence
  <2> QED
    BY <2>1, <2>2 DEF EP0Inv
<1> QED
  BY <1>1, EP0Step, PTL DEF Spec

(* What GET_CUR reports is what the sensor's registers hold                  *)
(* (sensor_imx219.c).                                                        *)
THEOREM Settled == Spec => []SettingsCoherent
<1>1. EP0Inv => SettingsCoherent
  BY DEF EP0Inv, SensorInv, SettingsCoherent
<1> QED
  BY <1>1, Invariance, PTL

(* Once a mode is selected the exposure in the registers is within its frame *)
(* (sensor_imx219.c:99).                                                     *)
THEOREM Exposing == Spec => []ExposureFitsFrame
<1>1. EP0Inv => ExposureFitsFrame
  BY DEF EP0Inv, SensorInv, ExposureFitsFrame
<1> QED
  BY <1>1, Invariance, PTL

(* The EP0 thread never sleeps on a request somebody waits for, but for the  *)
(* one kind of request it leaves unanswered.                                 *)
THEOREM Answered == Spec => []NoRequestLeftHanging
<1>1. EP0Inv => NoRequestLeftHanging
  BY DEF EP0Inv, ThreadInv, Holding, NotForgotten, Unanswered, NoRequestLeftHanging
<1> QED
  BY <1>1, Invariance, PTL

(* An answer is that of the request it ends, unless the thread is late.      *)
THEOREM Fitting == Spec => []AnswerFits
<1>1. EP0Inv => AnswerFits
  BY DEF EP0Inv, ThreadInv
<1> QED
  BY <1>1, Invariance, PTL

(* A host that was stalled by a unit finds the reason.                       *)
THEOREM Explaining == Spec => []StallExplained
<1>1. EP0Inv => StallExplained
  BY DEF EP0Inv, ThreadInv, Explained, StallExplained
<1> QED
  BY <1>1, Invariance, PTL

(* What the descriptors advertise, the handlers serve.                       *)
THEOREM Serving == Spec => AdvertisedIsServed
<1> DEFINE Served == (waiting \in Advertised /\ waiting' = NoRequest /\ ~late')
                       => answer'.what # "stall"
<1>1. EP0Inv /\ [Next]_vars => [Served]_vars
  <2> SUFFICES ASSUME ThreadInv, Next, waiting \in Advertised, waiting' = NoRequest, ~late'
               PROVE  answer'.what # "stall"
    BY DEF EP0Inv
  <2> USE DEF ThreadInv
  <2>1. waiting.unit = "PU" /\ waiting.sel \in PuControls /\ waiting.req # "BAD"
    BY AdvertisedControls DEF Request
  <2>2. waiting # NoRequest
    BY <2>1, Requests
  <2>3. ~UNCHANGED hostVars
    BY <2>2 DEF hostVars
  <2>4. CASE Setup
    BY <2>2, <2>4 DEF Setup
  <2>5. CASE HostGivesUp
    BY <2>5 DEF HostGivesUp
  <2>6. CASE Take
    BY <2>3, <2>6 DEF Take
  <2>7. CASE Dispatch
    <3>1. late' = late
      BY <2>7 DEF Dispatch, Answer, hostVars
    <3>2. waiting = setup /\ flag = {"VC"}
      BY <2>1, <2>7, <3>1 DEF Dispatch, InStep, Ev
    <3>3. UNCHANGED hostVars
      BY <2>1, <2>7, <3>2 DEF Dispatch
    <3> QED
      BY <2>3, <3>3
  <2>8. CASE Handle
    <3>1. pc = "handle"
      BY <2>8 DEF Handle, ProcessingUnit, CameraTerminal, ExtensionUnit, InterfaceControl,
                  VideoStreaming, Stall, Send, Receive
    <3>2. late' = late
      BY <2>8 DEF Handle, ProcessingUnit, CameraTerminal, ExtensionUnit, InterfaceControl,
                  VideoStreaming, Stall, Send, Receive, Answer, hostVars
    <3>3. waiting = setup /\ unit = "PU"
      BY <2>1, <3>1, <3>2 DEF InStep
    <3>4. ProcessingUnit
      BY <2>8, <3>3 DEF Handle, CameraTerminal, ExtensionUnit, InterfaceControl, VideoStreaming
    <3>5. Send(PuValues) \/ Receive
      BY <2>1, <3>3, <3>4 DEF ProcessingUnit
    <3>6. ~Receive
      BY <2>3 DEF Receive
    <3>7. PICK v \in PuValues : Answer("data", unit, v)
      BY <3>5, <3>6 DEF Send
    <3>8. answer' = [what |-> "data", value |-> v, fits |-> waiting = [setup EXCEPT !.unit = unit]]
      BY <2>2, <3>7 DEF Answer
    <3> QED
      BY <3>8
  <2>9. CASE Received
    BY <2>9 DEF Received
  <2>10. CASE NotReceived \/ Apply
    BY <2>3, <2>10 DEF NotReceived, Apply
  <2> QED
    BY <2>4, <2>5, <2>6, <2>7, <2>8, <2>9, <2>10 DEF Next, Thread
<1> QED
  BY <1>1, Invariance, PTL DEF Spec, AdvertisedIsServed
=============================================================================
