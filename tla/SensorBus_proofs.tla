-------------------------- MODULE SensorBus_proofs --------------------------
(***************************************************************************)
(* What holds of the sensor's registers for any number of operations and   *)
(* of lost transfers, and whatever the host sets.                          *)
(*                                                                         *)
(* The invariant looks ahead: After says what value a register has once so *)
(* many more of the writes on the list are made.  An operation is then two *)
(* facts about the list it begins with, and a write that arrives brings    *)
(* every list one write nearer (WritesMove).  What the table of modes and  *)
(* the descriptors promise is checked entry by entry at the end.           *)
(***************************************************************************)
EXTENDS SensorBus, TLAPS

Registers == DOMAIN Torn \cup DOMAIN Sleeping

(* The list of writes that are left is a sequence of its own elements.       *)
Listed(writes) ==
  /\ writes \in Seq({writes[i] : i \in DOMAIN writes})
  /\ \A i \in DOMAIN writes : writes[i].r \in Registers

(* With the first n of the writes w made, b becomes registers in which r has *)
(* the value v.                                                              *)
After(b, w, n, r, v) ==
  \/ b[r] = v /\ \A j \in 1..n : w[j].r # r
  \/ \E i \in 1..n : /\ w[i].r = r /\ w[i].v = v
                     /\ \A j \in (i + 1)..n : w[j].r # r

IsBus(b) == b = [r \in Registers |-> b[r]]

(* The names of the registers.                                               *)
LEMMA RegisterNames ==
  Registers = {"on", "table", "orient", "clock", "length", "window", "size", "patternSize",
               "binning", "gain", "pattern", "exposureMsb", "exposureLsb"}
  BY DEF Registers, Torn, Sleeping

(* A sequence is one of its own elements.                                    *)
LEMMA OfItsOwn ==
  ASSUME NEW S, NEW s \in Seq(S)
  PROVE  s \in Seq({s[i] : i \in DOMAIN s})
<1>1. Len(s) \in Nat /\ DOMAIN s = 1..Len(s) /\ \A i \in 1..Len(s) : s[i] \in {s[j] : j \in DOMAIN s}
  OBVIOUS
<1> QED
  BY <1>1

(* A write is made, and what was ahead is one write nearer.                  *)
OneNearer(b, w, then, rest) ==
  /\ IsBus(then) /\ Listed(rest)
  /\ Len(rest) \in Nat /\ Len(w) = Len(rest) + 1
  /\ \A v : \A n \in 0..Len(rest), r \in Registers :
       After(then, rest, n, r, v) <=> After(b, w, n + 1, r, v)

(* It is: nothing that is read ahead depends on how far ahead it is read.    *)
LEMMA WritesMove ==
  ASSUME NEW b, NEW w, IsBus(b), Listed(w), w # <<>>
  PROVE  OneNearer(b, w, [b EXCEPT ![Head(w).r] = Head(w).v], Tail(w))
<1> DEFINE rest == Tail(w)
           then == [b EXCEPT ![Head(w).r] = Head(w).v]
           S == {w[i] : i \in DOMAIN w}
<1>1. w \in Seq(S) /\ Len(w) \in Nat \ {0} /\ DOMAIN w = 1..Len(w)
  BY DEF IsBus, Listed
<1>2. /\ rest \in Seq(S) /\ Len(rest) = Len(w) - 1
      /\ \A j \in 1..Len(rest) : rest[j] = w[j + 1]
      /\ DOMAIN rest = 1..Len(rest)
      /\ Head(w) = w[1]
  BY <1>1
<1> HIDE DEF rest
<1>3. rest \in Seq({rest[i] : i \in DOMAIN rest})
  <2> HIDE DEF S
  <2>1. \A s \in Seq(S) : s \in Seq({s[i] : i \in DOMAIN s})
    BY OfItsOwn
  <2> QED
    BY <1>2, <2>1
<1>4. \A i \in DOMAIN rest : rest[i].r \in Registers
  BY <1>1, <1>2 DEF IsBus, Listed
<1>5. /\ then = [r \in Registers |-> then[r]]
      /\ then[w[1].r] = w[1].v
      /\ \A r \in Registers : r # w[1].r => then[r] = b[r]
  <2>1. w[1].r \in Registers
    BY <1>1 DEF IsBus, Listed
  <2> QED
    BY <1>2, <2>1 DEF IsBus
<1> HIDE DEF then
<1>6. ASSUME NEW n \in 0..Len(rest), NEW r \in Registers, NEW v
      PROVE  After(then, rest, n, r, v) <=> After(b, w, n + 1, r, v)
  <2> HIDE DEF S
  <2>1. n \in Nat /\ \A j \in 1..n : rest[j] = w[j + 1]
    BY <1>2, <1>6
  <2>2. ASSUME NEW k \in 0..n
        PROVE  (\A j \in (k + 1)..n : rest[j].r # r) <=> (\A j \in (k + 2)..(n + 1) : w[j].r # r)
    <3>1. ASSUME NEW j \in (k + 2)..(n + 1), \A i \in (k + 1)..n : rest[i].r # r
          PROVE  w[j].r # r
      <4>1. j - 1 \in (k + 1)..n /\ j - 1 \in 1..n /\ (j - 1) + 1 = j
        BY <2>1
      <4> QED
        BY <2>1, <3>1, <4>1
    <3>2. ASSUME NEW j \in (k + 1)..n, \A i \in (k + 2)..(n + 1) : w[i].r # r
          PROVE  rest[j].r # r
      <4>1. j + 1 \in (k + 2)..(n + 1) /\ j \in 1..n
        BY <2>1
      <4> QED
        BY <2>1, <3>2, <4>1
    <3> QED
      BY <3>1, <3>2
  <2>3. ASSUME After(then, rest, n, r, v) PROVE After(b, w, n + 1, r, v)
    <3>1. CASE then[r] = v /\ \A j \in 1..n : rest[j].r # r
      <4>1. \A j \in 2..(n + 1) : w[j].r # r
        <5>1. ASSUME NEW j \in 2..(n + 1) PROVE w[j].r # r
          <6>1. j - 1 \in 1..n /\ (j - 1) + 1 = j
            BY <2>1
          <6> QED
            BY <2>1, <3>1, <6>1
        <5> QED
          BY <5>1
      <4>2. CASE w[1].r = r
        BY <1>5, <2>1, <3>1, <4>1, <4>2 DEF After
      <4>3. CASE w[1].r # r
        BY <1>5, <2>1, <3>1, <4>1, <4>3 DEF After
      <4> QED
        BY <4>2, <4>3
    <3>2. ASSUME NEW i \in 1..n, rest[i].r = r, rest[i].v = v,
                 \A j \in (i + 1)..n : rest[j].r # r
          PROVE  After(b, w, n + 1, r, v)
      <4>1. i + 1 \in 1..(n + 1) /\ w[i + 1].r = r /\ w[i + 1].v = v /\ i \in 0..n
        BY <2>1, <3>2
      <4>2. \A j \in ((i + 1) + 1)..(n + 1) : w[j].r # r
        <5>1. ASSUME NEW j \in ((i + 1) + 1)..(n + 1) PROVE w[j].r # r
          <6>1. j - 1 \in (i + 1)..n /\ j - 1 \in 1..n /\ (j - 1) + 1 = j
            BY <2>1
          <6> QED
            BY <2>1, <3>2, <6>1
        <5> QED
          BY <5>1
      <4> QED
        BY <4>1, <4>2 DEF After
    <3> QED
      BY <2>3, <3>1, <3>2 DEF After
  <2>4. ASSUME After(b, w, n + 1, r, v) PROVE After(then, rest, n, r, v)
    <3>1. CASE b[r] = v /\ \A j \in 1..(n + 1) : w[j].r # r
      <4>1. w[1].r # r /\ \A j \in 1..n : rest[j].r # r
        BY <2>1, <2>2, <3>1
      <4> QED
        BY <1>5, <3>1, <4>1 DEF After
    <3>2. ASSUME NEW i \in 1..(n + 1), w[i].r = r, w[i].v = v,
                 \A j \in (i + 1)..(n + 1) : w[j].r # r
          PROVE  After(then, rest, n, r, v)
      <4>1. CASE i = 1
        <5>1. \A j \in 1..n : rest[j].r # r
          BY <2>1, <2>2, <3>2, <4>1
        <5> QED
          BY <1>5, <3>2, <4>1, <5>1 DEF After
      <4>2. CASE i # 1
        <5>1. i - 1 \in 1..n /\ i - 1 \in 0..n /\ (i - 1) + 1 = i /\ (i - 1) + 2 = i + 1
          BY <2>1, <4>2
        <5>2. rest[i - 1].r = r /\ rest[i - 1].v = v
          BY <2>1, <3>2, <5>1
        <5>3. \A j \in i..n : rest[j].r # r
          BY <2>2, <3>2, <5>1
        <5> QED
          BY <5>1, <5>2, <5>3 DEF After
      <4> QED
        BY <4>1, <4>2
    <3> QED
      BY <2>4, <3>1, <3>2 DEF After
  <2> QED
    BY <2>3, <2>4
<1>7. IsBus(then) /\ Listed(rest)
  BY <1>3, <1>4, <1>5 DEF IsBus, Listed
<1>8. Len(rest) \in Nat /\ Len(w) = Len(rest) + 1
  BY <1>1, <1>2
<1>9. \A v : \A n \in 0..Len(rest), r \in Registers :
        After(then, rest, n, r, v) <=> After(b, w, n + 1, r, v)
  BY <1>6
<1> QED
  BY <1>7, <1>8, <1>9 DEF OneNearer, then, rest

-----------------------------------------------------------------------------
(* The registers of one mode, and all that the driver means them to hold.    *)
Of(mode) ==
  [clock |-> mode.clock, length |-> <<LineLength, mode.lines>>, window |-> mode.window,
   size |-> mode.size, binning |-> IF mode.binning = 2 THEN 3 ELSE 0]

Meant(re) ==
  LET mode == Pointed(re.mode) IN
  [clock |-> mode.clock, length |-> <<LineLength, mode.lines>>, window |-> mode.window,
   size |-> mode.size, binning |-> IF mode.binning = 2 THEN 3 ELSE 0,
   patternSize |-> mode.size, gain |-> re.gain, pattern |-> re.pattern,
   exposureMsb |-> (re.exposure \div 256) % 256, exposureLsb |-> re.exposure % 256,
   on |-> 1, orient |-> 3]

(* n of the writes w put the registers named in target to its values.        *)
Puts(b, w, n, target) == \A r \in DOMAIN target : After(b, w, n, r, target[r])

(* Of is OfOneMode, register by register.                                    *)
LEMMA OfItsMode ==
  ASSUME NEW mode
  PROVE  OfOneMode(mode) <=> \A r \in DOMAIN Of(mode) : bus[r] = Of(mode)[r]
<1>1. DOMAIN Of(mode) = {"clock", "length", "window", "size", "binning"}
  BY DEF Of
<1> QED
  BY <1>1 DEF Of, OfOneMode

(* Configuring a mode: the stream is off while its registers are written,    *)
(* and all of them are.                                                      *)
LEMMA Configures ==
  ASSUME NEW b, NEW w, NEW m, NEW g, NEW p, g % 256 = g, w = ConfigureWrites(m, g, p)
  PROVE  /\ Listed(w) /\ Len(w) = 13 /\ w[1].r = "orient" /\ w[2].r = "on"
         /\ \A v : \A n \in 0..1, r \in Registers \ {"orient"} : After(b, w, n, r, v) <=> b[r] = v
         /\ \A n \in 2..12 : ~After(b, w, n, "on", 1)
         /\ \A r \in DOMAIN Of(Pointed(m)) : \E j \in 1..13 : w[j].r = r
         /\ \A r \in DOMAIN Meant(Configured(m, g, p)) : \E j \in 1..13 : w[j].r = r
         /\ Puts(b, w, 13, Of(Pointed(m))) /\ Puts(b, w, 13, Meant(Configured(m, g, p)))
<1> DEFINE mode == Pointed(m)
<1>1. /\ Len(w) = 13 /\ DOMAIN w = 1..13
      /\ w[1] = Write("orient", 3) /\ w[2] = Write("on", 0)
      /\ w[3] = Write("clock", mode.clock)
      /\ w[4] = Write("exposureMsb", (m \div 256) % 256)
      /\ w[5] = Write("exposureLsb", m % 256)
      /\ w[6] = Write("gain", g % 256)
      /\ w[7] = Write("length", <<LineLength, mode.lines>>)
      /\ w[8] = Write("window", mode.window) /\ w[9] = Write("size", mode.size)
      /\ w[10] = Write("pattern", IF p < 8 THEN p ELSE 0)
      /\ w[11] = Write("patternSize", mode.size)
      /\ w[12] = Write("binning", IF mode.binning = 2 THEN 3 ELSE 0)
      /\ w[13] = Write("on", 1)
  BY DEF ConfigureWrites, ModeRegisters, ExposureWrites, StreamOn, Write
<1>2. w \in Seq({w[i] : i \in DOMAIN w})
  BY <1>1 DEF ConfigureWrites, ModeRegisters, ExposureWrites, StreamOn, Write
<1> HIDE DEF mode
<1>3. /\ w[1].r = "orient" /\ w[2].r = "on" /\ w[3].r = "clock" /\ w[4].r = "exposureMsb"
      /\ w[5].r = "exposureLsb" /\ w[6].r = "gain" /\ w[7].r = "length"
      /\ w[8].r = "window" /\ w[9].r = "size" /\ w[10].r = "pattern"
      /\ w[11].r = "patternSize" /\ w[12].r = "binning" /\ w[13].r = "on"
  BY <1>1 DEF Write
<1>4. /\ w[1].v = 3 /\ w[2].v = 0 /\ w[3].v = mode.clock /\ w[4].v = (m \div 256) % 256
      /\ w[5].v = m % 256 /\ w[6].v = g % 256 /\ w[7].v = <<LineLength, mode.lines>>
      /\ w[8].v = mode.window /\ w[9].v = mode.size /\ w[10].v = IF p < 8 THEN p ELSE 0
      /\ w[11].v = mode.size /\ w[12].v = (IF mode.binning = 2 THEN 3 ELSE 0)
      /\ w[13].v = 1
  BY <1>1 DEF Write
<1>5. \A i \in 1..13 : w[i].r \in Registers
  BY <1>3, RegisterNames
<1>6. \A v : \A n \in 0..1, r \in Registers \ {"orient"} : After(b, w, n, r, v) <=> b[r] = v
  BY <1>3 DEF After
<1>7. \A n \in 2..12 : ~After(b, w, n, "on", 1)
  BY <1>3, <1>4 DEF After
<1>8. ASSUME NEW i \in 1..13, NEW r, NEW v, w[i].r = r, w[i].v = v,
             \A j \in (i + 1)..13 : w[j].r # r
      PROVE  After(b, w, 13, r, v)
  BY <1>8 DEF After
<1>9. /\ After(b, w, 13, "clock", mode.clock)
      /\ After(b, w, 13, "exposureMsb", (m \div 256) % 256)
      /\ After(b, w, 13, "exposureLsb", m % 256)
      /\ After(b, w, 13, "gain", g)
      /\ After(b, w, 13, "length", <<LineLength, mode.lines>>)
      /\ After(b, w, 13, "window", mode.window)
      /\ After(b, w, 13, "size", mode.size)
      /\ After(b, w, 13, "pattern", IF p < 8 THEN p ELSE 0)
      /\ After(b, w, 13, "patternSize", mode.size)
      /\ After(b, w, 13, "binning", IF mode.binning = 2 THEN 3 ELSE 0)
      /\ After(b, w, 13, "on", 1)
      /\ After(b, w, 13, "orient", 3)
  BY <1>3, <1>4, <1>8
<1>10. /\ DOMAIN Of(mode) = {"clock", "length", "window", "size", "binning"}
       /\ Of(mode)["clock"] = mode.clock /\ Of(mode)["length"] = <<LineLength, mode.lines>>
       /\ Of(mode)["window"] = mode.window /\ Of(mode)["size"] = mode.size
       /\ Of(mode)["binning"] = IF mode.binning = 2 THEN 3 ELSE 0
  BY DEF Of
<1>11. Puts(b, w, 13, Of(mode))
  BY <1>9, <1>10 DEF Puts
<1> DEFINE re == Configured(m, g, p)
<1>12. /\ re.mode = m /\ re.gain = g /\ re.exposure = m
       /\ re.pattern = IF p < 8 THEN p ELSE 0
  BY DEF Configured
<1> HIDE DEF re
<1>13. /\ DOMAIN Meant(re) = {"clock", "length", "window", "size", "binning", "patternSize",
                              "gain", "pattern", "exposureMsb", "exposureLsb", "on", "orient"}
       /\ Meant(re)["clock"] = mode.clock /\ Meant(re)["length"] = <<LineLength, mode.lines>>
       /\ Meant(re)["window"] = mode.window /\ Meant(re)["size"] = mode.size
       /\ Meant(re)["binning"] = (IF mode.binning = 2 THEN 3 ELSE 0)
       /\ Meant(re)["patternSize"] = mode.size /\ Meant(re)["gain"] = g
       /\ Meant(re)["pattern"] = (IF p < 8 THEN p ELSE 0)
       /\ Meant(re)["exposureMsb"] = (m \div 256) % 256 /\ Meant(re)["exposureLsb"] = m % 256
       /\ Meant(re)["on"] = 1 /\ Meant(re)["orient"] = 3
  BY <1>12 DEF Meant, mode
<1>14. Puts(b, w, 13, Meant(re))
  BY <1>9, <1>13 DEF Puts
<1>15. \A r \in DOMAIN Meant(re) : \E j \in 1..13 : w[j].r = r
  BY <1>3, <1>13
<1>16. \A r \in DOMAIN Of(mode) : \E j \in 1..13 : w[j].r = r
  BY <1>3, <1>10
<1> QED
  BY <1>1, <1>2, <1>3, <1>5, <1>6, <1>7, <1>11, <1>14, <1>15, <1>16 DEF Listed, mode, re

(* One list of writes after another.                                         *)
LEMMA Joined ==
  ASSUME NEW b, NEW u, NEW c, Listed(u), Listed(c)
  PROVE  /\ Listed(u \o c) /\ Len(u \o c) = Len(u) + Len(c)
         /\ Len(u) \in Nat /\ Len(c) \in Nat
         /\ \A v, r : \A n \in 0..Len(u) : After(b, u \o c, n, r, v) <=> After(b, u, n, r, v)
         /\ \A v, r : \A n \in 0..Len(c) :
              IF \E j \in 1..n : c[j].r = r
              THEN After(b, u \o c, Len(u) + n, r, v) <=> After(b, c, n, r, v)
              ELSE After(b, u \o c, Len(u) + n, r, v) <=> After(b, u, Len(u), r, v)
<1> DEFINE w == u \o c
           U == {u[i] : i \in DOMAIN u} \cup {c[i] : i \in DOMAIN c}
<1>1. /\ Len(u) \in Nat /\ DOMAIN u = 1..Len(u) /\ u \in Seq(U)
      /\ Len(c) \in Nat /\ DOMAIN c = 1..Len(c) /\ c \in Seq(U)
  BY DEF Listed
<1> HIDE DEF U
<1>2. /\ w \in Seq(U) /\ Len(w) = Len(u) + Len(c) /\ DOMAIN w = 1..Len(w)
      /\ \A i \in 1..Len(u) : w[i] = u[i]
      /\ \A i \in 1..Len(c) : w[Len(u) + i] = c[i]
      /\ \A i \in 1..Len(w) : i > Len(u) => i - Len(u) \in 1..Len(c) /\ w[i] = c[i - Len(u)]
  BY <1>1
<1>3. w \in Seq({w[i] : i \in DOMAIN w})
  <2> HIDE DEF w
  <2>1. \A s \in Seq(U) : s \in Seq({s[i] : i \in DOMAIN s})
    BY OfItsOwn
  <2> QED
    BY <1>2, <2>1
<1> HIDE DEF w
<1>4. ASSUME NEW i \in DOMAIN w PROVE w[i].r \in Registers
  <2>1. i \in 1..Len(w)
    BY <1>2
  <2>2. CASE i > Len(u)
    BY <1>1, <1>2, <2>1, <2>2 DEF Listed
  <2>3. CASE ~(i > Len(u))
    <3>1. i \in 1..Len(u)
      BY <1>1, <1>2, <2>1, <2>3
    <3> QED
      BY <1>1, <1>2, <3>1 DEF Listed
  <2> QED
    BY <2>2, <2>3
<1>5. ASSUME NEW v, NEW r, NEW n \in 0..Len(u)
      PROVE  After(b, w, n, r, v) <=> After(b, u, n, r, v)
  <2>1. \A i \in 1..n : w[i] = u[i]
    BY <1>1, <1>2
  <2>2. \A i \in 1..n : \A j \in (i + 1)..n : w[j] = u[j]
    BY <1>1, <2>1
  <2> QED
    BY <2>1, <2>2 DEF After
<1>6. ASSUME NEW v, NEW r, NEW n \in 0..Len(c), NEW k \in 1..n, c[k].r = r
      PROVE  After(b, w, Len(u) + n, r, v) <=> After(b, c, n, r, v)
  <2>1. \A i \in 1..n : w[Len(u) + i] = c[i] /\ Len(u) + i \in 1..(Len(u) + n)
    BY <1>1, <1>2
  <2>2. ASSUME NEW i \in 1..n
        PROVE  (\A j \in (i + 1)..n : c[j].r # r)
                 <=> (\A j \in (Len(u) + i + 1)..(Len(u) + n) : w[j].r # r)
    <3>1. ASSUME NEW j \in (i + 1)..n
          PROVE  w[Len(u) + j] = c[j] /\ Len(u) + j \in (Len(u) + i + 1)..(Len(u) + n)
      BY <1>1, <2>1
    <3>2. ASSUME NEW j \in (Len(u) + i + 1)..(Len(u) + n)
          PROVE  w[j] = c[j - Len(u)] /\ j - Len(u) \in (i + 1)..n
      BY <1>1, <1>2
    <3> QED
      BY <3>1, <3>2
  <2>3. ASSUME After(b, c, n, r, v) PROVE After(b, w, Len(u) + n, r, v)
    <3>1. PICK i \in 1..n : c[i].r = r /\ c[i].v = v /\ \A j \in (i + 1)..n : c[j].r # r
      BY <1>6, <2>3 DEF After
    <3> QED
      BY <2>1, <2>2, <3>1 DEF After
  <2>4. ASSUME After(b, w, Len(u) + n, r, v) PROVE After(b, c, n, r, v)
    <3>1. PICK i \in 1..(Len(u) + n) :
            w[i].r = r /\ w[i].v = v /\ \A j \in (i + 1)..(Len(u) + n) : w[j].r # r
      BY <1>6, <2>1, <2>4 DEF After
    <3>2. i > Len(u)
      <4>1. Len(u) + k \in 1..(Len(u) + n) /\ w[Len(u) + k].r = r
        BY <1>6, <2>1
      <4>2. i <= Len(u) => Len(u) + k \in (i + 1)..(Len(u) + n)
        BY <1>1, <1>6
      <4> QED
        BY <1>1, <3>1, <4>1, <4>2
    <3>3. i - Len(u) \in 1..n /\ Len(u) + (i - Len(u)) = i
      BY <1>1, <3>2
    <3>4. \A j \in ((i - Len(u)) + 1)..n : c[j].r # r
      BY <2>2, <3>1, <3>3
    <3> QED
      BY <2>1, <3>1, <3>3, <3>4 DEF After
  <2> QED
    BY <2>3, <2>4
<1>7. ASSUME NEW v, NEW r, NEW n \in 0..Len(c), \A j \in 1..n : c[j].r # r
      PROVE  After(b, w, Len(u) + n, r, v) <=> After(b, u, Len(u), r, v)
  <2>1. \A i \in 1..(Len(u) + n) : i > Len(u) => w[i].r # r
    BY <1>1, <1>2, <1>7
  <2>2. \A i \in 1..Len(u) : w[i] = u[i] /\ i \in 1..(Len(u) + n)
    BY <1>1, <1>2
  <2>3. ASSUME NEW i \in 0..Len(u)
        PROVE  (\A j \in (i + 1)..Len(u) : u[j].r # r)
                 <=> (\A j \in (i + 1)..(Len(u) + n) : w[j].r # r)
    <3>1. \A j \in (i + 1)..Len(u) : w[j] = u[j] /\ j \in (i + 1)..(Len(u) + n)
      BY <1>1, <2>2
    <3>2. \A j \in (i + 1)..(Len(u) + n) : w[j].r # r \/ j \in (i + 1)..Len(u)
      BY <1>1, <2>1
    <3> QED
      BY <3>1, <3>2
  <2>4. (\A j \in 1..Len(u) : u[j].r # r) <=> (\A j \in 1..(Len(u) + n) : w[j].r # r)
    BY <1>1, <2>1, <2>2
  <2>5. \A i \in 1..(Len(u) + n) : w[i].r = r => i \in 1..Len(u)
    BY <1>1, <2>1
  <2> QED
    BY <2>2, <2>3, <2>4, <2>5 DEF After
<1> QED
  BY <1>1, <1>2, <1>3, <1>4, <1>5, <1>6, <1>7 DEF Listed, w

(* The table sent at the start: it switches the stream on at its end only.   *)
LEMMA Defaults ==
  ASSUME NEW b, NEW w, w = DefaultWrites
  PROVE  /\ Listed(w) /\ Len(w) = 13
         /\ \A n \in 0..12 : b["on"] = 0 => ~After(b, w, n, "on", 1)
         /\ Puts(b, w, 13, Of(DefaultMode))
<1> DEFINE a == Write("on", 0)
           c == Write("table", TRUE)
           d == Write("length", <<LineLength, 1763>>)
           e == Write("window", FullHd)
           f == Write("size", <<1920, 1080>>)
           g == Write("binning", 0)
           h == Write("clock", <<82, 5>>)
           i == Write("pattern", 0)
           j == Write("patternSize", <<1280, 720>>)
           k == Write("gain", 128)
           l == Write("exposureMsb", (849 \div 256) % 256)
           m == Write("exposureLsb", 849 % 256)
           z == Write("on", 1)
<1>1. w = <<a>> \o <<c, d, e, f, g, h, i, j, k>> \o <<l, m>> \o <<z>>
  BY DEF DefaultWrites, ExposureWrites, StreamOn
<1> HIDE DEF a, c, d, e, f, g, h, i, j, k, l, m, z
<1>2. /\ Len(w) = 13 /\ DOMAIN w = 1..13
      /\ w[1] = a /\ w[2] = c /\ w[3] = d /\ w[4] = e /\ w[5] = f /\ w[6] = g /\ w[7] = h
      /\ w[8] = i /\ w[9] = j /\ w[10] = k /\ w[11] = l /\ w[12] = m /\ w[13] = z
      /\ w \in Seq({w[n] : n \in DOMAIN w})
  BY <1>1
<1>3. /\ w[1].r = "on" /\ w[2].r = "table" /\ w[3].r = "length" /\ w[4].r = "window"
      /\ w[5].r = "size" /\ w[6].r = "binning" /\ w[7].r = "clock" /\ w[8].r = "pattern"
      /\ w[9].r = "patternSize" /\ w[10].r = "gain" /\ w[11].r = "exposureMsb"
      /\ w[12].r = "exposureLsb" /\ w[13].r = "on"
  BY <1>2 DEF Write, a, c, d, e, f, g, h, i, j, k, l, m, z
<1>4. /\ w[1].v = 0 /\ w[3].v = <<LineLength, 1763>> /\ w[4].v = FullHd
      /\ w[5].v = <<1920, 1080>> /\ w[6].v = 0 /\ w[7].v = <<82, 5>>
  BY <1>2 DEF Write, a, c, d, e, f, g, h, i, j, k, l, m, z
<1>5. \A n \in 1..13 : w[n].r \in Registers
  BY <1>3, RegisterNames
<1>6. \A n \in 0..12 : b["on"] = 0 => ~After(b, w, n, "on", 1)
  BY <1>3, <1>4 DEF After
<1>7. /\ After(b, w, 13, "clock", <<82, 5>>)
      /\ After(b, w, 13, "length", <<LineLength, 1763>>)
      /\ After(b, w, 13, "window", FullHd)
      /\ After(b, w, 13, "size", <<1920, 1080>>)
      /\ After(b, w, 13, "binning", 0)
  BY <1>3, <1>4 DEF After
<1>8. /\ DOMAIN Of(DefaultMode) = {"clock", "length", "window", "size", "binning"}
      /\ Of(DefaultMode)["clock"] = <<82, 5>>
      /\ Of(DefaultMode)["length"] = <<LineLength, 1763>>
      /\ Of(DefaultMode)["window"] = FullHd /\ Of(DefaultMode)["size"] = <<1920, 1080>>
      /\ Of(DefaultMode)["binning"] = 0
  BY DEF Of, DefaultMode, Mode
<1>9. Puts(b, w, 13, Of(DefaultMode))
  BY <1>7, <1>8 DEF Puts
<1> QED
  BY <1>2, <1>5, <1>6, <1>9 DEF Listed

(* No writes left.                                                           *)
LEMMA NoWrite ==
  ASSUME NEW b
  PROVE  Listed(<<>>) /\ \A w : \A r, v : After(b, w, 0, r, v) <=> b[r] = v
  BY DEF Listed, After

(* One write.                                                                *)
LEMMA OneWrite ==
  ASSUME NEW b, NEW r0 \in Registers, NEW v0, NEW w, w = <<Write(r0, v0)>>
  PROVE  /\ Listed(w) /\ Len(w) = 1
         /\ \A r, v : After(b, w, 1, r, v) <=> IF r = r0 THEN v = v0 ELSE b[r] = v
<1>1. /\ Len(w) = 1 /\ DOMAIN w = 1..1 /\ w[1].r = r0 /\ w[1].v = v0
      /\ w \in Seq({w[i] : i \in DOMAIN w})
  BY DEF Write
<1>2. Listed(w)
  BY <1>1 DEF Listed
<1>3. \A r, v : After(b, w, 1, r, v) <=> IF r = r0 THEN v = v0 ELSE b[r] = v
  BY <1>1 DEF After
<1> QED
  BY <1>1, <1>2, <1>3

(* The two writes of the exposure.                                           *)
LEMMA TwoWrites ==
  ASSUME NEW b, NEW e, NEW w, w = ExposureWrites(e)
  PROVE  /\ Listed(w) /\ Len(w) = 2
         /\ \A n \in 1..2 : \A r, v :
              r \notin {"exposureMsb", "exposureLsb"} => (After(b, w, n, r, v) <=> b[r] = v)
         /\ After(b, w, 2, "exposureMsb", (e \div 256) % 256)
         /\ After(b, w, 2, "exposureLsb", e % 256)
<1> DEFINE msb == (e \div 256) % 256
           lsb == e % 256
<1>1. w = <<Write("exposureMsb", msb), Write("exposureLsb", lsb)>>
  BY DEF ExposureWrites
<1> HIDE DEF msb, lsb
<1>2. /\ Len(w) = 2 /\ DOMAIN w = 1..2 /\ w \in Seq({w[i] : i \in DOMAIN w})
      /\ w[1].r = "exposureMsb" /\ w[1].v = msb /\ w[2].r = "exposureLsb" /\ w[2].v = lsb
  BY <1>1 DEF Write
<1>3. Listed(w)
  BY <1>2, RegisterNames DEF Listed
<1>4. \A n \in 1..2 : \A r, v :
        r \notin {"exposureMsb", "exposureLsb"} => (After(b, w, n, r, v) <=> b[r] = v)
  BY <1>2 DEF After
<1>5. After(b, w, 2, "exposureMsb", msb) /\ After(b, w, 2, "exposureLsb", lsb)
  BY <1>2 DEF After
<1> QED
  BY <1>2, <1>3, <1>4, <1>5 DEF msb, lsb

-----------------------------------------------------------------------------
(* The driver's own variables; before it has looked for the sensor, nothing  *)
(* has happened.                                                             *)
DriverInv ==
  /\ selected \in Modes \cup {NoMode}
  /\ gain \in [Modes -> Nat] /\ \A m \in Modes : gain[m] < 256
  /\ pattern \in [Modes -> 0..8]
  /\ reg = [mode |-> reg.mode, gain |-> reg.gain, exposure |-> reg.exposure,
            pattern |-> reg.pattern]
  /\ reg.mode \in ModeIds \cup Garbage /\ reg.exposure \in Nat /\ reg.exposure < 65536
  /\ IsBus(bus) /\ Listed(todo) /\ lost \in Nat
  /\ ~found => SensorInit /\ bus = AfterReset /\ todo = <<>> /\ intact = FALSE

(* Once all writes are made, the registers are as the driver means them.     *)
HealInv == found /\ intact => Puts(bus, todo, Len(todo), Meant(reg))

(* After however many of the writes the stream is on, the registers are      *)
(* those of one mode.                                                        *)
OneModes == {Pointed(m) : m \in ModeIds \cup Garbage} \cup {DefaultMode}
StreamInv ==
  lost = 0 =>
    \A n \in 0..Len(todo) :
      After(bus, todo, n, "on", 1) => \E mode \in OneModes : Puts(bus, todo, n, Of(mode))

BusInv == DriverInv /\ HealInv /\ StreamInv

(* The numbers in the table.                                                 *)
LEMMA TableNumbers ==
  \A m \in ModeIds : /\ m \in Nat /\ m < 65536
                      /\ SensorConfig[m].gain \in Nat /\ SensorConfig[m].gain < 256
<1>1. /\ SensorConfig[3205].gain = 112
      /\ SensorConfig[477].gain = 112
      /\ SensorConfig[3392].gain = 128
      /\ SensorConfig[1697].gain = 128
      /\ SensorConfig[846].gain = 128
      /\ SensorConfig[2470].gain = 128
      /\ SensorConfig[1233].gain = 128
      /\ SensorConfig[137].gain = 200
      /\ SensorConfig[92].gain = 200
      /\ SensorConfig[3027].gain = 200
  BY DEF ModeIds, SensorConfig, Mode
<1> QED
  BY <1>1 DEF ModeIds

(* Which registers those are.                                                *)
LEMMA MeantRegisters ==
  /\ \A mode : DOMAIN Of(mode) = {"clock", "length", "window", "size", "binning"}
  /\ \A re : DOMAIN Meant(re) =
               {"clock", "length", "window", "size", "binning", "patternSize",
                "gain", "pattern", "exposureMsb", "exposureLsb", "on", "orient"}
  /\ \A mode, re : DOMAIN Of(mode) \subseteq Registers /\ DOMAIN Meant(re) \subseteq Registers
<1>1. \A mode : DOMAIN Of(mode) = {"clock", "length", "window", "size", "binning"}
  BY DEF Of
<1>2. \A re : DOMAIN Meant(re) =
                {"clock", "length", "window", "size", "binning", "patternSize",
                 "gain", "pattern", "exposureMsb", "exposureLsb", "on", "orient"}
  BY DEF Meant
<1> QED
  BY <1>1, <1>2, RegisterNames

LEMMA AtFirst == Init => BusInv
<1> SUFFICES ASSUME Init PROVE BusInv
  OBVIOUS
<1>1. /\ FullFrame \in ModeIds /\ FullFrame \in Nat /\ FullFrame < 65536
      /\ Modes \subseteq ModeIds
  BY SensorAssumption, TableNumbers
<1>2. /\ selected \in Modes \cup {NoMode}
      /\ gain \in [Modes -> Nat] /\ \A m \in Modes : gain[m] < 256
      /\ pattern \in [Modes -> 0..8]
  BY <1>1, TableNumbers DEF Init, SensorInit
<1>3. /\ reg = [mode |-> reg.mode, gain |-> reg.gain, exposure |-> reg.exposure,
                pattern |-> reg.pattern]
      /\ reg.mode = FullFrame /\ reg.exposure = FullFrame
  BY DEF Init, SensorInit, Configured
<1>4. IsBus(bus) /\ Listed(todo) /\ bus["on"] = 0 /\ todo = <<>> /\ lost = 0
  BY NoWrite, RegisterNames DEF Init, AfterReset, IsBus, Registers, Torn, Sleeping
<1>5. StreamInv
  <2>1. Len(todo) = 0 /\ ~After(bus, todo, 0, "on", 1)
    BY <1>4 DEF After
  <2> QED
    BY <2>1 DEF StreamInv
<1> QED
  BY <1>1, <1>2, <1>3, <1>4, <1>5 DEF Init, BusInv, DriverInv, HealInv

(* A write that arrives.                                                     *)
LEMMA ArrivalKeeps == BusInv /\ WriteRegister => BusInv'
<1> SUFFICES ASSUME BusInv, WriteRegister PROVE BusInv'
  OBVIOUS
<1>1. /\ IsBus(bus) /\ Listed(todo) /\ todo # <<>> /\ todo' = Tail(todo)
      /\ bus' = [bus EXCEPT ![Head(todo).r] = Head(todo).v]
      /\ UNCHANGED <<selected, gain, pattern, reg, found, lost, intact>>
  BY DEF BusInv, DriverInv, WriteRegister, sensorVars
<1>2. /\ IsBus(bus') /\ Listed(todo') /\ Len(todo') \in Nat /\ Len(todo) = Len(todo') + 1
      /\ \A v : \A n \in 0..Len(todo'), r \in Registers :
           After(bus', todo', n, r, v) <=> After(bus, todo, n + 1, r, v)
  <2>1. OneNearer(bus, todo, [bus EXCEPT ![Head(todo).r] = Head(todo).v], Tail(todo))
    BY <1>1, WritesMove
  <2>2. OneNearer(bus, todo, bus', todo')
    BY <1>1, <2>1
  <2> QED
    BY <2>2 DEF OneNearer
<1>3. found
  BY <1>1 DEF BusInv, DriverInv
<1>4. DriverInv'
  BY <1>1, <1>2, <1>3 DEF BusInv, DriverInv
<1>5. ASSUME NEW n \in 0..Len(todo'), NEW target, DOMAIN target \subseteq Registers
      PROVE  Puts(bus', todo', n, target) <=> Puts(bus, todo, n + 1, target)
  BY <1>2, <1>5 DEF Puts
<1>6. HealInv'
  <2>1. Len(todo') \in 0..Len(todo') /\ Len(todo') + 1 = Len(todo)
    BY <1>2
  <2>2. DOMAIN Meant(reg) \subseteq Registers
    BY MeantRegisters
  <2>3. Puts(bus', todo', Len(todo'), Meant(reg)) <=> Puts(bus, todo, Len(todo), Meant(reg))
    BY <1>5, <2>1, <2>2
  <2> QED
    BY <1>1, <2>3 DEF BusInv, HealInv
<1>7. StreamInv'
  <2> SUFFICES ASSUME lost = 0, NEW n \in 0..Len(todo'), After(bus', todo', n, "on", 1)
               PROVE  \E mode \in OneModes : Puts(bus', todo', n, Of(mode))
    BY <1>1 DEF StreamInv
  <2>1. n + 1 \in 0..Len(todo) /\ After(bus, todo, n + 1, "on", 1)
    BY <1>2, RegisterNames
  <2>2. PICK mode \in OneModes : Puts(bus, todo, n + 1, Of(mode))
    BY <2>1 DEF BusInv, StreamInv
  <2> QED
    BY <1>5, <2>2, MeantRegisters
<1> QED
  BY <1>4, <1>6, <1>7 DEF BusInv

(* A write that is lost: nothing is claimed until the next COMMIT.           *)
LEMMA LossKeeps == BusInv /\ LoseWrite => BusInv'
<1> SUFFICES ASSUME BusInv, LoseWrite PROVE BusInv'
  OBVIOUS
<1>1. /\ IsBus(bus) /\ Listed(todo) /\ todo # <<>> /\ todo' = Tail(todo)
      /\ \/ bus' = bus
         \/ bus' = [bus EXCEPT ![Head(todo).r] = Torn[Head(todo).r]]
      /\ UNCHANGED <<selected, gain, pattern, reg, found>>
      /\ lost \in Nat /\ lost' = lost + 1 /\ intact' = FALSE
  BY DEF BusInv, DriverInv, LoseWrite, sensorVars
<1>2. found /\ found'
  BY <1>1 DEF BusInv, DriverInv
<1>3. Listed(todo')
  <2>1. OneNearer(bus, todo, [bus EXCEPT ![Head(todo).r] = Head(todo).v], Tail(todo))
    BY <1>1, WritesMove
  <2> QED
    BY <1>1, <2>1 DEF OneNearer
<1>4. IsBus(bus')
  BY <1>1 DEF IsBus
<1>5. DriverInv'
  BY <1>1, <1>2, <1>3, <1>4 DEF BusInv, DriverInv
<1>6. HealInv' /\ StreamInv'
  BY <1>1 DEF HealInv, StreamInv
<1> QED
  BY <1>5, <1>6 DEF BusInv

(* Between two operations the registers are what is ahead.                   *)
LEMMA BetweenOperations ==
  ASSUME BusInv, todo = <<>>
  PROVE  /\ found /\ intact => \A r \in DOMAIN Meant(reg) : bus[r] = Meant(reg)[r]
         /\ lost = 0 /\ bus["on"] = 1 =>
              \E mode \in OneModes : \A r \in DOMAIN Of(mode) : bus[r] = Of(mode)[r]
<1>1. Len(todo) = 0 /\ 0 \in 0..Len(todo)
  OBVIOUS
<1>2. \A r, v : After(bus, todo, 0, r, v) <=> bus[r] = v
  BY DEF After
<1> QED
  BY <1>1, <1>2 DEF BusInv, HealInv, StreamInv, Puts

(* A list of writes that leaves the stream and the registers of the mode     *)
(* alone.                                                                    *)
LEMMA ModeLeftAlone ==
  ASSUME BusInv, todo = <<>>, UNCHANGED <<bus, lost>>,
         \A n \in 0..Len(todo') : \A r, v :
           r \in {"on", "clock", "length", "window", "size", "binning"} =>
             (After(bus, todo', n, r, v) <=> bus[r] = v)
  PROVE  StreamInv'
<1> SUFFICES ASSUME lost = 0, NEW n \in 0..Len(todo'), After(bus, todo', n, "on", 1)
             PROVE  \E mode \in OneModes : Puts(bus, todo', n, Of(mode))
  BY DEF StreamInv
<1>1. bus["on"] = 1
  OBVIOUS
<1>2. PICK mode \in OneModes : \A r \in DOMAIN Of(mode) : bus[r] = Of(mode)[r]
  BY <1>1, BetweenOperations
<1>3. \A r \in DOMAIN Of(mode) : After(bus, todo', n, r, Of(mode)[r])
  BY <1>2, MeantRegisters
<1> QED
  BY <1>3 DEF Puts

(* The brightness.                                                           *)
LEMMA BrightnessKeeps == BusInv /\ ChangeBrightness => BusInv'
<1> SUFFICES ASSUME BusInv, NEW g \in Gains,
                    Begins(<<Write("gain", g)>>), SetBrightness(g), UNCHANGED <<intact, asked>>
             PROVE  BusInv'
  BY DEF ChangeBrightness
<1>1. /\ g \in Nat /\ g < 256
      /\ found /\ todo = <<>> /\ todo' = <<Write("gain", g)>>
      /\ UNCHANGED <<found, bus, lost, intact, selected, pattern>>
      /\ gain' = StoreIn(gain, g) /\ reg' = [reg EXCEPT !.gain = g]
  BY SensorBusAssumption DEF Begins, SetBrightness
<1>2. /\ Listed(todo') /\ Len(todo') = 1
      /\ \A r, v : After(bus, todo', 0, r, v) <=> bus[r] = v
      /\ \A r, v : After(bus, todo', 1, r, v) <=> IF r = "gain" THEN v = g ELSE bus[r] = v
  <2>1. "gain" \in Registers
    BY RegisterNames
  <2> QED
    BY <1>1, <2>1, NoWrite, OneWrite
<1>3. DriverInv'
  <2>1. gain' \in [Modes -> Nat] /\ \A m \in Modes : gain'[m] < 256
    BY <1>1 DEF BusInv, DriverInv, StoreIn
  <2>2. reg' = [mode |-> reg.mode, gain |-> g, exposure |-> reg.exposure,
                pattern |-> reg.pattern]
    BY <1>1 DEF BusInv, DriverInv
  <2>3. /\ reg' = [mode |-> reg'.mode, gain |-> reg'.gain, exposure |-> reg'.exposure,
                   pattern |-> reg'.pattern]
        /\ reg'.mode = reg.mode /\ reg'.exposure = reg.exposure
    BY <2>2
  <2> QED
    BY <1>1, <1>2, <2>1, <2>3 DEF BusInv, DriverInv
<1>4. HealInv'
  <2> SUFFICES ASSUME intact PROVE Puts(bus, todo', 1, Meant(reg'))
    BY <1>1, <1>2 DEF HealInv
  <2>1. \A r \in DOMAIN Meant(reg) : bus[r] = Meant(reg)[r]
    BY <1>1, BetweenOperations
  <2>2. /\ reg'.mode = reg.mode /\ reg'.exposure = reg.exposure
        /\ reg'.pattern = reg.pattern /\ reg'.gain = g
    BY <1>1 DEF BusInv, DriverInv
  <2>3. \A r \in DOMAIN Meant(reg') :
          Meant(reg')[r] = IF r = "gain" THEN g ELSE Meant(reg)[r]
    BY <2>2 DEF Meant
  <2> QED
    BY <1>2, <2>1, <2>3, MeantRegisters DEF Puts
<1>5. StreamInv'
  BY <1>1, <1>2, ModeLeftAlone
<1> QED
  BY <1>3, <1>4, <1>5 DEF BusInv

(* The test pattern.                                                         *)
LEMMA PatternKeeps == BusInv /\ ChangePattern => BusInv'
<1> SUFFICES ASSUME BusInv, NEW p \in Patterns,
                    Begins(<<Write("pattern", p)>>), SetTestPattern(p),
                    UNCHANGED <<intact, asked>>
             PROVE  BusInv'
  BY DEF ChangePattern
<1>1. /\ p \in 0..8
      /\ found /\ todo = <<>> /\ todo' = <<Write("pattern", p)>>
      /\ UNCHANGED <<found, bus, lost, intact, selected, gain>>
      /\ pattern' = StoreIn(pattern, p) /\ reg' = [reg EXCEPT !.pattern = p]
  BY SensorBusAssumption DEF Begins, SetTestPattern
<1>2. /\ Listed(todo') /\ Len(todo') = 1
      /\ \A r, v : After(bus, todo', 0, r, v) <=> bus[r] = v
      /\ \A r, v : After(bus, todo', 1, r, v) <=> IF r = "pattern" THEN v = p ELSE bus[r] = v
  <2>1. "pattern" \in Registers
    BY RegisterNames
  <2> QED
    BY <1>1, <2>1, NoWrite, OneWrite
<1>3. DriverInv'
  <2>1. pattern' \in [Modes -> 0..8]
    BY <1>1 DEF BusInv, DriverInv, StoreIn
  <2>2. reg' = [mode |-> reg.mode, gain |-> reg.gain, exposure |-> reg.exposure,
                pattern |-> p]
    BY <1>1 DEF BusInv, DriverInv
  <2>3. /\ reg' = [mode |-> reg'.mode, gain |-> reg'.gain, exposure |-> reg'.exposure,
                   pattern |-> reg'.pattern]
        /\ reg'.mode = reg.mode /\ reg'.exposure = reg.exposure
    BY <2>2
  <2> QED
    BY <1>1, <1>2, <2>1, <2>3 DEF BusInv, DriverInv
<1>4. HealInv'
  <2> SUFFICES ASSUME intact PROVE Puts(bus, todo', 1, Meant(reg'))
    BY <1>1, <1>2 DEF HealInv
  <2>1. \A r \in DOMAIN Meant(reg) : bus[r] = Meant(reg)[r]
    BY <1>1, BetweenOperations
  <2>2. /\ reg'.mode = reg.mode /\ reg'.exposure = reg.exposure
        /\ reg'.pattern = p /\ reg'.gain = reg.gain
    BY <1>1 DEF BusInv, DriverInv
  <2>3. \A r \in DOMAIN Meant(reg') :
          Meant(reg')[r] = IF r = "pattern" THEN p ELSE Meant(reg)[r]
    BY <2>2 DEF Meant
  <2> QED
    BY <1>2, <2>1, <2>3, MeantRegisters DEF Puts
<1>5. StreamInv'
  BY <1>1, <1>2, ModeLeftAlone
<1> QED
  BY <1>3, <1>4, <1>5 DEF BusInv

(* The exposure, limited to that of the mode.                                *)
LEMMA ExposureKeeps == BusInv /\ ChangeExposure => BusInv'
<1> SUFFICES ASSUME BusInv, NEW v0 \in Exposures, NEW x \in Garbage,
                    Begins(ExposureWrites(Smaller(v0, Exposure(x)))), SetExposure(v0, x),
                    UNCHANGED <<intact, asked>>
             PROVE  BusInv'
  BY DEF ChangeExposure
<1> DEFINE e == Smaller(v0, Exposure(x))
<1>1. /\ found /\ todo = <<>> /\ todo' = ExposureWrites(e)
      /\ UNCHANGED <<found, bus, lost, intact, selected, gain, pattern>>
      /\ reg' = [reg EXCEPT !.exposure = e]
  BY DEF Begins, SetExposure, Limit
<1>2. e \in Nat /\ e < 65536
  <2>1. v0 \in Nat /\ v0 < 65536 /\ x \in Nat /\ x < 65536
    BY SensorBusAssumption, SensorAssumption
  <2>2. selected # NoMode => selected \in Nat
    BY SensorAssumption, TableNumbers DEF BusInv, DriverInv
  <2>3. Exposure(x) \in Nat
    BY <2>1, <2>2 DEF Exposure
  <2> QED
    BY <2>1, <2>3 DEF Smaller
<1> HIDE DEF e
<1>3. /\ Listed(todo') /\ Len(todo') = 2
      /\ \A n \in 1..2 : \A r, v :
           r \notin {"exposureMsb", "exposureLsb"} => (After(bus, todo', n, r, v) <=> bus[r] = v)
      /\ \A r, v : After(bus, todo', 0, r, v) <=> bus[r] = v
      /\ After(bus, todo', 2, "exposureMsb", (e \div 256) % 256)
      /\ After(bus, todo', 2, "exposureLsb", e % 256)
  BY <1>1, NoWrite, TwoWrites
<1>4. DriverInv'
  <2>1. reg' = [mode |-> reg.mode, gain |-> reg.gain, exposure |-> e,
                pattern |-> reg.pattern]
    BY <1>1 DEF BusInv, DriverInv
  <2> QED
    BY <1>1, <1>2, <1>3, <2>1 DEF BusInv, DriverInv
<1>5. HealInv'
  <2> SUFFICES ASSUME intact PROVE Puts(bus, todo', 2, Meant(reg'))
    BY <1>1, <1>3 DEF HealInv
  <2>1. \A r \in DOMAIN Meant(reg) : bus[r] = Meant(reg)[r]
    BY <1>1, BetweenOperations
  <2>2. /\ reg'.mode = reg.mode /\ reg'.exposure = e
        /\ reg'.pattern = reg.pattern /\ reg'.gain = reg.gain
    BY <1>1 DEF BusInv, DriverInv
  <2>3. /\ Meant(reg')["exposureMsb"] = (e \div 256) % 256
        /\ Meant(reg')["exposureLsb"] = e % 256
        /\ \A r \in DOMAIN Meant(reg') :
             r \notin {"exposureMsb", "exposureLsb"} => Meant(reg')[r] = Meant(reg)[r]
    BY <2>2 DEF Meant
  <2>4. \A r \in DOMAIN Meant(reg') :
          r \notin {"exposureMsb", "exposureLsb"} => After(bus, todo', 2, r, Meant(reg')[r])
    BY <1>3, <2>1, <2>3, MeantRegisters
  <2> QED
    BY <1>3, <2>3, <2>4 DEF Puts
<1>6. StreamInv'
  BY <1>1, <1>3, ModeLeftAlone
<1> QED
  BY <1>4, <1>5, <1>6 DEF BusInv

(* A COMMIT: a stream that is on before the writes, or after them, has the   *)
(* registers of one mode.                                                    *)
LEMMA CommitKeeps == BusInv /\ Commit => BusInv'
<1> SUFFICES ASSUME BusInv, NEW s \in Settings, NEW x \in Garbage,
                    HandleUvcControl(ModeOf(s), x), Begins(ModeWrites(x)), intact' = TRUE
             PROVE  BusInv'
  BY DEF Commit
<1> DEFINE m == IF selected' = NoMode THEN x ELSE selected'
           g == IF selected' = NoMode THEN x % 256 ELSE gain[selected']
           p == IF selected' = NoMode THEN x % 256 ELSE pattern[selected']
<1>1. /\ found /\ todo = <<>> /\ todo' = ConfigureWrites(m, g, p)
      /\ UNCHANGED <<found, bus, lost, gain, pattern>>
      /\ reg' = Configured(m, g, p)
      /\ selected' = ModeAfterCommit(ModeOf(s))
  BY DEF Begins, ModeWrites, HandleUvcControl, ConfigureMode
<1>2. selected' \in Modes \cup {NoMode}
  BY <1>1 DEF ModeAfterCommit, BusInv, DriverInv
<1>3. x \in Nat /\ x < 65536 /\ x % 256 \in Nat /\ x % 256 < 256
  BY SensorAssumption
<1>4. m \in ModeIds \cup Garbage /\ m \in Nat /\ m < 65536
  BY <1>2, <1>3, SensorAssumption, TableNumbers
<1>5. g \in Nat /\ g < 256
  BY <1>2, <1>3 DEF BusInv, DriverInv
<1>6. g % 256 = g
  BY <1>5
<1> HIDE DEF m, g, p
<1> DEFINE w == todo'
<1>7. /\ Listed(w) /\ Len(w) = 13 /\ w[1].r = "orient" /\ w[2].r = "on"
      /\ \A v : \A n \in 0..1, r \in Registers \ {"orient"} : After(bus, w, n, r, v) <=> bus[r] = v
      /\ \A n \in 2..12 : ~After(bus, w, n, "on", 1)
      /\ Puts(bus, w, 13, Of(Pointed(m))) /\ Puts(bus, w, 13, Meant(Configured(m, g, p)))
  BY <1>1, <1>6, Configures
<1>8. DriverInv'
  <2>1. reg' = [mode |-> m, gain |-> g, exposure |-> m, pattern |-> IF p < 8 THEN p ELSE 0]
    BY <1>1 DEF Configured
  <2> QED
    BY <1>1, <1>2, <1>4, <1>7, <2>1 DEF BusInv, DriverInv
<1>9. HealInv'
  BY <1>1, <1>7 DEF HealInv
<1>10. StreamInv'
  <2> SUFFICES ASSUME lost = 0, NEW n \in 0..13, After(bus, w, n, "on", 1)
               PROVE  \E mode \in OneModes : Puts(bus, w, n, Of(mode))
    BY <1>1, <1>7 DEF StreamInv
  <2>1. CASE n \in 0..1
    <3>1. bus["on"] = 1
      BY <1>7, <2>1, RegisterNames
    <3>2. PICK mode \in OneModes : \A r \in DOMAIN Of(mode) : bus[r] = Of(mode)[r]
      BY <1>1, <3>1, BetweenOperations
    <3>3. \A r \in DOMAIN Of(mode) : r \in Registers \ {"orient"}
      BY MeantRegisters
    <3> QED
      BY <1>7, <2>1, <3>2, <3>3 DEF Puts
  <2>2. CASE n \in 2..12
    BY <1>7, <2>2
  <2>3. CASE n = 13
    BY <1>4, <1>7, <2>3 DEF OneModes
  <2> QED
    BY <2>1, <2>2, <2>3
<1> QED
  BY <1>8, <1>9, <1>10 DEF BusInv

(* The sensor is looked for and, if it is found, put to the defaults and then*)
(* to the full frame mode.                                                   *)
LEMMA FindKeeps == BusInv /\ Find => BusInv'
<1> SUFFICES ASSUME BusInv, Find PROVE BusInv'
  OBVIOUS
<1> DEFINE u == DefaultWrites
           c == ConfigureWrites(FullFrame, gain[FullFrame], pattern[FullFrame])
<1>1. /\ ~found /\ found' = TRUE /\ lost \in Nat /\ lost' \in Nat
      /\ lost' = lost \/ lost' = lost + 1
      /\ \/ todo' = u \o c
         \/ lost' > lost /\ todo' = todo /\ intact' = FALSE
      /\ UNCHANGED <<selected, gain, pattern, reg, bus>>
      /\ SensorInit /\ bus = AfterReset /\ todo = <<>> /\ intact = FALSE
  BY DEF Find, sensorVars, BusInv, DriverInv
<1> HIDE DEF u, c
<1>2. CASE lost' > lost /\ todo' = todo /\ intact' = FALSE
  <2>1. lost' # 0
    BY <1>1, <1>2
  <2>2. DriverInv'
    BY <1>1, <1>2 DEF BusInv, DriverInv
  <2> QED
    BY <1>2, <2>1, <2>2 DEF BusInv, HealInv, StreamInv
<1>3. CASE todo' = u \o c
  <2>1. /\ FullFrame \in ModeIds
        /\ reg = Configured(FullFrame, gain[FullFrame], pattern[FullFrame])
        /\ gain[FullFrame] % 256 = gain[FullFrame]
    <3>1. FullFrame \in Modes /\ FullFrame \in ModeIds
      BY SensorAssumption
    <3>2. /\ gain[FullFrame] = SensorConfig[FullFrame].gain /\ pattern[FullFrame] = 0
          /\ reg = Configured(FullFrame, SensorConfig[FullFrame].gain, 0)
      BY <1>1, <3>1 DEF SensorInit
    <3>3. gain[FullFrame] \in Nat /\ gain[FullFrame] < 256
      BY <3>1 DEF BusInv, DriverInv
    <3> QED
      BY <3>1, <3>2, <3>3
  <2>2. bus["on"] = 0
    BY <1>1, RegisterNames DEF AfterReset, Registers, Torn, Sleeping
  <2>3. /\ Listed(u) /\ Len(u) = 13
        /\ \A n \in 0..12 : ~After(bus, u, n, "on", 1)
        /\ Puts(bus, u, 13, Of(DefaultMode))
    BY <2>2, Defaults DEF u
  <2>4. /\ Listed(c) /\ Len(c) = 13 /\ c[1].r = "orient" /\ c[2].r = "on"
        /\ \A n \in 2..12 : ~After(bus, c, n, "on", 1)
        /\ \A r \in DOMAIN Of(Pointed(FullFrame)) : \E j \in 1..13 : c[j].r = r
        /\ \A r \in DOMAIN Meant(reg) : \E j \in 1..13 : c[j].r = r
        /\ Puts(bus, c, 13, Of(Pointed(FullFrame))) /\ Puts(bus, c, 13, Meant(reg))
    BY <2>1, Configures DEF c
  <2>5. /\ Listed(todo') /\ Len(todo') = 26
        /\ \A v, r : \A n \in 0..13 : After(bus, todo', n, r, v) <=> After(bus, u, n, r, v)
        /\ \A v, r : \A n \in 0..13 :
             IF \E j \in 1..n : c[j].r = r
             THEN After(bus, todo', 13 + n, r, v) <=> After(bus, c, n, r, v)
             ELSE After(bus, todo', 13 + n, r, v) <=> After(bus, u, 13, r, v)
    <3>1. /\ Listed(u \o c) /\ Len(u \o c) = Len(u) + Len(c)
          /\ \A v, r : \A n \in 0..Len(u) :
               After(bus, u \o c, n, r, v) <=> After(bus, u, n, r, v)
          /\ \A v, r : \A n \in 0..Len(c) :
               IF \E j \in 1..n : c[j].r = r
               THEN After(bus, u \o c, Len(u) + n, r, v) <=> After(bus, c, n, r, v)
               ELSE After(bus, u \o c, Len(u) + n, r, v) <=> After(bus, u, Len(u), r, v)
      BY <2>3, <2>4, Joined
    <3>2. Len(u) = 13 /\ Len(c) = 13 /\ u \o c = todo'
      BY <1>3, <2>3, <2>4
    <3> QED
      BY <3>1, <3>2
  <2>6. DriverInv'
    <3>1. IsBus(bus)' /\ Listed(todo)' /\ found' /\ lost' \in Nat
      BY <1>1, <2>5 DEF BusInv, DriverInv
    <3> QED
      BY <1>1, <3>1 DEF BusInv, DriverInv
  <2>7. ASSUME NEW target, Puts(bus, c, 13, target),
               \A r \in DOMAIN target : \E j \in 1..13 : c[j].r = r
        PROVE  Puts(bus, todo', 26, target)
    <3>1. \A v, r : (\E j \in 1..13 : c[j].r = r) =>
            (After(bus, todo', 26, r, v) <=> After(bus, c, 13, r, v))
      <4>1. 13 \in 0..13 /\ 13 + 13 = 26
        OBVIOUS
      <4> QED
        BY <2>5, <4>1
    <3> QED
      BY <2>7, <3>1 DEF Puts
  <2>8. HealInv'
    BY <1>1, <2>4, <2>5, <2>7 DEF HealInv
  <2>9. StreamInv'
    <3> SUFFICES ASSUME NEW n \in 0..26, After(bus, todo', n, "on", 1)
                 PROVE  \E mode \in OneModes : Puts(bus, todo', n, Of(mode))
      BY <1>1, <2>5 DEF StreamInv
    <3>1. CASE n \in 0..12
      BY <2>3, <2>5, <3>1
    <3>2. CASE n \in 13..14
      <4>1. n - 13 \in 0..1 /\ 13 + (n - 13) = n /\ n - 13 \in 0..13
        BY <3>2
      <4>2. \A r \in DOMAIN Of(DefaultMode) : ~\E j \in 1..(n - 13) : c[j].r = r
        BY <2>4, <4>1, MeantRegisters
      <4>3. \A r \in DOMAIN Of(DefaultMode) : \A v :
              After(bus, todo', n, r, v) <=> After(bus, u, 13, r, v)
        BY <2>5, <4>1, <4>2
      <4> QED
        BY <2>3, <4>3 DEF Puts, OneModes
    <3>3. CASE n \in 15..25
      <4>1. n - 13 \in 2..12 /\ 13 + (n - 13) = n /\ n - 13 \in 0..13 /\ 2 \in 1..(n - 13)
        BY <3>3
      <4>2. After(bus, todo', n, "on", 1) <=> After(bus, c, n - 13, "on", 1)
        BY <2>4, <2>5, <4>1
      <4> QED
        BY <2>4, <4>1, <4>2
    <3>4. CASE n = 26
      <4>1. Puts(bus, todo', 26, Of(Pointed(FullFrame)))
        BY <2>4, <2>7
      <4> QED
        BY <2>1, <3>4, <4>1 DEF OneModes
    <3> QED
      BY <3>1, <3>2, <3>3, <3>4
  <2> QED
    BY <2>6, <2>8, <2>9 DEF BusInv
<1> QED
  BY <1>1, <1>2, <1>3

(* Nothing happens.                                                          *)
LEMMA StutterKeeps == BusInv /\ UNCHANGED vars => BusInv'
  BY DEF BusInv, DriverInv, HealInv, StreamInv, SensorInit, vars, sensorVars, busVars

(* The invariant is one of the specification.                                *)
THEOREM BusInvariant == Spec => []BusInv
<1>1. Init => BusInv
  BY AtFirst
<1>2. BusInv /\ [Next]_vars => BusInv'
  BY FindKeeps, ArrivalKeeps, LossKeeps, CommitKeeps, BrightnessKeeps, ExposureKeeps,
     PatternKeeps, StutterKeeps DEF Next, Operation
<1> QED
  BY <1>1, <1>2, PTL DEF Spec

(* Once no write is left the registers are what the driver means.            *)
LEMMA BusInvHeals == BusInv => CommitHeals
<1> SUFFICES ASSUME BusInv, found, todo = <<>>, intact
             PROVE  /\ OfOneMode(Pointed(reg.mode)) /\ bus.patternSize = bus.size
                    /\ bus.gain = reg.gain /\ bus.pattern = reg.pattern
                    /\ ExposureOnBus = reg.exposure
                    /\ bus.on = 1 /\ bus.orient = 3
  BY DEF CommitHeals
<1>1. \A r \in DOMAIN Meant(reg) : bus[r] = Meant(reg)[r]
  BY BetweenOperations
<1> DEFINE mode == Pointed(reg.mode)
<1>2. /\ bus.clock = mode.clock /\ bus.length = <<LineLength, mode.lines>>
      /\ bus.window = mode.window /\ bus.size = mode.size
      /\ bus.binning = (IF mode.binning = 2 THEN 3 ELSE 0)
      /\ bus.patternSize = mode.size /\ bus.gain = reg.gain /\ bus.pattern = reg.pattern
      /\ bus.on = 1 /\ bus.orient = 3
      /\ bus.exposureMsb = (reg.exposure \div 256) % 256
      /\ bus.exposureLsb = reg.exposure % 256
  BY <1>1, MeantRegisters DEF Meant
<1>3. ExposureOnBus = reg.exposure
  <2>1. reg.exposure \in Nat /\ reg.exposure < 65536
    BY DEF BusInv, DriverInv
  <2> QED
    BY <1>2, <2>1 DEF ExposureOnBus
<1> QED
  BY <1>2, <1>3 DEF OfOneMode

(* Whatever was lost before, a COMMIT whose writes all arrive puts the sensor*)
(* right, and it stays so while they all arrive: sensor_configure_mode writes*)
(* every register that depends on the mode.                                  *)
THEOREM Healing == Spec => []CommitHeals
  BY BusInvariant, BusInvHeals, PTL

(* On a bus that loses nothing the sensor never streams with the registers of*)
(* two modes: sensor_configure_mode stops the stream first and starts it     *)
(* last, and so does the table sent at the start.                            *)
THEOREM OneModeStreams == Spec => []StreamsOneMode
<1>1. BusInv => StreamsOneMode
  <2> SUFFICES ASSUME BusInv, lost = 0, bus["on"] = 1
               PROVE  \E m \in ModeIds \cup Garbage :
                        OfOneMode(Pointed(m)) \/ OfOneMode(DefaultMode)
    BY DEF StreamsOneMode
  <2>1. Len(todo) \in Nat /\ 0 \in 0..Len(todo)
    BY DEF BusInv, DriverInv, Listed
  <2>2. \A r, v : After(bus, todo, 0, r, v) <=> bus[r] = v
    BY DEF After
  <2>3. PICK mode \in OneModes : Puts(bus, todo, 0, Of(mode))
    BY <2>1, <2>2 DEF BusInv, StreamInv
  <2>4. OfOneMode(mode)
    BY <2>2, <2>3, OfItsMode DEF Puts
  <2> QED
    BY <2>3, <2>4, SensorAssumption DEF OneModes
<1> QED
  BY <1>1, BusInvariant, PTL

-----------------------------------------------------------------------------
(* What the SuperSpeed descriptors offer.                                    *)
Elements(s) == {s[i] : i \in DOMAIN s}

(* One sequence after another has the elements of both.                      *)
LEMMA ElementsJoined ==
  ASSUME NEW S, NEW r \in Seq(S), NEW s \in Seq(S)
  PROVE  r \o s \in Seq(S) /\ Elements(r \o s) = Elements(r) \cup Elements(s)
<1>1. /\ r \o s \in Seq(S) /\ Len(r) \in Nat /\ Len(s) \in Nat
      /\ DOMAIN r = 1..Len(r) /\ DOMAIN s = 1..Len(s)
      /\ DOMAIN (r \o s) = 1..(Len(r) + Len(s))
  OBVIOUS
<1>2. /\ \A i \in DOMAIN r : i \in DOMAIN (r \o s) /\ (r \o s)[i] = r[i]
      /\ \A i \in DOMAIN s : Len(r) + i \in DOMAIN (r \o s) /\ (r \o s)[Len(r) + i] = s[i]
  BY <1>1
<1>3. \A i \in DOMAIN (r \o s) : (r \o s)[i] \in Elements(r) \cup Elements(s)
  <2> TAKE i \in DOMAIN (r \o s)
  <2>1. CASE i <= Len(r)
    BY <1>1, <2>1 DEF Elements
  <2>2. CASE ~(i <= Len(r))
    <3>1. i - Len(r) \in DOMAIN s /\ (r \o s)[i] = s[i - Len(r)]
      BY <1>1, <2>2
    <3> QED
      BY <3>1 DEF Elements
  <2> QED
    BY <2>1, <2>2
<1> DEFINE both == r \o s
<1>4. /\ \A i \in DOMAIN r : \E j \in DOMAIN both : both[j] = r[i]
      /\ \A i \in DOMAIN s : \E j \in DOMAIN both : both[j] = s[i]
  BY <1>2
<1>5. \A i \in DOMAIN both : both[i] \in Elements(r) \cup Elements(s)
  BY <1>3
<1> HIDE DEF both
<1>6. Elements(both) = Elements(r) \cup Elements(s)
  BY <1>4, <1>5 DEF Elements
<1> QED
  BY <1>1, <1>6 DEF both

(* The frames a host finds are those of the array.                           *)
LEMMA FramesFound == Frames(SSConfigDscr) = Elements(SSFrames)
<1> DEFINE front == <<Config(384)>>
           control == VideoControl(SSControls)
           between == <<Companion, ClassEndpoint>>
           header == <<Interface(1), StreamHeader(1, 237), Format(6)>>
           last == <<Endpoint(Video), Companion>>
           S == UNION {Elements(front), Elements(control), Elements(between),
                       Elements(header), Elements(SSFrames), Elements(last)}
<1>1. SSConfigDscr = front \o control \o between \o (header \o SSFrames \o last)
  BY DEF SSConfigDscr, SSStreaming
<1>2. /\ front \in Seq(S) /\ between \in Seq(S) /\ header \in Seq(S) /\ last \in Seq(S)
      /\ control \in Seq(S) /\ SSFrames \in Seq(S)
  BY DEF VideoControl, SSFrames, Elements
<1>3. /\ \A d \in Elements(front) : d.kind # "frame"
      /\ \A d \in Elements(between) : d.kind # "frame"
      /\ \A d \in Elements(header) : d.kind # "frame"
      /\ \A d \in Elements(last) : d.kind # "frame"
  BY DEF Elements, Config, Companion, ClassEndpoint, Plain, Interface, StreamHeader, Format,
         Endpoint
<1>4. \A d \in Elements(control) : d.kind # "frame"
  BY DEF Elements, VideoControl, Association, Plain, Interface, ControlHeader,
         InputTerminalDscr, ProcessingUnitDscr, ExtensionUnitDscr, OutputTerminalDscr,
         Entity, Endpoint
<1>5. \A d \in Elements(SSFrames) : d.kind = "frame"
  BY DEF Elements, SSFrames, FrameDescriptor
<1> HIDE DEF front, control, between, header, last, S
<1>6. Elements(SSConfigDscr) =
        UNION {Elements(front), Elements(control), Elements(between),
               Elements(header), Elements(SSFrames), Elements(last)}
  <2> DEFINE u == front \o control
             v == u \o between
             x == header \o SSFrames
             y == x \o last
  <2>1. u \in Seq(S) /\ Elements(u) = Elements(front) \cup Elements(control)
    BY <1>2, ElementsJoined
  <2>2. x \in Seq(S) /\ Elements(x) = Elements(header) \cup Elements(SSFrames)
    BY <1>2, ElementsJoined
  <2>3. SSConfigDscr = v \o y
    BY <1>1
  <2> HIDE DEF u, x
  <2>4. v \in Seq(S) /\ Elements(v) = Elements(u) \cup Elements(between)
    BY <1>2, <2>1, ElementsJoined
  <2>5. y \in Seq(S) /\ Elements(y) = Elements(x) \cup Elements(last)
    BY <1>2, <2>2, ElementsJoined
  <2> HIDE DEF v, y
  <2>6. Elements(SSConfigDscr) = Elements(v) \cup Elements(y)
    BY <2>3, <2>4, <2>5, ElementsJoined
  <2> QED
    BY <2>1, <2>2, <2>4, <2>5, <2>6
<1>7. Seen(SSConfigDscr) = Elements(SSConfigDscr)
  BY DescriptorsConsistent DEF Consistent, Elements
<1> QED
  BY <1>3, <1>4, <1>5, <1>6, <1>7 DEF Frames, OfKind

(* A frame as the host finds it.                                             *)
IsFrame(d, index, width, height) ==
  d.index = index /\ d.width = width /\ d.height = height

(* The six frames, and the intervals of each.                                *)
LEMMA FrameTable ==
  /\ DOMAIN SSFrames = 1..6
  /\ IsFrame(SSFrames[1], 1, 640, 480)
  /\ IsFrame(SSFrames[2], 2, 1280, 720)
  /\ IsFrame(SSFrames[3], 3, 1920, 1080)
  /\ IsFrame(SSFrames[4], 4, 3280, 2462)
  /\ IsFrame(SSFrames[5], 5, 640, 126)
  /\ IsFrame(SSFrames[6], 6, 640, 78)
  /\ SSFrames[1].intervals = {Interval(200), Interval(30)}
  /\ SSFrames[2].intervals = {Interval(120), Interval(60), Interval(30)}
  /\ SSFrames[3].intervals = {Interval(60), Interval(30)}
  /\ SSFrames[4].intervals = {Interval(15)}
  /\ SSFrames[5].intervals = {Interval(682)}
  /\ SSFrames[6].intervals = {Interval(1000)}
<1>1. /\ SSFrames[1] = FrameDescriptor(34, VGA, 640, 480, <<200, 30>>)
      /\ SSFrames[2] = FrameDescriptor(38, HD, 1280, 720, <<120, 60, 30>>)
      /\ SSFrames[3] = FrameDescriptor(34, FULL_HD, 1920, 1080, <<60, 30>>)
      /\ SSFrames[4] = FrameDescriptor(30, FULL_FRAME, 3280, 2462, <<15>>)
      /\ SSFrames[5] = FrameDescriptor(30, STRIP_128, 640, 126, <<682>>)
      /\ SSFrames[6] = FrameDescriptor(30, STRIP_80, 640, 78, <<1000>>)
      /\ DOMAIN SSFrames = 1..6
  BY DEF SSFrames
<1>2. ASSUME NEW len, NEW index, NEW width, NEW height, NEW rates, NEW d,
             d = FrameDescriptor(len, index, width, height, rates)
      PROVE  /\ IsFrame(d, index, width, height)
             /\ d.intervals = {Interval(rates[i]) : i \in DOMAIN rates}
  BY <1>2 DEF FrameDescriptor, IsFrame
<1>3. /\ IsFrame(SSFrames[1], 1, 640, 480) /\ IsFrame(SSFrames[2], 2, 1280, 720)
      /\ IsFrame(SSFrames[3], 3, 1920, 1080) /\ IsFrame(SSFrames[4], 4, 3280, 2462)
      /\ IsFrame(SSFrames[5], 5, 640, 126) /\ IsFrame(SSFrames[6], 6, 640, 78)
  BY <1>1, <1>2 DEF VGA, HD, FULL_HD, FULL_FRAME, STRIP_128, STRIP_80
<1>4. ASSUME NEW a PROVE {Interval(<<a>>[i]) : i \in DOMAIN <<a>>} = {Interval(a)}
  OBVIOUS
<1>5. ASSUME NEW a, NEW b
      PROVE  {Interval(<<a, b>>[i]) : i \in DOMAIN <<a, b>>} = {Interval(a), Interval(b)}
  <2>1. DOMAIN <<a, b>> = {1, 2} /\ <<a, b>>[1] = a /\ <<a, b>>[2] = b
    OBVIOUS
  <2> QED
    BY <2>1
<1>6. ASSUME NEW a, NEW b, NEW c
      PROVE  {Interval(<<a, b, c>>[i]) : i \in DOMAIN <<a, b, c>>}
               = {Interval(a), Interval(b), Interval(c)}
  <2>1. /\ DOMAIN <<a, b, c>> = {1, 2, 3} /\ <<a, b, c>>[1] = a /\ <<a, b, c>>[2] = b
        /\ <<a, b, c>>[3] = c
    OBVIOUS
  <2> QED
    BY <2>1
<1>7. /\ SSFrames[1].intervals = {Interval(200), Interval(30)}
      /\ SSFrames[2].intervals = {Interval(120), Interval(60), Interval(30)}
      /\ SSFrames[3].intervals = {Interval(60), Interval(30)}
      /\ SSFrames[4].intervals = {Interval(15)}
      /\ SSFrames[5].intervals = {Interval(682)}
      /\ SSFrames[6].intervals = {Interval(1000)}
  BY <1>1, <1>2, <1>4, <1>5, <1>6
<1> QED
  BY <1>1, <1>3, <1>7

(* The intervals, in units of 100 ns.                                        *)
LEMMA Intervals ==
  /\ Interval(15) = 666666 /\ Interval(30) = 333333 /\ Interval(60) = 166666
  /\ Interval(120) = 83333 /\ Interval(200) = 50000 /\ Interval(682) = 14662
  /\ Interval(1000) = 10000
  BY DEF Interval

(* The settings are these.                                                   *)
LEMMA SettingsOffered ==
  SuperSpeed = {Setting(VGA, 30), Setting(VGA, 200), Setting(HD, 30), Setting(HD, 60),
                Setting(HD, 120), Setting(FULL_HD, 30), Setting(FULL_HD, 60),
                Setting(FULL_FRAME, 15), Setting(STRIP_128, 682), Setting(STRIP_80, 1000)}
<1> DEFINE Of1(d) == {[frame |-> d.index, interval |-> i] : i \in d.intervals}
           Here == Of1(SSFrames[1]) \cup Of1(SSFrames[2]) \cup Of1(SSFrames[3])
                   \cup Of1(SSFrames[4]) \cup Of1(SSFrames[5]) \cup Of1(SSFrames[6])
<1>1. SuperSpeed = UNION {Of1(d) : d \in Elements(SSFrames)}
  BY FramesFound DEF SuperSpeed, Offered
<1>2. Elements(SSFrames) = {SSFrames[1], SSFrames[2], SSFrames[3], SSFrames[4], SSFrames[5],
                            SSFrames[6]}
  BY FrameTable DEF Elements
<1>3. /\ Of1(SSFrames[1]) = {Setting(VGA, 200), Setting(VGA, 30)}
      /\ Of1(SSFrames[2]) = {Setting(HD, 120), Setting(HD, 60), Setting(HD, 30)}
      /\ Of1(SSFrames[3]) = {Setting(FULL_HD, 60), Setting(FULL_HD, 30)}
      /\ Of1(SSFrames[4]) = {Setting(FULL_FRAME, 15)}
      /\ Of1(SSFrames[5]) = {Setting(STRIP_128, 682)}
      /\ Of1(SSFrames[6]) = {Setting(STRIP_80, 1000)}
  BY FrameTable
     DEF IsFrame, Setting, VGA, HD, FULL_HD, FULL_FRAME, STRIP_128, STRIP_80
<1> HIDE DEF Of1
<1>4. UNION {Of1(d) : d \in Elements(SSFrames)} = Here
  BY <1>2
<1> QED
  BY <1>1, <1>3, <1>4

(* The frame a host expects is the one with the index it committed.          *)
LEMMA FrameExpected ==
  \A s \in SuperSpeed, k \in 1..6 : s.frame = k => SuperSpeedFrame[s] = SSFrames[k]
<1> SUFFICES ASSUME NEW s \in SuperSpeed, NEW k \in 1..6, s.frame = k
             PROVE  SuperSpeedFrame[s] = SSFrames[k]
  OBVIOUS
<1>1. SuperSpeedFrame[s] = CHOOSE d \in Elements(SSFrames) : d.index = k
  BY FramesFound DEF SuperSpeedFrame
<1>2. \A j \in 1..6 : SSFrames[j].index = j
  BY FrameTable DEF IsFrame
<1>3. \A d \in Elements(SSFrames) : d.index = k <=> d = SSFrames[k]
  BY <1>2, FrameTable DEF Elements
<1>4. SSFrames[k] \in Elements(SSFrames)
  BY FrameTable DEF Elements
<1> QED
  BY <1>1, <1>3, <1>4

(* What the sensor puts out in mode m is a frame of this size, in this time. *)
PutsOut(m, width, lines, time) ==
  /\ SensorConfig[m].size = <<width, lines>>
  /\ FrameTime(SensorConfig[m].clock, <<LineLength, SensorConfig[m].lines>>) = time
  /\ m <= SensorConfig[m].lines - 4

(* The times follow from the clocks and the lengths in the table.            *)
LEMMA ModeTable ==
  /\ PutsOut(3205, 640, 482, 333272)
  /\ PutsOut(477, 640, 482, 49954)
  /\ PutsOut(3392, 1280, 722, 333241)
  /\ PutsOut(1697, 1280, 722, 166620)
  /\ PutsOut(846, 1280, 722, 83261)
  /\ PutsOut(2470, 1920, 1082, 333216)
  /\ PutsOut(1233, 1920, 1082, 166608)
  /\ PutsOut(3027, 3280, 2464, 666510)
  /\ PutsOut(137, 640, 128, 14643)
  /\ PutsOut(92, 640, 80, 9970)
<1>1. PutsOut(3205, 640, 482, 333272)
  <2>1. /\ SensorConfig[3205].clock = <<83, 4>> /\ SensorConfig[3205].lines = 3209
        /\ SensorConfig[3205].size = <<640, 482>>
    BY DEF SensorConfig, ModeIds, Mode
  <2>2. FrameTime(<<83, 4>>, <<LineLength, 3209>>) = 333272
    BY DEF FrameTime, LineLength
  <2> QED
    BY <2>1, <2>2 DEF PutsOut
<1>2. PutsOut(477, 640, 482, 49954)
  <2>1. /\ SensorConfig[477].clock = <<83, 4>> /\ SensorConfig[477].lines = 481
        /\ SensorConfig[477].size = <<640, 482>>
    BY DEF SensorConfig, ModeIds, Mode
  <2>2. FrameTime(<<83, 4>>, <<LineLength, 481>>) = 49954
    BY DEF FrameTime, LineLength
  <2> QED
    BY <2>1, <2>2 DEF PutsOut
<1>3. PutsOut(3392, 1280, 722, 333241)
  <2>1. /\ SensorConfig[3392].clock = <<88, 4>> /\ SensorConfig[3392].lines = 3402
        /\ SensorConfig[3392].size = <<1280, 722>>
    BY DEF SensorConfig, ModeIds, Mode
  <2>2. FrameTime(<<88, 4>>, <<LineLength, 3402>>) = 333241
    BY DEF FrameTime, LineLength
  <2> QED
    BY <2>1, <2>2 DEF PutsOut
<1>4. PutsOut(1697, 1280, 722, 166620)
  <2>1. /\ SensorConfig[1697].clock = <<88, 4>> /\ SensorConfig[1697].lines = 1701
        /\ SensorConfig[1697].size = <<1280, 722>>
    BY DEF SensorConfig, ModeIds, Mode
  <2>2. FrameTime(<<88, 4>>, <<LineLength, 1701>>) = 166620
    BY DEF FrameTime, LineLength
  <2> QED
    BY <2>1, <2>2 DEF PutsOut
<1>5. PutsOut(846, 1280, 722, 83261)
  <2>1. /\ SensorConfig[846].clock = <<88, 4>> /\ SensorConfig[846].lines = 850
        /\ SensorConfig[846].size = <<1280, 722>>
    BY DEF SensorConfig, ModeIds, Mode
  <2>2. FrameTime(<<88, 4>>, <<LineLength, 850>>) = 83261
    BY DEF FrameTime, LineLength
  <2> QED
    BY <2>1, <2>2 DEF PutsOut
<1>6. PutsOut(2470, 1920, 1082, 333216)
  <2>1. /\ SensorConfig[2470].clock = <<80, 5>> /\ SensorConfig[2470].lines = 2474
        /\ SensorConfig[2470].size = <<1920, 1082>>
    BY DEF SensorConfig, ModeIds, Mode
  <2>2. FrameTime(<<80, 5>>, <<LineLength, 2474>>) = 333216
    BY DEF FrameTime, LineLength
  <2> QED
    BY <2>1, <2>2 DEF PutsOut
<1>7. PutsOut(1233, 1920, 1082, 166608)
  <2>1. /\ SensorConfig[1233].clock = <<80, 5>> /\ SensorConfig[1233].lines = 1237
        /\ SensorConfig[1233].size = <<1920, 1082>>
    BY DEF SensorConfig, ModeIds, Mode
  <2>2. FrameTime(<<80, 5>>, <<LineLength, 1237>>) = 166608
    BY DEF FrameTime, LineLength
  <2> QED
    BY <2>1, <2>2 DEF PutsOut
<1>8. PutsOut(3027, 3280, 2464, 666510)
  <2>1. /\ SensorConfig[3027].clock = <<49, 5>> /\ SensorConfig[3027].lines = 3031
        /\ SensorConfig[3027].size = <<3280, 2464>>
    BY DEF SensorConfig, ModeIds, Mode
  <2>2. FrameTime(<<49, 5>>, <<LineLength, 3031>>) = 666510
    BY DEF FrameTime, LineLength
  <2> QED
    BY <2>1, <2>2 DEF PutsOut
<1>9. PutsOut(137, 640, 128, 14643)
  <2>1. /\ SensorConfig[137].clock = <<83, 4>> /\ SensorConfig[137].lines = 141
        /\ SensorConfig[137].size = <<640, 128>>
    BY DEF SensorConfig, ModeIds, Mode
  <2>2. FrameTime(<<83, 4>>, <<LineLength, 141>>) = 14643
    BY DEF FrameTime, LineLength
  <2> QED
    BY <2>1, <2>2 DEF PutsOut
<1>10. PutsOut(92, 640, 80, 9970)
  <2>1. /\ SensorConfig[92].clock = <<83, 4>> /\ SensorConfig[92].lines = 96
        /\ SensorConfig[92].size = <<640, 80>>
    BY DEF SensorConfig, ModeIds, Mode
  <2>2. FrameTime(<<83, 4>>, <<LineLength, 96>>) = 9970
    BY DEF FrameTime, LineLength
  <2> QED
    BY <2>1, <2>2 DEF PutsOut
<1> QED
  BY <1>1, <1>2, <1>3, <1>4, <1>5, <1>6, <1>7, <1>8, <1>9, <1>10

(* The mode a COMMIT of each setting selects.                                *)
LEMMA ModeTaken ==
  /\ ModeOf(Setting(VGA, 30)) = 3205
  /\ ModeOf(Setting(VGA, 200)) = 477
  /\ ModeOf(Setting(HD, 30)) = 3392
  /\ ModeOf(Setting(HD, 60)) = 1697
  /\ ModeOf(Setting(HD, 120)) = 846
  /\ ModeOf(Setting(FULL_HD, 30)) = 2470
  /\ ModeOf(Setting(FULL_HD, 60)) = 1233
  /\ ModeOf(Setting(FULL_FRAME, 15)) = 3027
  /\ ModeOf(Setting(STRIP_128, 682)) = 137
  /\ ModeOf(Setting(STRIP_80, 1000)) = 92
  BY Intervals DEF ModeOf, Setting, VGA, HD, FULL_HD, FULL_FRAME, STRIP_128, STRIP_80

(* A host that commits s gets mode m with the picture and the rate it        *)
(* expects.                                                                  *)
Keeps(s, m) ==
  LET mode == SensorConfig[m]
      time == FrameTime(mode.clock, <<LineLength, mode.lines>>)
      frame == SuperSpeedFrame[s]
  IN /\ ModeOf(s) = m /\ m \in ModeIds
     /\ mode.size = <<frame.width, frame.height + 2>>
     /\ 100 * (time - s.interval) \in -s.interval .. s.interval
     /\ m <= mode.lines - 4

(* Every setting on offer keeps what the descriptors say.                    *)
LEMMA EverySettingKeeps == \A s \in SuperSpeed : Keeps(s, ModeOf(s))
<1>1. ASSUME NEW s \in SuperSpeed, NEW k \in 1..6, NEW i \in Int, NEW m \in ModeIds,
             NEW width, NEW height \in Int, NEW time \in Int,
             s.frame = k, s.interval = i, ModeOf(s) = m,
             IsFrame(SSFrames[k], k, width, height), PutsOut(m, width, height + 2, time),
             -i <= 100 * (time - i), 100 * (time - i) <= i
      PROVE  Keeps(s, ModeOf(s))
  <2>1. SuperSpeedFrame[s] = SSFrames[k]
    BY <1>1, FrameExpected
  <2> QED
    BY <1>1, <2>1 DEF Keeps, IsFrame, PutsOut
<1>2. Keeps(Setting(VGA, 30), ModeOf(Setting(VGA, 30)))
  <2> DEFINE s == Setting(VGA, 30)
  <2>1. s \in SuperSpeed /\ s.frame = 1 /\ s.interval = 333333
    BY SettingsOffered, Intervals DEF Setting, VGA
  <2>2. ModeOf(s) = 3205 /\ 3205 \in ModeIds
    BY ModeTaken DEF ModeIds
  <2>3. IsFrame(SSFrames[1], 1, 640, 480) /\ PutsOut(3205, 640, 480 + 2, 333272)
    BY FrameTable, ModeTable
  <2> DEFINE i == 333333
             time == 333272
  <2>4. i \in Int /\ time \in Int /\ -i <= 100 * (time - i) /\ 100 * (time - i) <= i
    OBVIOUS
  <2>5. s.interval = i /\ PutsOut(3205, 640, 480 + 2, time)
    BY <2>1, <2>3
  <2> HIDE DEF s, i, time
  <2>6. Keeps(s, ModeOf(s))
    BY <1>1, <2>1, <2>2, <2>3, <2>4, <2>5
  <2> QED
    BY <2>6 DEF s
<1>3. Keeps(Setting(VGA, 200), ModeOf(Setting(VGA, 200)))
  <2> DEFINE s == Setting(VGA, 200)
  <2>1. s \in SuperSpeed /\ s.frame = 1 /\ s.interval = 50000
    BY SettingsOffered, Intervals DEF Setting, VGA
  <2>2. ModeOf(s) = 477 /\ 477 \in ModeIds
    BY ModeTaken DEF ModeIds
  <2>3. IsFrame(SSFrames[1], 1, 640, 480) /\ PutsOut(477, 640, 480 + 2, 49954)
    BY FrameTable, ModeTable
  <2> DEFINE i == 50000
             time == 49954
  <2>4. i \in Int /\ time \in Int /\ -i <= 100 * (time - i) /\ 100 * (time - i) <= i
    OBVIOUS
  <2>5. s.interval = i /\ PutsOut(477, 640, 480 + 2, time)
    BY <2>1, <2>3
  <2> HIDE DEF s, i, time
  <2>6. Keeps(s, ModeOf(s))
    BY <1>1, <2>1, <2>2, <2>3, <2>4, <2>5
  <2> QED
    BY <2>6 DEF s
<1>4. Keeps(Setting(HD, 30), ModeOf(Setting(HD, 30)))
  <2> DEFINE s == Setting(HD, 30)
  <2>1. s \in SuperSpeed /\ s.frame = 2 /\ s.interval = 333333
    BY SettingsOffered, Intervals DEF Setting, HD
  <2>2. ModeOf(s) = 3392 /\ 3392 \in ModeIds
    BY ModeTaken DEF ModeIds
  <2>3. IsFrame(SSFrames[2], 2, 1280, 720) /\ PutsOut(3392, 1280, 720 + 2, 333241)
    BY FrameTable, ModeTable
  <2> DEFINE i == 333333
             time == 333241
  <2>4. i \in Int /\ time \in Int /\ -i <= 100 * (time - i) /\ 100 * (time - i) <= i
    OBVIOUS
  <2>5. s.interval = i /\ PutsOut(3392, 1280, 720 + 2, time)
    BY <2>1, <2>3
  <2> HIDE DEF s, i, time
  <2>6. Keeps(s, ModeOf(s))
    BY <1>1, <2>1, <2>2, <2>3, <2>4, <2>5
  <2> QED
    BY <2>6 DEF s
<1>5. Keeps(Setting(HD, 60), ModeOf(Setting(HD, 60)))
  <2> DEFINE s == Setting(HD, 60)
  <2>1. s \in SuperSpeed /\ s.frame = 2 /\ s.interval = 166666
    BY SettingsOffered, Intervals DEF Setting, HD
  <2>2. ModeOf(s) = 1697 /\ 1697 \in ModeIds
    BY ModeTaken DEF ModeIds
  <2>3. IsFrame(SSFrames[2], 2, 1280, 720) /\ PutsOut(1697, 1280, 720 + 2, 166620)
    BY FrameTable, ModeTable
  <2> DEFINE i == 166666
             time == 166620
  <2>4. i \in Int /\ time \in Int /\ -i <= 100 * (time - i) /\ 100 * (time - i) <= i
    OBVIOUS
  <2>5. s.interval = i /\ PutsOut(1697, 1280, 720 + 2, time)
    BY <2>1, <2>3
  <2> HIDE DEF s, i, time
  <2>6. Keeps(s, ModeOf(s))
    BY <1>1, <2>1, <2>2, <2>3, <2>4, <2>5
  <2> QED
    BY <2>6 DEF s
<1>6. Keeps(Setting(HD, 120), ModeOf(Setting(HD, 120)))
  <2> DEFINE s == Setting(HD, 120)
  <2>1. s \in SuperSpeed /\ s.frame = 2 /\ s.interval = 83333
    BY SettingsOffered, Intervals DEF Setting, HD
  <2>2. ModeOf(s) = 846 /\ 846 \in ModeIds
    BY ModeTaken DEF ModeIds
  <2>3. IsFrame(SSFrames[2], 2, 1280, 720) /\ PutsOut(846, 1280, 720 + 2, 83261)
    BY FrameTable, ModeTable
  <2> DEFINE i == 83333
             time == 83261
  <2>4. i \in Int /\ time \in Int /\ -i <= 100 * (time - i) /\ 100 * (time - i) <= i
    OBVIOUS
  <2>5. s.interval = i /\ PutsOut(846, 1280, 720 + 2, time)
    BY <2>1, <2>3
  <2> HIDE DEF s, i, time
  <2>6. Keeps(s, ModeOf(s))
    BY <1>1, <2>1, <2>2, <2>3, <2>4, <2>5
  <2> QED
    BY <2>6 DEF s
<1>7. Keeps(Setting(FULL_HD, 30), ModeOf(Setting(FULL_HD, 30)))
  <2> DEFINE s == Setting(FULL_HD, 30)
  <2>1. s \in SuperSpeed /\ s.frame = 3 /\ s.interval = 333333
    BY SettingsOffered, Intervals DEF Setting, FULL_HD
  <2>2. ModeOf(s) = 2470 /\ 2470 \in ModeIds
    BY ModeTaken DEF ModeIds
  <2>3. IsFrame(SSFrames[3], 3, 1920, 1080) /\ PutsOut(2470, 1920, 1080 + 2, 333216)
    BY FrameTable, ModeTable
  <2> DEFINE i == 333333
             time == 333216
  <2>4. i \in Int /\ time \in Int /\ -i <= 100 * (time - i) /\ 100 * (time - i) <= i
    OBVIOUS
  <2>5. s.interval = i /\ PutsOut(2470, 1920, 1080 + 2, time)
    BY <2>1, <2>3
  <2> HIDE DEF s, i, time
  <2>6. Keeps(s, ModeOf(s))
    BY <1>1, <2>1, <2>2, <2>3, <2>4, <2>5
  <2> QED
    BY <2>6 DEF s
<1>8. Keeps(Setting(FULL_HD, 60), ModeOf(Setting(FULL_HD, 60)))
  <2> DEFINE s == Setting(FULL_HD, 60)
  <2>1. s \in SuperSpeed /\ s.frame = 3 /\ s.interval = 166666
    BY SettingsOffered, Intervals DEF Setting, FULL_HD
  <2>2. ModeOf(s) = 1233 /\ 1233 \in ModeIds
    BY ModeTaken DEF ModeIds
  <2>3. IsFrame(SSFrames[3], 3, 1920, 1080) /\ PutsOut(1233, 1920, 1080 + 2, 166608)
    BY FrameTable, ModeTable
  <2> DEFINE i == 166666
             time == 166608
  <2>4. i \in Int /\ time \in Int /\ -i <= 100 * (time - i) /\ 100 * (time - i) <= i
    OBVIOUS
  <2>5. s.interval = i /\ PutsOut(1233, 1920, 1080 + 2, time)
    BY <2>1, <2>3
  <2> HIDE DEF s, i, time
  <2>6. Keeps(s, ModeOf(s))
    BY <1>1, <2>1, <2>2, <2>3, <2>4, <2>5
  <2> QED
    BY <2>6 DEF s
<1>9. Keeps(Setting(FULL_FRAME, 15), ModeOf(Setting(FULL_FRAME, 15)))
  <2> DEFINE s == Setting(FULL_FRAME, 15)
  <2>1. s \in SuperSpeed /\ s.frame = 4 /\ s.interval = 666666
    BY SettingsOffered, Intervals DEF Setting, FULL_FRAME
  <2>2. ModeOf(s) = 3027 /\ 3027 \in ModeIds
    BY ModeTaken DEF ModeIds
  <2>3. IsFrame(SSFrames[4], 4, 3280, 2462) /\ PutsOut(3027, 3280, 2462 + 2, 666510)
    BY FrameTable, ModeTable
  <2> DEFINE i == 666666
             time == 666510
  <2>4. i \in Int /\ time \in Int /\ -i <= 100 * (time - i) /\ 100 * (time - i) <= i
    OBVIOUS
  <2>5. s.interval = i /\ PutsOut(3027, 3280, 2462 + 2, time)
    BY <2>1, <2>3
  <2> HIDE DEF s, i, time
  <2>6. Keeps(s, ModeOf(s))
    BY <1>1, <2>1, <2>2, <2>3, <2>4, <2>5
  <2> QED
    BY <2>6 DEF s
<1>10. Keeps(Setting(STRIP_128, 682), ModeOf(Setting(STRIP_128, 682)))
  <2> DEFINE s == Setting(STRIP_128, 682)
  <2>1. s \in SuperSpeed /\ s.frame = 5 /\ s.interval = 14662
    BY SettingsOffered, Intervals DEF Setting, STRIP_128
  <2>2. ModeOf(s) = 137 /\ 137 \in ModeIds
    BY ModeTaken DEF ModeIds
  <2>3. IsFrame(SSFrames[5], 5, 640, 126) /\ PutsOut(137, 640, 126 + 2, 14643)
    BY FrameTable, ModeTable
  <2> DEFINE i == 14662
             time == 14643
  <2>4. i \in Int /\ time \in Int /\ -i <= 100 * (time - i) /\ 100 * (time - i) <= i
    OBVIOUS
  <2>5. s.interval = i /\ PutsOut(137, 640, 126 + 2, time)
    BY <2>1, <2>3
  <2> HIDE DEF s, i, time
  <2>6. Keeps(s, ModeOf(s))
    BY <1>1, <2>1, <2>2, <2>3, <2>4, <2>5
  <2> QED
    BY <2>6 DEF s
<1>11. Keeps(Setting(STRIP_80, 1000), ModeOf(Setting(STRIP_80, 1000)))
  <2> DEFINE s == Setting(STRIP_80, 1000)
  <2>1. s \in SuperSpeed /\ s.frame = 6 /\ s.interval = 10000
    BY SettingsOffered, Intervals DEF Setting, STRIP_80
  <2>2. ModeOf(s) = 92 /\ 92 \in ModeIds
    BY ModeTaken DEF ModeIds
  <2>3. IsFrame(SSFrames[6], 6, 640, 78) /\ PutsOut(92, 640, 78 + 2, 9970)
    BY FrameTable, ModeTable
  <2> DEFINE i == 10000
             time == 9970
  <2>4. i \in Int /\ time \in Int /\ -i <= 100 * (time - i) /\ 100 * (time - i) <= i
    OBVIOUS
  <2>5. s.interval = i /\ PutsOut(92, 640, 78 + 2, time)
    BY <2>1, <2>3
  <2> HIDE DEF s, i, time
  <2>6. Keeps(s, ModeOf(s))
    BY <1>1, <2>1, <2>2, <2>3, <2>4, <2>5
  <2> QED
    BY <2>6 DEF s
<1> QED
  BY SettingsOffered, <1>2, <1>3, <1>4, <1>5, <1>6, <1>7, <1>8, <1>9, <1>10, <1>11

(* After a COMMIT of a setting on offer, its mode is selected, and the       *)
(* registers are meant to hold that mode, with no longer an exposure.        *)
PictureInv ==
  asked \in SuperSpeed =>
    selected = ModeOf(asked) /\ reg.mode = selected /\ reg.exposure <= selected

(* It holds from the start, where nothing has been committed.                *)
LEMMA NothingAsked == Init => PictureInv
  BY SettingsOffered, Intervals
     DEF Init, PictureInv, Setting, VGA, HD, FULL_HD, FULL_FRAME, STRIP_128, STRIP_80

(* A setting on offer selects a mode of the table.                           *)
LEMMA SettingHasMode ==
  \A s \in SuperSpeed :
    ModeOf(s) \in ModeIds /\ ModeOf(s) \in Nat /\ ModeOf(s) # NoMode
<1>1. \A s \in SuperSpeed : ModeOf(s) \in ModeIds
  BY SettingsOffered, ModeTaken DEF ModeIds
<1>2. ModeIds \subseteq Nat /\ NoMode \notin ModeIds
  BY DEF ModeIds, NoMode
<1> QED
  BY <1>1, <1>2

(* Every step keeps it, if each mode of the table is one of the driver's.    *)
LEMMA PictureKept ==
  ASSUME Modes = ModeIds, BusInv, PictureInv, [Next]_vars
  PROVE  PictureInv'
<1>1. CASE Commit
  <2>1. PICK s \in Settings, x \in Garbage : HandleUvcControl(ModeOf(s), x) /\ asked' = s
    BY <1>1 DEF Commit
  <2> SUFFICES ASSUME s \in SuperSpeed
               PROVE  selected' = ModeOf(s) /\ reg'.mode = selected' /\ reg'.exposure <= selected'
    BY <2>1 DEF PictureInv
  <2>2. ModeOf(s) \in Modes /\ ModeOf(s) \in Nat /\ ModeOf(s) # NoMode
    BY SettingHasMode
  <2> DEFINE m == ModeOf(s)
  <2>3. selected' = m /\ reg' = Configured(m, gain[m], pattern[m])
    BY <2>1, <2>2 DEF HandleUvcControl, ModeAfterCommit, ConfigureMode
  <2> HIDE DEF m
  <2>4. reg'.mode = m /\ reg'.exposure = m
    BY <2>3 DEF Configured
  <2> QED
    BY <2>2, <2>3, <2>4 DEF m
<1>2. CASE ChangeExposure
  <2>1. PICK v \in Exposures, x \in Garbage : SetExposure(v, x) /\ asked' = asked
    BY <1>2 DEF ChangeExposure
  <2> SUFFICES ASSUME asked \in SuperSpeed
               PROVE  /\ selected' = ModeOf(asked) /\ reg'.mode = selected'
                      /\ reg'.exposure <= selected'
    BY <2>1 DEF PictureInv
  <2>2. selected = ModeOf(asked) /\ selected \in Nat /\ selected # NoMode /\ reg.mode = selected
    BY SettingHasMode DEF PictureInv
  <2>3. v \in Nat
    BY SensorBusAssumption
  <2>4. Smaller(v, selected) <= selected
    BY <2>2, <2>3 DEF Smaller
  <2>5. selected' = selected /\ reg' = [reg EXCEPT !.exposure = Smaller(v, selected)]
    BY <2>1, <2>2 DEF SetExposure, Limit, Exposure
  <2>6. reg'.mode = reg.mode /\ reg'.exposure = Smaller(v, selected)
    BY <2>5 DEF BusInv, DriverInv
  <2> QED
    BY <2>2, <2>4, <2>5, <2>6
<1>3. CASE ChangeBrightness \/ ChangePattern
  <2>1. /\ selected' = selected /\ asked' = asked
        /\ \/ \E v : reg' = [reg EXCEPT !.gain = v]
           \/ \E v : reg' = [reg EXCEPT !.pattern = v]
    BY <1>3 DEF ChangeBrightness, ChangePattern, SetBrightness, SetTestPattern
  <2>2. reg'.mode = reg.mode /\ reg'.exposure = reg.exposure
    BY <2>1 DEF BusInv, DriverInv
  <2> QED
    BY <2>1, <2>2 DEF PictureInv
<1>4. CASE Find \/ WriteRegister \/ LoseWrite \/ UNCHANGED vars
  <2>1. UNCHANGED <<selected, reg, asked>>
    BY <1>4 DEF Find, WriteRegister, LoseWrite, vars, sensorVars, busVars
  <2> QED
    BY <2>1 DEF PictureInv
<1> QED
  BY <1>1, <1>2, <1>3, <1>4 DEF Next, Operation

(* A frame has a number of lines.                                            *)
LEMMA LinesNumbers == \A m \in ModeIds : SensorConfig[m].lines \in Nat
<1>1. /\ SensorConfig[3205].lines = 3209 /\ SensorConfig[477].lines = 481
      /\ SensorConfig[3392].lines = 3402 /\ SensorConfig[1697].lines = 1701
      /\ SensorConfig[846].lines = 850 /\ SensorConfig[2470].lines = 2474
      /\ SensorConfig[1233].lines = 1237 /\ SensorConfig[137].lines = 141
      /\ SensorConfig[92].lines = 96 /\ SensorConfig[3027].lines = 3031
  BY DEF ModeIds, SensorConfig, Mode
<1> QED
  BY <1>1 DEF ModeIds

(* Every mode is on offer, as far as there is one.                           *)
LEMMA EveryModeOffered == ModesOffered = ModeIds
<1>1. \A s \in SuperSpeed : ModeOf(s) \in ModeIds
  BY SettingHasMode
<1>2. \A m \in ModeIds : \E s \in SuperSpeed : ModeOf(s) = m
  BY SettingsOffered, ModeTaken DEF ModeIds
<1> QED
  BY <1>1, <1>2 DEF ModesOffered

(* A host gets the picture and the rate the descriptors promise, whatever it *)
(* sets the controls to and whatever was lost before its COMMIT: what        *)
(* sensor_config, frame_t and the SuperSpeed descriptors say fits together.  *)
THEOREM PictureDelivered ==
  ASSUME Modes = ModeIds
  PROVE  Spec => []PictureAsCommitted
<1>1. BusInv /\ PictureInv => PictureAsCommitted
  <2> SUFFICES ASSUME BusInv, PictureInv, found, todo = <<>>, intact, asked \in SuperSpeed
               PROVE  LET frame == SuperSpeedFrame[asked]
                          time  == FrameTime(bus.clock, bus.length)
                      IN /\ bus.size = <<frame.width, frame.height + 2>>
                         /\ 100 * (time - asked.interval) \in -asked.interval .. asked.interval
                         /\ ExposureOnBus <= bus.length[2] - 4
    BY EveryModeOffered DEF PictureAsCommitted
  <2> DEFINE m == ModeOf(asked)
  <2>1. m \in ModeIds /\ reg.mode = m /\ reg.exposure <= m /\ m \in Nat
    BY SettingHasMode DEF PictureInv
  <2>2. CommitHeals
    BY BusInvHeals
  <2>3. /\ OfOneMode(SensorConfig[m]) /\ ExposureOnBus = reg.exposure
    BY <2>1, <2>2 DEF CommitHeals, Pointed
  <2>4. Keeps(asked, m)
    BY EverySettingKeeps
  <2>5. SensorConfig[m].lines \in Nat /\ reg.exposure \in Nat
    <3>1. SensorConfig[m].lines \in Nat
      BY <2>1, LinesNumbers
    <3>2. reg.exposure \in Nat
      BY DEF BusInv, DriverInv
    <3> QED
      BY <3>1, <3>2
  <2> HIDE DEF m
  <2>6. ExposureOnBus <= bus.length[2] - 4
    BY <2>1, <2>3, <2>4, <2>5 DEF Keeps, OfOneMode
  <2> QED
    BY <2>3, <2>4, <2>6 DEF Keeps, OfOneMode
<1>2. Init => PictureInv
  BY NothingAsked
<1>3. BusInv /\ PictureInv /\ [Next]_vars => PictureInv'
  BY PictureKept
<1> QED
  BY <1>1, <1>2, <1>3, BusInvariant, PTL DEF Spec
=============================================================================
