-------------------------- MODULE GpifStream_proofs --------------------------
(***************************************************************************)
(* The invariants of GpifStream for every buffer size, number of buffers   *)
(* and lengths of frames.                                                  *)
(*                                                                         *)
(* GpifInv adds three things to what the runs check.  CounterInv says what *)
(* each state of the GPIF machine knows about its counters, HandshakeInv   *)
(* where the machine can be while the firmware's input is up, and          *)
(* BuffersInv where the words of an intact stream are: in the one open     *)
(* buffer, and in full buffers of which the socket in turn has as many as  *)
(* the other or one more.  The machine is reduced to its arrows first      *)
(* (MovesAreArrows); the rest has one lemma for each action.               *)
(*                                                                         *)
(* On it stands a second invariant, LineInv and StreamInv, about the words *)
(* themselves.  LineInv keeps the machine in step with the lines of the    *)
(* bridge.  StreamInv follows the words from the machine to the host: the  *)
(* buffers hold blocks of consecutive words, each complete and ahead of    *)
(* the one before it (OrderInv), the oldest goes on where the host is      *)
(* (FrontInv), and the newest ends where the machine is or where its frame *)
(* ended (TipInv).  What the host completes is then whole (FramesWhole).   *)
(***************************************************************************)
EXTENDS GpifStream, FiniteSetTheorems, TLAPS

(* What the buffers hold: words, whose two numbers no proof looks at.        *)
Words == Seq(Nat \X Nat)
Payload == [sck : Sockets, words : Words, eof : BOOLEAN, fid : {0, 1}]

Types ==
  /\ fv \in BOOLEAN /\ lv \in BOOLEAN /\ low \in 0..FrameGap
  /\ lens \in Seq(Nat) /\ pos \in Nat
  /\ gst \in GpifStates /\ sck \in Sockets /\ turn \in Sockets
  /\ count \in [Sockets -> 0..BufWords]
  /\ fwTrg \in BOOLEAN /\ intr \in BOOLEAN
  /\ buf \in [Sockets -> Words] /\ full \in [Sockets -> Seq(Words)]
  /\ fid \in {0, 1} /\ rxFid \in {0, 1}
  /\ usb \in Seq(Payload)
  /\ damage \in {"none", "glued", "lost"}

(* The channel's accounts.                                                   *)
Open(s) == IF buf[s] = <<>> THEN 0 ELSE 1
RoomKept ==
  \A s \in Sockets : Len(buf[s]) < BufWords /\ InUse(s) + Open(s) <= BufCount

(* The counter is loaded before a socket is filled, and each state knows     *)
(* whether it was hit.                                                       *)
CounterInv ==
  /\ gst = "WAIT_FOR_FRAME_START" => \A s \in Sockets : count[s] = 0
  /\ gst \in InData => count[sck] # 0 /\ count[Other(sck)] = 0
  /\ gst \in {"WAIT_TO_FILL", "PARTIAL_BUF_IN"} => ~CountHit(sck)
  /\ gst \in {"WAIT_FULL", "FULL_BUF_IN"} => CountHit(sck)

(* The handshake at the end of a frame.                                      *)
HandshakeInv ==
  /\ fwTrg => gst \in {"PARTIAL_BUF_IN", "FULL_BUF_IN", "FRAME_END"}
  /\ NeverWaitsUnheard

(* An intact stream: the counter tracks the open buffer, only the socket in  *)
(* turn has one, none is open outside a frame or once the handler has run,   *)
(* and the sockets are ahead of the firmware by one buffer or none.          *)
OpenBuffers ==
  IF gst \in InData /\ ~fwTrg
  THEN /\ buf[Other(sck)] = <<>>
       /\ Len(buf[sck]) = IF CountHit(sck) THEN 0 ELSE count[sck]
  ELSE \A s \in Sockets : buf[s] = <<>>
FullBuffers ==
  IF NextToFill = turn THEN Len(full[turn]) = Len(full[Other(turn)])
                       ELSE Len(full[turn]) = Len(full[Other(turn)]) + 1
BuffersInv == Intact => OpenBuffers /\ FullBuffers

GpifInv == Types /\ RoomKept /\ CounterInv /\ HandshakeInv /\ BuffersInv /\ FrameIdFlipsAtEnd

-----------------------------------------------------------------------------
(* The machine's moves, one line for each arrow of its diagram, and the      *)
(* clocks on which it stays where it is.                                     *)
Arrow(from, to, s) == gst = from /\ gst' = to /\ sck' = s
Stays(st) == Arrow(st, st, sck)

Arrows ==
  \/ Arrow("START", "IDLE", sck)
  \/ Arrow("IDLE", "WAIT_FOR_FRAME_START", sck) /\ ~fv'
  \/ Arrow("WAIT_FOR_FRAME_START", "PUSH_DATA", sck) /\ lv'
  \/ Arrow("PUSH_DATA", "PUSH_DATA", Other(sck)) /\ CountHit(sck) /\ lv'
  \/ Arrow("PUSH_DATA", "PUSH_DATA", sck) /\ ~CountHit(sck) /\ lv'
  \/ Arrow("PUSH_DATA", "LINE_END", sck) /\ ~lv'
  \/ Arrow("LINE_END", "WAIT_TO_FILL", sck) /\ ~CountHit(sck)
  \/ Arrow("LINE_END", "WAIT_FULL", sck) /\ CountHit(sck)
  \/ Arrow("WAIT_TO_FILL", "PUSH_DATA", sck) /\ lv'
  \/ Arrow("WAIT_TO_FILL", "PARTIAL_BUF_IN", sck) /\ ~fv'
  \/ Arrow("WAIT_FULL", "PUSH_DATA", Other(sck)) /\ lv'
  \/ Arrow("WAIT_FULL", "FULL_BUF_IN", sck) /\ ~fv'
  \/ gst \in {"PARTIAL_BUF_IN", "FULL_BUF_IN"} /\ fwTrg /\ Arrow(gst, "FRAME_END", sck)
  \/ Arrow("FRAME_END", "IDLE", Other(sck)) /\ ~fwTrg
  \/ Stays("WAIT_FOR_FRAME_START") /\ ~(fv' /\ lv')
  \/ (Stays("WAIT_TO_FILL") \/ Stays("WAIT_FULL")) /\ fv' /\ ~lv'
  \/ \E st \in {"IDLE", "PARTIAL_BUF_IN", "FULL_BUF_IN", "FRAME_END"} : Stays(st)

(* A state with one way out.                                                 *)
LEMMA OneEdge ==
  ASSUME NEW on \in BOOLEAN, NEW st, NEW s, Edges = {Edge(on, st, s)}, Moves
  PROVE  \/ on /\ gst' = st /\ sck' = s
         \/ ~on /\ gst' = gst /\ sck' = sck
<1>1. \A e \in Edges : e.on = on /\ e.st = st /\ e.sck = s
  BY DEF Edge
<1> QED
  BY <1>1 DEF Moves

(* The same for a state with two ways out.                                   *)
LEMMA TwoEdges ==
  ASSUME NEW on1 \in BOOLEAN, NEW st1, NEW s1, NEW on2 \in BOOLEAN, NEW st2, NEW s2,
         Edges = {Edge(on1, st1, s1), Edge(on2, st2, s2)}, Moves
  PROVE  \/ on1 /\ gst' = st1 /\ sck' = s1
         \/ on2 /\ gst' = st2 /\ sck' = s2
         \/ ~on1 /\ ~on2 /\ gst' = gst /\ sck' = sck
<1> DEFINE e1 == Edge(on1, st1, s1)
           e2 == Edge(on2, st2, s2)
<1>1. e1.on = on1 /\ e1.st = st1 /\ e1.sck = s1 /\ e2.on = on2 /\ e2.st = st2 /\ e2.sck = s2
  BY DEF Edge
<1>2. e1 \in Edges /\ e2 \in Edges /\ \A e \in Edges : e = e1 \/ e = e2
  OBVIOUS
<1> HIDE DEF e1, e2
<1> QED
  BY <1>1, <1>2 DEF Moves

(* In each state, one of the arrows or none.                                 *)
LEMMA MovesAreArrows ==
  ASSUME gst \in GpifStates, fv' \in BOOLEAN, lv' \in BOOLEAN, fwTrg \in BOOLEAN, Moves
  PROVE  Arrows
<1> DEFINE hit == CountHit(sck)
<1>1. hit \in BOOLEAN
  BY DEF CountHit
<1> HIDE DEF hit
<1>2. CASE gst = "START"
  <2>1. Edges = {Edge(TRUE, "IDLE", sck)}
    BY <1>2 DEF Edges
  <2> QED
    BY <1>2, <2>1, OneEdge DEF Arrows, Stays, Arrow
<1>3. CASE gst = "IDLE"
  <2>1. Edges = {Edge(~fv', "WAIT_FOR_FRAME_START", sck)}
    BY <1>3 DEF Edges, FrameMayStart
  <2>2. (~fv') \in BOOLEAN
    OBVIOUS
  <2> QED
    BY <1>3, <2>1, <2>2, OneEdge DEF Arrows, Stays, Arrow
<1>4. CASE gst = "WAIT_FOR_FRAME_START"
  <2>1. Edges = {Edge(fv' /\ lv', "PUSH_DATA", sck)}
    BY <1>4 DEF Edges
  <2>2. (fv' /\ lv') \in BOOLEAN
    OBVIOUS
  <2> QED
    BY <1>4, <2>1, <2>2, OneEdge DEF Arrows, Stays, Arrow
<1>5. CASE gst = "PUSH_DATA"
  <2> DEFINE full1 == lv' /\ hit
             ends == ~lv'
  <2>1. Edges = {Edge(full1, "PUSH_DATA", Other(sck)), Edge(ends, "LINE_END", sck)}
    BY <1>5 DEF Edges, hit
  <2>2. full1 \in BOOLEAN /\ ends \in BOOLEAN
    OBVIOUS
  <2> HIDE DEF full1, ends
  <2>3. \/ full1 /\ gst' = "PUSH_DATA" /\ sck' = Other(sck)
        \/ ends /\ gst' = "LINE_END" /\ sck' = sck
        \/ ~full1 /\ ~ends /\ gst' = gst /\ sck' = sck
    BY <2>1, <2>2, TwoEdges
  <2> QED
    BY <1>5, <2>3 DEF Arrows, Stays, Arrow, hit, full1, ends
<1>6. CASE gst = "LINE_END"
  <2> DEFINE fills == ~hit
  <2>1. Edges = {Edge(fills, "WAIT_TO_FILL", sck), Edge(hit, "WAIT_FULL", sck)}
    BY <1>6 DEF Edges, LineEndsFull, hit
  <2>2. fills \in BOOLEAN
    OBVIOUS
  <2>3. fills \/ hit
    OBVIOUS
  <2> HIDE DEF fills
  <2>4. \/ fills /\ gst' = "WAIT_TO_FILL" /\ sck' = sck
        \/ hit /\ gst' = "WAIT_FULL" /\ sck' = sck
    BY <1>1, <2>1, <2>2, <2>3, TwoEdges
  <2> QED
    BY <1>6, <2>4 DEF Arrows, Stays, Arrow, hit, fills
<1>7. CASE gst = "WAIT_TO_FILL"
  <2> DEFINE ends == ~fv'
  <2>1. Edges = {Edge(lv', "PUSH_DATA", sck), Edge(ends, "PARTIAL_BUF_IN", sck)}
    BY <1>7 DEF Edges
  <2>2. ends \in BOOLEAN
    OBVIOUS
  <2> HIDE DEF ends
  <2>3. \/ lv' /\ gst' = "PUSH_DATA" /\ sck' = sck
        \/ ends /\ gst' = "PARTIAL_BUF_IN" /\ sck' = sck
        \/ ~lv' /\ ~ends /\ gst' = gst /\ sck' = sck
    BY <2>1, <2>2, TwoEdges
  <2> QED
    BY <1>7, <2>3 DEF Arrows, Stays, Arrow, ends
<1>8. CASE gst = "WAIT_FULL"
  <2> DEFINE ends == ~fv'
  <2>1. Edges = {Edge(lv', "PUSH_DATA", Other(sck)), Edge(ends, "FULL_BUF_IN", sck)}
    BY <1>8 DEF Edges
  <2>2. ends \in BOOLEAN
    OBVIOUS
  <2> HIDE DEF ends
  <2>3. \/ lv' /\ gst' = "PUSH_DATA" /\ sck' = Other(sck)
        \/ ends /\ gst' = "FULL_BUF_IN" /\ sck' = sck
        \/ ~lv' /\ ~ends /\ gst' = gst /\ sck' = sck
    BY <2>1, <2>2, TwoEdges
  <2> QED
    BY <1>8, <2>3 DEF Arrows, Stays, Arrow, ends
<1>9. CASE gst \in {"PARTIAL_BUF_IN", "FULL_BUF_IN"}
  <2>1. Edges = {Edge(fwTrg, "FRAME_END", sck)}
    BY <1>9 DEF Edges
  <2> QED
    BY <1>9, <2>1, OneEdge DEF Arrows, Stays, Arrow
<1>10. CASE gst = "FRAME_END"
  <2>1. Edges = {Edge(~fwTrg, "IDLE", Other(sck))}
    BY <1>10 DEF Edges, NextSocket
  <2>2. (~fwTrg) \in BOOLEAN
    OBVIOUS
  <2>3. \/ ~fwTrg /\ gst' = "IDLE" /\ sck' = Other(sck)
        \/ gst' = gst /\ sck' = sck
    BY <2>1, <2>2, OneEdge
  <2> QED
    BY <1>10, <2>3 DEF Arrows, Stays, Arrow
<1> QED
  BY <1>2, <1>3, <1>4, <1>5, <1>6, <1>7, <1>8, <1>9, <1>10 DEF GpifStates, InData

(* A clock of the port keeps the types of the bridge.                        *)
LEMMA BridgeKeeps ==
  ASSUME Types, Sends \/ Rests \/ Begins
  PROVE  /\ fv' \in BOOLEAN /\ lv' \in BOOLEAN /\ low' \in 0..FrameGap
         /\ lens' \in Seq(Nat) /\ pos' \in Nat
<1>0. FrameGap \in Nat
  BY DEF FrameGap
<1>1. CASE Sends
  BY <1>0, <1>1 DEF Types, Sends
<1>2. CASE Rests
  <2>1. low' \in 0..FrameGap
    BY <1>0, <1>2 DEF Types, Rests
  <2>2. fv' \in BOOLEAN /\ lens' = lens /\ pos' = pos /\ lv' \in BOOLEAN
    BY <1>2 DEF Types, Rests
  <2> QED
    BY <2>1, <2>2 DEF Types
<1>3. CASE Begins
  BY <1>3, GpifStreamAssumption DEF Types, Begins
<1> QED
  BY <1>1, <1>2, <1>3

(* The two sockets.                                                          *)
LEMMA TwoSockets ==
  /\ 0 \in Sockets
  /\ \A s \in Sockets :
       /\ Other(s) \in Sockets /\ Other(s) # s /\ Other(Other(s)) = s
       /\ \A t \in Sockets : t = s \/ t = Other(s)
BY DEF Sockets, Other

(* The counters: what each state knows about them.                           *)
LEMMA ClockKeepsCounter ==
  ASSUME Types, CounterInv, Arrows, Counts
  PROVE  /\ gst' \in GpifStates /\ sck' \in Sockets /\ count' \in [Sockets -> 0..BufWords]
         /\ CounterInv'
         /\ gst' = "PUSH_DATA" =>
              /\ count' = [s \in Sockets |-> IF s = sck' THEN count[s] + 1 ELSE 0]
              /\ count[sck'] < BufWords
         /\ gst' \notin {"PUSH_DATA", "WAIT_FOR_FRAME_START"} => count' = count
<1> USE GpifStreamAssumption, TwoSockets DEF CountHit
<1>1. sck \in Sockets /\ count \in [Sockets -> 0..BufWords]
  BY DEF Types
<1>2. gst' \in GpifStates /\ sck' \in Sockets
  BY <1>1 DEF Arrows, Stays, Arrow, GpifStates, InData, Types
<1>3. CASE gst' = "PUSH_DATA"
  <2>1. count' = [s \in Sockets |-> IF s = sck' THEN count[s] + 1 ELSE 0]
    BY <1>3 DEF Counts
  <2>2. count[sck'] < BufWords
    BY <1>1, <1>3 DEF Arrows, Stays, Arrow, InData, CounterInv
  <2>3. count' \in [Sockets -> 0..BufWords]
    BY <1>1, <1>2, <2>1, <2>2
  <2>4. count'[sck'] # 0 /\ count'[Other(sck')] = 0
    BY <1>1, <1>2, <2>1
  <2>5. CounterInv'
    BY <1>3, <2>4 DEF CounterInv
  <2> QED
    BY <1>2, <1>3, <2>1, <2>2, <2>3, <2>5
<1>4. CASE gst' = "WAIT_FOR_FRAME_START"
  BY <1>2, <1>4 DEF Counts, InData, CounterInv
<1>5. CASE gst' \notin {"PUSH_DATA", "WAIT_FOR_FRAME_START"}
  <2>1. count' = count
    BY <1>5 DEF Counts
  <2> QED
    BY <1>1, <1>2, <1>5, <2>1 DEF Arrows, Stays, Arrow, InData, CounterInv
<1> QED
  BY <1>3, <1>4, <1>5

-----------------------------------------------------------------------------
(* How many of a sequence of payloads are a socket's.                        *)
At(u, s) == {k \in DOMAIN u : u[k].sck = s}

(* There are finitely many.                                                  *)
LEMMA AtIsFinite ==
  ASSUME NEW u \in Seq(Payload), NEW s
  PROVE  IsFiniteSet(At(u, s)) /\ Cardinality(At(u, s)) \in Nat
<1>1. IsFiniteSet(1..Len(u))
  BY FS_Interval
<1>2. At(u, s) \in SUBSET (1..Len(u))
  BY DEF At
<1> QED
  BY <1>1, <1>2, FS_Subset, FS_CardinalityType

(* A payload more.                                                           *)
LEMMA OneMore ==
  ASSUME NEW u \in Seq(Payload), NEW p \in Payload, NEW s
  PROVE  /\ p.sck = s => Cardinality(At(Append(u, p), s)) = Cardinality(At(u, s)) + 1
         /\ p.sck # s => Cardinality(At(Append(u, p), s)) = Cardinality(At(u, s))
<1> DEFINE n == Len(u) + 1
<1>1. At(Append(u, p), s) = IF p.sck = s THEN At(u, s) \cup {n} ELSE At(u, s)
  BY DEF At
<1>2. n \notin At(u, s)
  BY DEF At
<1> HIDE DEF n
<1>3. Cardinality(At(u, s) \cup {n}) = Cardinality(At(u, s)) + 1
  BY <1>2, AtIsFinite, FS_AddElement
<1>4. Cardinality(At(u, s)) \in Nat
  BY AtIsFinite
<1> QED
  BY <1>1, <1>3, <1>4

(* A payload less.                                                           *)
LEMMA OneLess ==
  ASSUME NEW u \in Seq(Payload), u # <<>>, NEW s
  PROVE  /\ Head(u).sck = s => Cardinality(At(Tail(u), s)) = Cardinality(At(u, s)) - 1
         /\ Head(u).sck # s => Cardinality(At(Tail(u), s)) = Cardinality(At(u, s))
<1> DEFINE T == At(Tail(u), s)
           F == At(u, s) \ {1}
           f == [k \in F |-> k - 1]
<1>1. Tail(u) \in Seq(Payload) /\ Len(Tail(u)) = Len(u) - 1
      /\ \A k \in 1..Len(Tail(u)) : Tail(u)[k] = u[k + 1]
  OBVIOUS
<1>2. f \in Bijection(F, T)
  <2>1. \A k \in F : k - 1 \in T
    BY <1>1 DEF At
  <2>2. \A k \in T : k + 1 \in F /\ f[k + 1] = k
    BY <1>1 DEF At
  <2>3. \A j, k \in F : f[j] = f[k] => j = k
    BY DEF At
  <2> QED
    BY <2>1, <2>2, <2>3, Zenon DEF Bijection, Injection, Surjection, IsInjective
<1>3. IsFiniteSet(F) /\ Cardinality(F) = IF 1 \in At(u, s) THEN Cardinality(At(u, s)) - 1
                                         ELSE Cardinality(At(u, s))
  BY AtIsFinite, FS_RemoveElement
<1>4. Cardinality(T) = Cardinality(F)
  BY <1>2, <1>3, FS_Bijection DEF ExistsBijection
<1>5. 1 \in At(u, s) <=> Head(u).sck = s
  BY DEF At
<1>6. Cardinality(At(u, s)) \in Nat
  BY AtIsFinite
<1> QED
  BY <1>3, <1>4, <1>5, <1>6

-----------------------------------------------------------------------------
(* A word is written to a socket.                                            *)
LEMMA PushKeepsRoom ==
  ASSUME Types, RoomKept, NEW s \in Sockets, NEW w \in Nat \X Nat, PushWord(s, w), usb' = usb
  PROVE  /\ buf' \in [Sockets -> Words] /\ full' \in [Sockets -> Seq(Words)]
         /\ damage' \in {"none", "glued", "lost"} /\ (Intact' => Intact)
         /\ RoomKept'
         /\ Intact' =>
              /\ buf'[Other(s)] = buf[Other(s)] /\ full'[Other(s)] = full[Other(s)]
              /\ IF Len(buf[s]) + 1 = BufWords
                 THEN buf'[s] = <<>> /\ Len(full'[s]) = Len(full[s]) + 1
                 ELSE Len(buf'[s]) = Len(buf[s]) + 1 /\ full'[s] = full[s]
<1> USE TwoSockets, GpifStreamAssumption
<1>1. /\ buf \in [Sockets -> Words] /\ full \in [Sockets -> Seq(Words)]
      /\ damage \in {"none", "glued", "lost"} /\ usb \in Seq(Payload)
  BY DEF Types
<1>2. \A t \in Sockets : Cardinality(At(usb, t)) \in Nat
  BY <1>1, AtIsFinite
<1>3. CASE ~HasRoom(s)
  <2>1. damage' = "lost" /\ buf' = buf /\ full' = full
    BY <1>3 DEF PushWord
  <2> QED
    BY <1>1, <2>1 DEF Intact, RoomKept, InUse, Open
<1>4. CASE HasRoom(s) /\ Len(buf[s]) + 1 = BufWords
  <2> DEFINE filled == Append(buf[s], w)
  <2>1. filled \in Words /\ Len(filled) = Len(buf[s]) + 1
    BY <1>1 DEF Words
  <2>2. /\ damage' = damage /\ buf' = [buf EXCEPT ![s] = <<>>]
        /\ full' = [full EXCEPT ![s] = Append(full[s], filled)]
    BY <1>4, <2>1 DEF PushWord
  <2> HIDE DEF filled
  <2>3. /\ buf'[s] = <<>> /\ full'[s] = Append(full[s], filled)
        /\ \A t \in Sockets : t # s => buf'[t] = buf[t] /\ full'[t] = full[t]
    BY <1>1, <2>2
  <2>4. Len(full'[s]) = Len(full[s]) + 1 /\ full'[s] \in Seq(Words) /\ Len(full[s]) \in Nat
    BY <1>1, <2>1, <2>3
  <2>5. <<>> \in Words /\ Len(<<>>) = 0
    BY DEF Words
  <2>6. buf' \in [Sockets -> Words] /\ full' \in [Sockets -> Seq(Words)]
    BY <1>1, <2>2, <2>3, <2>4, <2>5
  <2>7. RoomKept'
    <3>0. InUse(s) = Len(full[s]) + Cardinality(At(usb, s)) /\ InUse(s) \in Nat
      BY <1>2, <2>4 DEF InUse, At
    <3>1. InUse(s) + 1 <= BufCount
      BY <1>4, <3>0 DEF RoomKept, Open, HasRoom
    <3>2. \A t \in Sockets : t # s => Len(buf'[t]) < BufWords /\ (InUse(t) + Open(t))' <= BufCount
      <4>1. \A t \in Sockets : t # s => buf'[t] = buf[t] /\ InUse(t)' = InUse(t) /\ Open(t)' = Open(t)
        BY <2>3 DEF InUse, Open
      <4> QED
        BY <4>1 DEF RoomKept
    <3>3. Len(buf'[s]) < BufWords /\ (InUse(s) + Open(s))' <= BufCount
      BY <1>2, <2>3, <2>4, <2>5, <3>0, <3>1 DEF InUse, Open, At
    <3> QED
      BY <3>2, <3>3 DEF RoomKept
  <2> QED
    BY <1>1, <1>4, <2>2, <2>3, <2>4, <2>6, <2>7 DEF Intact
<1>5. CASE HasRoom(s) /\ Len(buf[s]) + 1 # BufWords
  <2> DEFINE filled == Append(buf[s], w)
  <2>1. filled \in Words /\ Len(filled) = Len(buf[s]) + 1 /\ Len(buf[s]) \in Nat
    BY <1>1 DEF Words
  <2>2. damage' = damage /\ buf' = [buf EXCEPT ![s] = filled] /\ full' = full
    BY <1>5, <2>1 DEF PushWord
  <2> HIDE DEF filled
  <2>3. /\ buf'[s] = filled
        /\ \A t \in Sockets : t # s => buf'[t] = buf[t]
    BY <1>1, <2>2
  <2>4. buf' \in [Sockets -> Words]
    BY <1>1, <2>1, <2>2
  <2>5. RoomKept'
    <3>1. \A t \in Sockets : t # s => Len(buf'[t]) < BufWords /\ (InUse(t) + Open(t))' <= BufCount
      BY <2>2, <2>3 DEF RoomKept, InUse, Open
    <3>2. Len(buf'[s]) < BufWords
      BY <1>5, <2>1, <2>3 DEF RoomKept
    <3>3. Len(full[s]) \in Nat
      BY <1>1
    <3>4. InUse(s) + 1 <= BufCount
      BY <1>2, <1>5, <3>3 DEF RoomKept, Open, HasRoom, InUse, At
    <3>5. (InUse(s) + Open(s))' <= BufCount
      BY <1>2, <2>2, <3>3, <3>4 DEF InUse, Open, At
    <3> QED
      BY <3>1, <3>2, <3>5 DEF RoomKept
  <2> QED
    BY <1>1, <1>5, <2>1, <2>2, <2>3, <2>4, <2>5 DEF Intact
<1> QED
  BY <1>3, <1>4, <1>5

(* The handler hands over the open buffer, or there is none.                 *)
LEMMA WrapUpKeepsRoom ==
  ASSUME Types, RoomKept, NEW s \in Sockets, WrapUp(s), usb' = usb
  PROVE  /\ buf' \in [Sockets -> Words] /\ full' \in [Sockets -> Seq(Words)]
         /\ RoomKept'
         /\ buf'[Other(s)] = buf[Other(s)] /\ full'[Other(s)] = full[Other(s)]
         /\ IF gst = "PARTIAL_BUF_IN" /\ buf[s] # <<>>
            THEN buf'[s] = <<>> /\ Len(full'[s]) = Len(full[s]) + 1
            ELSE buf'[s] = buf[s] /\ full'[s] = full[s]
<1> USE TwoSockets, GpifStreamAssumption
<1>1. /\ buf \in [Sockets -> Words] /\ full \in [Sockets -> Seq(Words)]
      /\ usb \in Seq(Payload)
  BY DEF Types
<1>2. CASE ~(gst = "PARTIAL_BUF_IN" /\ buf[s] # <<>>)
  <2>1. buf' = buf /\ full' = full
    BY <1>2 DEF WrapUp, WrapsUp
  <2> QED
    BY <1>1, <1>2, <2>1 DEF RoomKept, InUse, Open
<1>3. CASE gst = "PARTIAL_BUF_IN" /\ buf[s] # <<>>
  <2>1. /\ buf' = [buf EXCEPT ![s] = <<>>]
        /\ full' = [full EXCEPT ![s] = Append(full[s], buf[s])]
    BY <1>3 DEF WrapUp, WrapsUp
  <2>2. /\ buf'[s] = <<>> /\ full'[s] = Append(full[s], buf[s])
        /\ \A t \in Sockets : t # s => buf'[t] = buf[t] /\ full'[t] = full[t]
    BY <1>1, <2>1
  <2>3. Len(full'[s]) = Len(full[s]) + 1 /\ full'[s] \in Seq(Words) /\ Len(full[s]) \in Nat
    BY <1>1, <2>2
  <2>4. <<>> \in Words /\ Len(<<>>) = 0
    BY DEF Words
  <2>5. buf' \in [Sockets -> Words] /\ full' \in [Sockets -> Seq(Words)]
    BY <1>1, <2>1, <2>2, <2>3, <2>4
  <2>6. Cardinality(At(usb, s)) \in Nat
    BY <1>1, AtIsFinite
  <2>7. \A t \in Sockets : t # s => Len(buf'[t]) < BufWords /\ (InUse(t) + Open(t))' <= BufCount
    <3>1. \A t \in Sockets : t # s => buf'[t] = buf[t] /\ InUse(t)' = InUse(t) /\ Open(t)' = Open(t)
      BY <2>2 DEF InUse, Open
    <3> QED
      BY <3>1 DEF RoomKept
  <2>8. Len(buf'[s]) < BufWords /\ (InUse(s) + Open(s))' <= BufCount
    BY <1>3, <2>2, <2>3, <2>4, <2>6 DEF RoomKept, InUse, Open, At
  <2> QED
    BY <1>3, <2>2, <2>3, <2>5, <2>7, <2>8 DEF RoomKept
<1> QED
  BY <1>2, <1>3

-----------------------------------------------------------------------------
(* A clock without a word: the machine's states at the end of a line and of  *)
(* a frame agree on who is in turn.                                          *)
LEMMA RestKeepsTurn ==
  ASSUME Types, CounterInv, HandshakeInv, Arrows, Counts, gst' # "PUSH_DATA", fwTrg' = fwTrg
  PROVE  NextToFill' = NextToFill
<1>1. gst' \notin {"PUSH_DATA", "WAIT_FOR_FRAME_START"} => count' = count
  BY DEF Counts
<1>2. CASE gst' \in InData
  <2>1. gst \in InData /\ sck' = sck /\ count' = count
    BY <1>1, <1>2 DEF Arrows, Stays, Arrow, InData
  <2>2. gst # "FRAME_END" /\ gst' # "FRAME_END"
    BY <1>2, <2>1 DEF InData
  <2> QED
    BY <1>2, <2>1, <2>2 DEF NextToFill, CountHit
<1>3. CASE gst' \notin InData
  <2>1. gst \in InData => fwTrg /\ gst' = "FRAME_END" /\ sck' = sck
    BY <1>3 DEF Arrows, Stays, Arrow, InData
  <2> QED
    BY <1>3, <2>1 DEF Arrows, Stays, Arrow, InData, NextToFill
<1> QED
  BY <1>2, <1>3

(* So the buffers are where they were.                                       *)
LEMMA RestKeepsBuffers ==
  ASSUME Types, CounterInv, HandshakeInv, BuffersInv, Arrows, Counts, gst' # "PUSH_DATA",
         UNCHANGED <<buf, full, damage, fwTrg, turn>>
  PROVE  BuffersInv'
<1> SUFFICES ASSUME Intact' PROVE OpenBuffers' /\ FullBuffers'
  BY DEF BuffersInv
<1>1. Intact /\ OpenBuffers /\ FullBuffers
  BY DEF BuffersInv, Intact
<1>2. sck \in Sockets
  BY DEF Types
<1>3. /\ fwTrg' = fwTrg /\ buf' = buf /\ full' = full /\ turn' = turn
      /\ gst' \notin {"PUSH_DATA", "WAIT_FOR_FRAME_START"} => count' = count
  BY DEF Counts
<1>4. CASE gst' \in InData
  <2>1. gst \in InData /\ sck' = sck /\ count' = count
    BY <1>3, <1>4 DEF Arrows, Stays, Arrow, InData
  <2>2. OpenBuffers'
    BY <1>1, <1>3, <1>4, <2>1 DEF OpenBuffers, CountHit
  <2>3. NextToFill' = NextToFill
    BY RestKeepsTurn
  <2> QED
    BY <1>1, <1>3, <2>2, <2>3 DEF FullBuffers
<1>5. CASE gst' \notin InData
  <2>1. gst \in InData => fwTrg /\ gst' = "FRAME_END" /\ sck' = sck
    BY <1>5 DEF Arrows, Stays, Arrow, InData
  <2>2. OpenBuffers'
    BY <1>1, <1>3, <1>5, <2>1 DEF OpenBuffers
  <2>3. NextToFill' = NextToFill
    BY RestKeepsTurn
  <2> QED
    BY <1>1, <1>3, <2>2, <2>3 DEF FullBuffers
<1> QED
  BY <1>4, <1>5

(* A clock with a word: it goes to the socket in turn.                       *)
LEMMA PushTakesTurn ==
  ASSUME Types, CounterInv, HandshakeInv, OpenBuffers, Arrows, gst' = "PUSH_DATA"
  PROVE  /\ sck' = NextToFill /\ ~fwTrg
         /\ Len(buf[sck']) = count[sck'] /\ buf[Other(sck')] = <<>>
<1> USE TwoSockets
<1>1. sck \in Sockets
  BY DEF Types
<1>2. ~fwTrg
  BY DEF HandshakeInv, Arrows, Stays, Arrow
<1>3. /\ sck' = NextToFill
      /\ Len(buf[sck']) = count[sck'] /\ buf[Other(sck')] = <<>>
  <2>1. CASE gst = "WAIT_FOR_FRAME_START"
    <3>1. sck' = sck /\ NextToFill = sck
      BY <2>1 DEF Arrows, Stays, Arrow, NextToFill, InData
    <3>2. /\ buf[sck] = <<>> /\ buf[Other(sck)] = <<>>
          /\ count[sck] = 0
      BY <1>1, <2>1 DEF OpenBuffers, InData, CounterInv
    <3> QED
      BY <3>1, <3>2
  <2>2. CASE gst \in InData /\ CountHit(sck)
    <3>1. sck' = Other(sck) /\ NextToFill = Other(sck) /\ Other(sck') = sck
      BY <1>1, <2>2 DEF Arrows, Stays, Arrow, NextToFill, InData, CounterInv
    <3>2. buf[Other(sck)] = <<>> /\ Len(buf[sck]) = 0 /\ count[Other(sck)] = 0
      BY <1>2, <2>2 DEF OpenBuffers, CounterInv
    <3>3. buf[sck] = <<>>
      BY <1>1, <3>2 DEF Types, Words
    <3> QED
      BY <3>1, <3>2, <3>3
  <2>3. CASE gst \in InData /\ ~CountHit(sck)
    <3>1. sck' = sck /\ NextToFill = sck
      BY <1>2, <2>3 DEF Arrows, Stays, Arrow, NextToFill, InData, CounterInv
    <3> QED
      BY <1>2, <2>3, <3>1 DEF OpenBuffers
  <2> QED
    BY <2>1, <2>2, <2>3 DEF Arrows, Stays, Arrow, InData
<1> QED
  BY <1>2, <1>3

(* The buffers after it.                                                     *)
LEMMA PushKeepsBuffers ==
  ASSUME Types, RoomKept, CounterInv, HandshakeInv, BuffersInv, Arrows, Counts,
         gst' = "PUSH_DATA", NEW w \in Nat \X Nat, PushWord(sck', w),
         UNCHANGED <<usb, fwTrg, turn>>
  PROVE  BuffersInv'
<1> USE TwoSockets, GpifStreamAssumption
<1> SUFFICES ASSUME Intact' PROVE OpenBuffers' /\ FullBuffers'
  BY DEF BuffersInv
<1>1. sck \in Sockets /\ turn \in Sockets /\ sck' \in Sockets
  BY DEF Types, Arrows, Stays, Arrow
<1>2. /\ Intact
      /\ buf'[Other(sck')] = buf[Other(sck')] /\ full'[Other(sck')] = full[Other(sck')]
      /\ IF Len(buf[sck']) + 1 = BufWords
         THEN buf'[sck'] = <<>> /\ Len(full'[sck']) = Len(full[sck']) + 1
         ELSE Len(buf'[sck']) = Len(buf[sck']) + 1 /\ full'[sck'] = full[sck']
  BY <1>1, PushKeepsRoom
<1>3. OpenBuffers /\ FullBuffers
  BY <1>2 DEF BuffersInv
<1>4. count'[sck'] = count[sck'] + 1 /\ count[sck'] \in 0..BufWords /\ count[sck'] < BufWords
  BY <1>1, ClockKeepsCounter DEF Types
<1>5. ~fwTrg /\ ~fwTrg'
  BY DEF HandshakeInv, Arrows, Stays, Arrow
<1>6. /\ sck' = NextToFill
      /\ Len(buf[sck']) = count[sck'] /\ buf[Other(sck')] = <<>>
  BY <1>3, PushTakesTurn
<1>7. OpenBuffers'
  BY <1>1, <1>2, <1>4, <1>5, <1>6 DEF OpenBuffers, InData, CountHit
<1>8. NextToFill' = IF CountHit(sck)' THEN Other(sck') ELSE sck'
  BY <1>5 DEF NextToFill, InData
<1>9. FullBuffers'
  <2>1. NextToFill' = IF Len(buf[sck']) + 1 = BufWords THEN Other(sck') ELSE sck'
    BY <1>4, <1>6, <1>8 DEF CountHit
  <2>2. Len(full[turn]) \in Nat /\ Len(full[Other(turn)]) \in Nat
    BY <1>1 DEF Types
  <2>3. turn' = turn /\ (sck' = turn \/ sck' = Other(turn)) /\ Other(turn) # turn
        /\ Other(Other(turn)) = turn
    BY <1>1
  <2>4. IF sck' = turn THEN Len(full[turn]) = Len(full[Other(turn)])
                       ELSE Len(full[turn]) = Len(full[Other(turn)]) + 1
    BY <1>3, <1>6 DEF FullBuffers
  <2>5. CASE Len(buf[sck']) + 1 = BufWords
    <3>1. /\ full'[Other(sck')] = full[Other(sck')] /\ Len(full'[sck']) = Len(full[sck']) + 1
          /\ NextToFill' = Other(sck')
      BY <1>2, <2>1, <2>5
    <3> QED
      BY <2>2, <2>3, <2>4, <3>1 DEF FullBuffers
  <2>6. CASE Len(buf[sck']) + 1 # BufWords
    <3>1. full'[Other(sck')] = full[Other(sck')] /\ full'[sck'] = full[sck'] /\ NextToFill' = sck'
      BY <1>2, <2>1, <2>6
    <3> QED
      BY <2>2, <2>3, <2>4, <3>1 DEF FullBuffers
  <2> QED
    BY <2>5, <2>6
<1> QED
  BY <1>7, <1>9

(* One clock of the port.                                                    *)
LEMMA ClockKeeps == GpifInv /\ Clock => GpifInv'
<1> SUFFICES ASSUME GpifInv, Clock PROVE GpifInv'
  OBVIOUS
<1> USE DEF GpifInv
<1>1. /\ fv' \in BOOLEAN /\ lv' \in BOOLEAN /\ low' \in 0..FrameGap
      /\ lens' \in Seq(Nat) /\ pos' \in Nat
  BY BridgeKeeps DEF Clock
<1>2. Arrows
  BY <1>1, MovesAreArrows DEF Clock, Types
<1>3. /\ Counts /\ Interrupts
      /\ UNCHANGED <<fwTrg, turn, fid, usb, rxFid>>
      /\ IF gst' = "PUSH_DATA" THEN PushWord(sck', Word') ELSE UNCHANGED <<buf, full, damage>>
  BY DEF Clock, hostVars
<1>4. /\ gst' \in GpifStates /\ sck' \in Sockets /\ count' \in [Sockets -> 0..BufWords]
      /\ CounterInv'
  BY <1>2, <1>3, ClockKeepsCounter
<1>5. Word' \in Nat \X Nat
  BY <1>1 DEF Word, InFrame
<1>6. /\ buf' \in [Sockets -> Words] /\ full' \in [Sockets -> Seq(Words)]
      /\ damage' \in {"none", "glued", "lost"} /\ (Intact' => Intact)
      /\ RoomKept'
  <2>1. CASE gst' = "PUSH_DATA"
    BY <1>3, <1>4, <1>5, <2>1, PushKeepsRoom
  <2>2. CASE gst' # "PUSH_DATA"
    BY <1>3, <2>2 DEF Types, RoomKept, InUse, Open, Intact
  <2> QED
    BY <2>1, <2>2
<1>7. Types'
  BY <1>1, <1>3, <1>4, <1>6 DEF Types, Interrupts
<1>8. HandshakeInv'
  BY <1>2, <1>3 DEF HandshakeInv, NeverWaitsUnheard, Interrupts, InterruptStates, Arrows, Stays, Arrow
<1>9. BuffersInv'
  BY <1>2, <1>3, <1>5, RestKeepsBuffers, PushKeepsBuffers
<1>10. FrameIdFlipsAtEnd'
  BY <1>3, <1>6 DEF FrameIdFlipsAtEnd
<1> QED
  BY <1>4, <1>6, <1>7, <1>8, <1>9, <1>10

(* The interrupt handler, called in time or not, and its pulse.              *)
LEMMA HandlerKeeps == GpifInv /\ FrameEndInterrupt => GpifInv'
<1> SUFFICES ASSUME GpifInv, FrameEndInterrupt PROVE GpifInv'
  OBVIOUS
<1> USE TwoSockets DEF GpifInv
<1>1. /\ intr' = FALSE
      /\ UNCHANGED <<fv, lv, low, lens, pos, gst, sck, count, turn, fid, usb, rxFid, damage>>
  BY DEF FrameEndInterrupt, bridgeVars, gpifVars, hostVars
<1>2. CASE gst \notin {"PARTIAL_BUF_IN", "FULL_BUF_IN"}
  <2>1. UNCHANGED <<buf, full, fwTrg>>
    BY <1>2 DEF FrameEndInterrupt
  <2>2. Types'
    BY <1>1, <2>1 DEF Types
  <2>5. RoomKept'
    BY <1>1, <2>1 DEF RoomKept, InUse, Open
  <2>6. CounterInv'
    BY <1>1, <2>1 DEF CounterInv, CountHit
  <2>7. FrameIdFlipsAtEnd'
    BY <1>1, <2>1 DEF FrameIdFlipsAtEnd, Intact
  <2>3. HandshakeInv'
    BY <1>1, <1>2, <2>1 DEF HandshakeInv, NeverWaitsUnheard
  <2>4. BuffersInv'
    BY <1>1, <2>1 DEF BuffersInv, OpenBuffers, FullBuffers, NextToFill, CountHit, Intact
  <2> QED
    BY <2>2, <2>3, <2>4, <2>5, <2>6, <2>7
<1>3. CASE gst \in {"PARTIAL_BUF_IN", "FULL_BUF_IN"}
  <2>1. WrapUp(sck) /\ fwTrg' = TRUE
    BY <1>3 DEF FrameEndInterrupt
  <2>2. sck \in Sockets /\ turn \in Sockets /\ buf \in [Sockets -> Words]
    BY DEF Types
  <2>3. /\ buf' \in [Sockets -> Words] /\ full' \in [Sockets -> Seq(Words)]
        /\ RoomKept'
        /\ buf'[Other(sck)] = buf[Other(sck)] /\ full'[Other(sck)] = full[Other(sck)]
        /\ IF gst = "PARTIAL_BUF_IN" /\ buf[sck] # <<>>
           THEN buf'[sck] = <<>> /\ Len(full'[sck]) = Len(full[sck]) + 1
           ELSE buf'[sck] = buf[sck] /\ full'[sck] = full[sck]
    BY <1>1, <2>1, <2>2, WrapUpKeepsRoom
  <2>4. Types'
    BY <1>1, <2>1, <2>3 DEF Types
  <2>5. CounterInv' /\ HandshakeInv' /\ FrameIdFlipsAtEnd'
    BY <1>1, <1>3, <2>1
       DEF CounterInv, CountHit, HandshakeInv, NeverWaitsUnheard, FrameIdFlipsAtEnd, Intact
  <2>6. BuffersInv'
    <3> SUFFICES ASSUME Intact' PROVE OpenBuffers' /\ FullBuffers'
      BY DEF BuffersInv
    <3>1. OpenBuffers /\ FullBuffers
      BY <1>1 DEF BuffersInv, Intact
    <3>2. CASE fwTrg
      <4>1. \A s \in Sockets : buf[s] = <<>>
        BY <3>1, <3>2 DEF OpenBuffers
      <4>2. buf'[sck] = buf[sck] /\ full'[sck] = full[sck]
        BY <2>2, <2>3, <4>1
      <4>3. \A s \in Sockets : buf'[s] = buf[s] /\ full'[s] = full[s]
        BY <2>2, <2>3, <4>2
      <4>4. NextToFill' = NextToFill
        BY <1>1, <2>1, <3>2 DEF NextToFill, CountHit
      <4> QED
        BY <1>1, <2>1, <2>2, <3>1, <4>1, <4>3, <4>4 DEF OpenBuffers, FullBuffers
    <3>3. CASE ~fwTrg /\ gst = "FULL_BUF_IN"
      <4>1. gst \in InData /\ CountHit(sck)
        BY <3>3 DEF CounterInv, InData
      <4>2. \A s \in Sockets : buf'[s] = buf[s] /\ full'[s] = full[s]
        BY <2>2, <2>3, <3>3
      <4>3. buf[Other(sck)] = <<>> /\ Len(buf[sck]) = 0
        BY <3>1, <3>3, <4>1 DEF OpenBuffers
      <4>4. buf[sck] = <<>>
        BY <2>2, <4>3 DEF Words
      <4>5. NextToFill' = NextToFill
        BY <1>1, <2>1, <4>1 DEF NextToFill, CountHit
      <4> QED
        BY <1>1, <2>1, <2>2, <3>1, <4>2, <4>3, <4>4, <4>5 DEF OpenBuffers, FullBuffers
    <3>4. CASE ~fwTrg /\ gst = "PARTIAL_BUF_IN"
      <4>1. gst \in InData /\ ~CountHit(sck) /\ count[sck] # 0
        BY <3>4 DEF CounterInv, InData
      <4>2. buf[Other(sck)] = <<>> /\ Len(buf[sck]) # 0
        BY <3>1, <3>4, <4>1 DEF OpenBuffers
      <4>3. buf[sck] # <<>>
        BY <4>2
      <4>4. buf'[sck] = <<>> /\ Len(full'[sck]) = Len(full[sck]) + 1 /\ fwTrg'
        BY <2>1, <2>3, <3>4, <4>3
      <4>5. OpenBuffers'
        BY <1>1, <2>2, <2>3, <4>2, <4>4 DEF OpenBuffers
      <4>6. NextToFill = sck /\ NextToFill' = Other(sck)
        BY <1>1, <3>4, <4>1, <4>4 DEF NextToFill, CountHit
      <4>7. Len(full[turn]) \in Nat /\ Len(full[Other(turn)]) \in Nat
        BY <2>2 DEF Types
      <4>8. FullBuffers'
        BY <1>1, <2>2, <2>3, <3>1, <4>4, <4>6, <4>7 DEF FullBuffers
      <4> QED
        BY <4>5, <4>8
    <3> QED
      BY <1>3, <3>2, <3>3, <3>4
  <2> QED
    BY <2>3, <2>4, <2>5, <2>6
<1> QED
  BY <1>2, <1>3

(* The end of the pulse on the firmware's input.                              *)
LEMMA TriggerOffKeeps == GpifInv /\ TriggerOff => GpifInv'
<1> SUFFICES ASSUME GpifInv, TriggerOff PROVE GpifInv'
  OBVIOUS
<1> USE DEF GpifInv
<1>1. /\ gst \notin {"PARTIAL_BUF_IN", "FULL_BUF_IN"} /\ fwTrg /\ fwTrg' = FALSE
      /\ UNCHANGED <<fv, lv, low, lens, pos, gst, sck, count, intr, buf, full, turn, fid, usb,
                     rxFid, damage>>
  BY DEF TriggerOff, bridgeVars, gpifVars, dmaVars, hostVars
<1>2. gst = "FRAME_END"
  BY <1>1 DEF HandshakeInv
<1>3. Types' /\ RoomKept'
  BY <1>1 DEF Types, RoomKept, InUse, Open
<1>4. CounterInv' /\ HandshakeInv'
  BY <1>1, <1>2 DEF CounterInv, CountHit, HandshakeInv, NeverWaitsUnheard, InData
<1>5. BuffersInv' /\ FrameIdFlipsAtEnd'
  BY <1>1, <1>2 DEF BuffersInv, OpenBuffers, FullBuffers, NextToFill, Intact, FrameIdFlipsAtEnd, InData
<1> QED
  BY <1>3, <1>4, <1>5

-----------------------------------------------------------------------------
(* The DMA callback commits a buffer, or fails to.                           *)
LEMMA CommitKeeps == GpifInv /\ Commit => GpifInv'
<1> SUFFICES ASSUME GpifInv, Commit PROVE GpifInv'
  OBVIOUS
<1> USE TwoSockets, GpifStreamAssumption DEF GpifInv
<1> DEFINE words == Head(full[turn])
           p == [sck |-> turn, words |-> words, eof |-> EndsFrame(words), fid |-> fid]
<1>1. /\ full[turn] # <<>> /\ fid' = IF EndsFrame(words) THEN 1 - fid ELSE fid
      /\ UNCHANGED <<fv, lv, low, lens, pos, gst, sck, count, fwTrg, intr, buf, rxFid>>
  BY DEF Commit, FidAfter, bridgeVars, gpifVars, isrVars, hostVars
<1>2. /\ turn \in Sockets /\ full \in [Sockets -> Seq(Words)] /\ usb \in Seq(Payload)
      /\ fid \in {0, 1}
  BY DEF Types
<1>3. words \in Words /\ Tail(full[turn]) \in Seq(Words) /\ Len(full[turn]) \in Nat
      /\ Len(Tail(full[turn])) = Len(full[turn]) - 1
  BY <1>1, <1>2
<1>4. fid' \in {0, 1} /\ EndsFrame(words) \in BOOLEAN
  BY <1>1, <1>2 DEF EndsFrame
<1>5. p \in Payload
  BY <1>2, <1>3, <1>4 DEF Payload
<1>6. CounterInv' /\ HandshakeInv'
  BY <1>1 DEF CounterInv, CountHit, HandshakeInv, NeverWaitsUnheard
<1>7. CASE damage' = "lost" /\ UNCHANGED <<usb, full, turn>>
  <2>1. Types'
    BY <1>1, <1>4, <1>7 DEF Types
  <2>2. RoomKept'
    BY <1>1, <1>7 DEF RoomKept, InUse, Open
  <2> QED
    BY <1>6, <1>7, <2>1, <2>2 DEF BuffersInv, FrameIdFlipsAtEnd, Intact
<1>8. CASE /\ usb' = Append(usb, p) /\ full' = [full EXCEPT ![turn] = Tail(full[turn])]
           /\ turn' = Other(turn) /\ damage' = damage
  <2> HIDE DEF p, words
  <2>1. /\ full'[turn] = Tail(full[turn])
        /\ \A t \in Sockets : t # turn => full'[t] = full[t]
    BY <1>2, <1>8
  <2>2. full' \in [Sockets -> Seq(Words)] /\ usb' \in Seq(Payload) /\ turn' \in Sockets
    BY <1>2, <1>3, <1>5, <1>8
  <2>3. Types'
    BY <1>1, <1>4, <1>8, <2>2 DEF Types
  <2>4. p.sck = turn /\ p.fid = fid /\ p.eof = EndsFrame(words)
    BY DEF p
  <2>5. RoomKept'
    <3> SUFFICES ASSUME NEW s \in Sockets
                 PROVE  Len(buf'[s]) < BufWords /\ (InUse(s) + Open(s))' <= BufCount
      BY DEF RoomKept
    <3>1. /\ s = turn => Cardinality(At(usb', s)) = Cardinality(At(usb, s)) + 1
          /\ s # turn => Cardinality(At(usb', s)) = Cardinality(At(usb, s))
      BY <1>2, <1>5, <1>8, <2>4, OneMore
    <3>2. Cardinality(At(usb, s)) \in Nat /\ Len(full[s]) \in Nat
      BY <1>2, AtIsFinite
    <3>3. InUse(s) = Len(full[s]) + Cardinality(At(usb, s))
          /\ InUse(s)' = Len(full'[s]) + Cardinality(At(usb', s))
      BY DEF InUse, At
    <3>4. InUse(s)' = InUse(s)
      <4>1. CASE s = turn
        <5>1. Len(full'[s]) = Len(full[s]) - 1
          BY <1>3, <2>1, <4>1
        <5>2. Cardinality(At(usb', s)) = Cardinality(At(usb, s)) + 1
          BY <3>1, <4>1
        <5> QED
          BY <3>2, <3>3, <5>1, <5>2
      <4>2. CASE s # turn
        BY <2>1, <3>1, <3>2, <3>3, <4>2
      <4> QED
        BY <4>1, <4>2
    <3>5. Open(s)' = Open(s) /\ buf'[s] = buf[s]
      BY <1>1 DEF Open
    <3> QED
      BY <3>4, <3>5 DEF RoomKept
  <2>6. BuffersInv'
    <3> SUFFICES ASSUME Intact' PROVE OpenBuffers' /\ FullBuffers'
      BY DEF BuffersInv
    <3>1. OpenBuffers /\ FullBuffers
      BY <1>8 DEF BuffersInv, Intact
    <3>2. OpenBuffers'
      BY <1>1, <3>1 DEF OpenBuffers, CountHit
    <3>3. NextToFill' = NextToFill /\ NextToFill \in Sockets
      BY <1>1 DEF NextToFill, CountHit, Types
    <3>4. Len(full'[turn]) = Len(full[turn]) - 1 /\ full'[Other(turn)] = full[Other(turn)]
      BY <1>2, <1>3, <2>1
    <3>5. Len(full[Other(turn)]) \in Nat /\ turn' = Other(turn) /\ Other(turn') = turn
      BY <1>2, <1>8
    <3>6. Len(full'[turn']) = Len(full[Other(turn)])
          /\ Len(full'[Other(turn')]) = Len(full[turn]) - 1
      BY <3>4, <3>5
    <3>7. (NextToFill' = turn') <=> (NextToFill # turn)
      BY <1>2, <3>3, <3>5
    <3>8. FullBuffers'
      BY <1>3, <3>1, <3>5, <3>6, <3>7 DEF FullBuffers
    <3> QED
      BY <3>2, <3>8
  <2>7. FrameIdFlipsAtEnd'
    <3> SUFFICES ASSUME Intact', NEW k \in 1..Len(usb')
                 PROVE  (IF k = Len(usb') THEN fid' ELSE usb'[k + 1].fid) =
                          (IF usb'[k].eof THEN 1 - usb'[k].fid ELSE usb'[k].fid)
      BY DEF FrameIdFlipsAtEnd
    <3>1. Len(usb') = Len(usb) + 1 /\ usb'[Len(usb) + 1] = p
          /\ \A j \in 1..Len(usb) : usb'[j] = usb[j]
      BY <1>2, <1>5, <1>8
    <3>2. CASE k = Len(usb')
      BY <1>1, <2>4, <3>1, <3>2
    <3>3. CASE k = Len(usb)
      BY <1>2, <1>8, <2>4, <3>1, <3>3 DEF FrameIdFlipsAtEnd, Intact
    <3>4. CASE k < Len(usb)
      BY <1>2, <1>8, <3>1, <3>4 DEF FrameIdFlipsAtEnd, Intact
    <3> QED
      BY <1>2, <3>1, <3>2, <3>3, <3>4
  <2> QED
    BY <1>6, <2>3, <2>5, <2>6, <2>7
<1> QED
  BY <1>7, <1>8 DEF Commit

(* The host reads a payload.                                                 *)
LEMMA HostReadsKeeps == GpifInv /\ HostReads => GpifInv'
<1> SUFFICES ASSUME GpifInv, HostReads PROVE GpifInv'
  OBVIOUS
<1> USE DEF GpifInv
<1>1. /\ usb # <<>> /\ usb' = Tail(usb) /\ rxFid' = Head(usb).fid
      /\ damage' \in {damage, "none"} /\ (damage = "lost" => damage' = "lost")
      /\ UNCHANGED <<fv, lv, low, lens, pos, gst, sck, count, fwTrg, intr, buf, full, turn, fid>>
  BY DEF HostReads, bridgeVars, gpifVars, isrVars, dmaVars
<1>2. usb \in Seq(Payload) /\ Head(usb) \in Payload /\ Tail(usb) \in Seq(Payload)
      /\ Len(Tail(usb)) = Len(usb) - 1 /\ Len(usb) \in Nat
      /\ \A k \in 1..Len(Tail(usb)) : Tail(usb)[k] = usb[k + 1]
  BY <1>1 DEF Types
<1>3. Head(usb).fid \in {0, 1}
  BY <1>2 DEF Payload
<1>4. Types'
  BY <1>1, <1>2, <1>3 DEF Types
<1>5. RoomKept'
  <2> SUFFICES ASSUME NEW s \in Sockets
               PROVE  Len(buf'[s]) < BufWords /\ (InUse(s) + Open(s))' <= BufCount
    BY DEF RoomKept
  <2>1. /\ Cardinality(At(usb', s)) <= Cardinality(At(usb, s))
        /\ Cardinality(At(usb', s)) \in Nat /\ Cardinality(At(usb, s)) \in Nat
    <3>1. /\ Head(usb).sck = s => Cardinality(At(usb', s)) = Cardinality(At(usb, s)) - 1
          /\ Head(usb).sck # s => Cardinality(At(usb', s)) = Cardinality(At(usb, s))
      BY <1>1, <1>2, OneLess
    <3>2. Cardinality(At(usb', s)) \in Nat /\ Cardinality(At(usb, s)) \in Nat
      BY <1>1, <1>2, AtIsFinite
    <3> QED
      BY <3>1, <3>2
  <2>2. InUse(s) = Len(full[s]) + Cardinality(At(usb, s))
        /\ InUse(s)' = Len(full[s]) + Cardinality(At(usb', s)) /\ Len(full[s]) \in Nat
    BY <1>1 DEF InUse, At, Types
  <2>3. Open(s)' = Open(s) /\ buf'[s] = buf[s] /\ Open(s) \in {0, 1}
    BY <1>1 DEF Open
  <2> QED
    BY <2>1, <2>2, <2>3, GpifStreamAssumption DEF RoomKept
<1>6. CounterInv' /\ HandshakeInv'
  BY <1>1 DEF CounterInv, CountHit, HandshakeInv, NeverWaitsUnheard
<1>7. BuffersInv'
  BY <1>1 DEF BuffersInv, OpenBuffers, FullBuffers, NextToFill, CountHit, Intact
<1>8. FrameIdFlipsAtEnd'
  <2> SUFFICES ASSUME Intact', NEW k \in 1..Len(usb')
               PROVE  (IF k = Len(usb') THEN fid' ELSE usb'[k + 1].fid) =
                        (IF usb'[k].eof THEN 1 - usb'[k].fid ELSE usb'[k].fid)
    BY DEF FrameIdFlipsAtEnd
  <2>1. k + 1 \in 1..Len(usb) /\ usb'[k] = usb[k + 1] /\ (k = Len(usb') <=> k + 1 = Len(usb))
        /\ (k # Len(usb') => usb'[k + 1] = usb[(k + 1) + 1])
    <3>1. Len(usb') = Len(usb) - 1 /\ \A j \in 1..Len(usb') : usb'[j] = usb[j + 1]
      BY <1>1, <1>2
    <3>2. Len(usb) \in Nat
      BY <1>2
    <3> QED
      BY <3>1, <3>2
  <2>2. Intact
    BY <1>1 DEF Intact
  <2> QED
    BY <1>1, <2>1, <2>2 DEF FrameIdFlipsAtEnd
<1> QED
  BY <1>4, <1>5, <1>6, <1>7, <1>8

(* A channel without a buffer, as it is at start-up.                         *)
LEMMA EmptyChannel ==
  ASSUME usb = <<>>, buf = [s \in Sockets |-> <<>>], full = [s \in Sockets |-> <<>>]
  PROVE  /\ buf \in [Sockets -> Words] /\ full \in [Sockets -> Seq(Words)] /\ usb \in Seq(Payload)
         /\ \A s \in Sockets : buf[s] = <<>> /\ Len(full[s]) = 0
         /\ RoomKept /\ FrameIdFlipsAtEnd
<1>1. buf \in [Sockets -> Words] /\ full \in [Sockets -> Seq(Words)] /\ usb \in Seq(Payload)
  BY DEF Words
<1>2. \A s \in Sockets : buf[s] = <<>> /\ Len(full[s]) = 0 /\ Len(buf[s]) = 0
  OBVIOUS
<1>3. \A s \in Sockets : InUse(s) = 0
  <2>1. \A s \in Sockets : At(usb, s) = {}
    BY DEF At
  <2> QED
    BY <1>2, <2>1, FS_EmptySet DEF InUse, At
<1>4. RoomKept
  BY <1>2, <1>3, GpifStreamAssumption DEF RoomKept, Open
<1>5. FrameIdFlipsAtEnd
  BY DEF FrameIdFlipsAtEnd
<1> QED
  BY <1>1, <1>2, <1>4, <1>5

(* The stream is restarted: nothing is left but the counters.                *)
LEMMA RestartKeeps == GpifInv /\ Restart => GpifInv'
<1> SUFFICES ASSUME GpifInv, Restart PROVE GpifInv'
  OBVIOUS
<1> USE TwoSockets DEF GpifInv
<1>1. /\ gst' = "START" /\ sck' = 0 /\ turn' = 0 /\ fid' = 0 /\ ~fwTrg
      /\ usb' = <<>> /\ buf' = [s \in Sockets |-> <<>>] /\ full' = [s \in Sockets |-> <<>>]
      /\ damage' \in {"none", "glued"}
      /\ UNCHANGED <<fv, lv, low, lens, pos, count, fwTrg, intr, rxFid>>
  BY DEF Restart, FirstState, bridgeVars, isrVars
<1>2. /\ buf' \in [Sockets -> Words] /\ full' \in [Sockets -> Seq(Words)] /\ usb' \in Seq(Payload)
      /\ \A s \in Sockets : buf'[s] = <<>> /\ Len(full'[s]) = 0
      /\ RoomKept' /\ FrameIdFlipsAtEnd'
  <2>1. buf' \in [Sockets -> Words] /\ full' \in [Sockets -> Seq(Words)] /\ usb' \in Seq(Payload)
    BY <1>1 DEF Words
  <2>2. \A s \in Sockets : buf'[s] = <<>> /\ Len(full'[s]) = 0 /\ Len(buf'[s]) = 0
    BY <1>1
  <2>3. \A s \in Sockets : Cardinality({k \in DOMAIN usb' : usb'[k].sck = s}) = 0
    <3>1. \A s \in Sockets : {k \in DOMAIN usb' : usb'[k].sck = s} = {}
      BY <1>1
    <3> QED
      BY <3>1, FS_EmptySet
  <2>4. RoomKept'
    BY <2>2, <2>3, GpifStreamAssumption DEF RoomKept, Open, InUse
  <2>5. FrameIdFlipsAtEnd'
    BY <1>1 DEF FrameIdFlipsAtEnd
  <2> QED
    BY <2>1, <2>2, <2>4, <2>5
<1>3. Types'
  BY <1>1, <1>2 DEF Types, GpifStates
<1>4. CounterInv' /\ HandshakeInv'
  BY <1>1 DEF CounterInv, HandshakeInv, NeverWaitsUnheard, InData
<1>5. BuffersInv'
  BY <1>1, <1>2 DEF BuffersInv, OpenBuffers, FullBuffers, NextToFill, InData
<1> QED
  BY <1>2, <1>3, <1>4, <1>5

-----------------------------------------------------------------------------
(* The inductive invariant, for every buffer size, number of buffers and     *)
(* lengths of frames.                                                        *)
THEOREM Invariance == Spec => []GpifInv
<1>1. Init => GpifInv
  <2> SUFFICES ASSUME Init PROVE GpifInv
    OBVIOUS
  <2> USE DEF Init
  <2>1. /\ buf \in [Sockets -> Words] /\ full \in [Sockets -> Seq(Words)] /\ usb \in Seq(Payload)
        /\ \A s \in Sockets : buf[s] = <<>> /\ Len(full[s]) = 0
        /\ RoomKept /\ FrameIdFlipsAtEnd
    BY EmptyChannel
  <2>2. FrameGap \in 0..FrameGap
    BY DEF FrameGap
  <2>3. count \in [Sockets -> 0..BufWords]
    BY GpifStreamAssumption
  <2>4. Types
    BY <2>1, <2>2, <2>3, TwoSockets DEF Types, GpifStates
  <2>5. CounterInv /\ HandshakeInv
    BY DEF CounterInv, HandshakeInv, NeverWaitsUnheard, InData
  <2>6. BuffersInv
    BY <2>1, TwoSockets DEF BuffersInv, OpenBuffers, FullBuffers, NextToFill, InData
  <2> QED
    BY <2>1, <2>4, <2>5, <2>6 DEF GpifInv
<1>2. GpifInv /\ [Next]_vars => GpifInv'
  <2>1. GpifInv /\ UNCHANGED vars => GpifInv'
    <3> SUFFICES ASSUME GpifInv, UNCHANGED vars PROVE GpifInv'
      OBVIOUS
    <3> USE DEF GpifInv, vars, bridgeVars, gpifVars, isrVars, dmaVars, hostVars
    <3>1. Types'
      BY DEF Types
    <3>2. RoomKept'
      BY DEF RoomKept, InUse, Open
    <3>3. CounterInv' /\ HandshakeInv'
      BY DEF CounterInv, CountHit, HandshakeInv, NeverWaitsUnheard
    <3>4. BuffersInv' /\ FrameIdFlipsAtEnd'
      BY DEF BuffersInv, OpenBuffers, FullBuffers, NextToFill, CountHit, Intact, FrameIdFlipsAtEnd
    <3> QED
      BY <3>1, <3>2, <3>3, <3>4
  <2> QED
    BY <2>1, ClockKeeps, HandlerKeeps, TriggerOffKeeps, CommitKeeps, HostReadsKeeps, RestartKeeps
       DEF Next
<1> QED
  BY <1>1, <1>2, PTL DEF Spec

(* The types of the machine, the channel and the bridge, and no socket ever  *)
(* holds more buffers than it owns (dmaMultiConfig, uvc.c).                  *)
THEOREM TypeCorrect == Spec => []TypeOK
<1>1. GpifInv => TypeOK
  BY DEF GpifInv, Types, RoomKept, Open, TypeOK
<1> QED
  BY <1>1, Invariance, PTL

(* The machine's counter and the socket's buffer never disagree in an intact *)
(* stream, so FULL_BUF_IN and PARTIAL_BUF_IN are entered for the right one.  *)
THEOREM CounterExact == Spec => []CounterTracksBuffer
<1>1. GpifInv => CounterTracksBuffer
  <2> SUFFICES ASSUME GpifInv, Intact, gst \in InData, ~fwTrg
               PROVE  Len(buf[sck]) = count[sck] \/ (CountHit(sck) /\ buf[sck] = <<>>)
    BY DEF CounterTracksBuffer
  <2>1. Len(buf[sck]) = IF CountHit(sck) THEN 0 ELSE count[sck]
    BY DEF GpifInv, BuffersInv, OpenBuffers
  <2>2. Len(buf[sck]) = 0 => buf[sck] = <<>>
    BY DEF GpifInv, Types, Words
  <2> QED
    BY <2>1, <2>2
<1> QED
  BY <1>1, Invariance, PTL

(* Machine and firmware take the sockets in the same turn.                   *)
THEOREM InTurn == Spec => []SocketsInTurn
<1>1. GpifInv => SocketsInTurn
  <2> SUFFICES ASSUME GpifInv, Intact
               PROVE  /\ buf[Other(NextToFill)] = <<>>
                      /\ Len(full[turn]) - Len(full[Other(turn)]) =
                           (IF NextToFill = turn THEN 0 ELSE 1)
    BY DEF SocketsInTurn
  <2> USE DEF GpifInv
  <2>1. sck \in Sockets /\ turn \in Sockets
        /\ Len(full[turn]) \in Nat /\ Len(full[Other(turn)]) \in Nat
    BY TwoSockets DEF Types
  <2>2. Len(full[turn]) - Len(full[Other(turn)]) = (IF NextToFill = turn THEN 0 ELSE 1)
    <3>1. CASE NextToFill = turn
      BY <2>1, <3>1 DEF BuffersInv, FullBuffers
    <3>2. CASE NextToFill # turn
      <4>1. Len(full[turn]) = Len(full[Other(turn)]) + 1
        BY <3>2 DEF BuffersInv, FullBuffers
      <4> QED
        BY <2>1, <3>2, <4>1
    <3> QED
      BY <3>1, <3>2
  <2>3. CASE gst \in InData /\ ~fwTrg /\ CountHit(sck)
    <3>1. Len(buf[sck]) = 0
      BY <2>3 DEF BuffersInv, OpenBuffers
    <3>2. buf[sck] = <<>>
      BY <2>1, <3>1 DEF Types, Words
    <3> QED
      BY <2>1, <2>2, <2>3, <3>2, TwoSockets DEF NextToFill
  <2>4. CASE gst \in InData /\ ~fwTrg /\ ~CountHit(sck)
    <3>1. NextToFill = sck
      BY <2>4 DEF NextToFill, InData
    <3> QED
      BY <2>2, <2>4, <3>1 DEF BuffersInv, OpenBuffers
  <2>5. CASE ~(gst \in InData /\ ~fwTrg)
    <3>1. Other(NextToFill) \in Sockets
      BY <2>1, TwoSockets DEF NextToFill
    <3> QED
      BY <2>2, <2>5, <3>1 DEF BuffersInv, OpenBuffers
  <2> QED
    BY <2>3, <2>4, <2>5
<1> QED
  BY <1>1, Invariance, PTL

(* Frames can be told apart by their frame ID alone.                         *)
THEOREM FrameIds == Spec => []FrameIdFlipsAtEnd
<1>1. GpifInv => FrameIdFlipsAtEnd
  BY DEF GpifInv
<1> QED
  BY <1>1, Invariance, PTL

(* The machine never waits for a firmware that has not been told.            *)
THEOREM Heard == Spec => []NeverWaitsUnheard
<1>1. GpifInv => NeverWaitsUnheard
  BY DEF GpifInv, HandshakeInv
<1> QED
  BY <1>1, Invariance, PTL
-----------------------------------------------------------------------------
(* What the chain of buffers from the open one to the host's frame holds.    *)
(* L is the lengths of the frames.                                           *)
LastOf(b) == b[Len(b)]

(* The word that may follow another in the buffers.                          *)
Ahead(L, v, w) ==
  \/ v[2] < L[v[1]] /\ w = <<v[1], v[2] + 1>>
  \/ v[2] = L[v[1]] /\ w[1] > v[1] /\ w[2] = 1
After(L, b, w) == IF b = <<>> THEN w[2] = 1 ELSE Ahead(L, LastOf(b), w)

(* Words of one frame without a gap, the first at a multiple of BufWords.    *)
Block(L, b) ==
  /\ b # <<>> /\ Len(b) <= BufWords
  /\ b[1][1] \in 1..Len(L) /\ b[1][2] # 0 /\ (b[1][2] - 1) % BufWords = 0
  /\ b[1][2] + Len(b) - 1 <= L[b[1][1]]
  /\ \A k \in 1..Len(b) : b[k] = <<b[1][1], b[1][2] + k - 1>>

(* A block that is full or ends its frame.                                   *)
Complete(L, b) == Block(L, b) /\ (Len(b) = BufWords \/ LastOf(b)[2] = L[b[1][1]])

(* More frames are sent.                                                     *)
Grown(L, M) == Len(L) <= Len(M) /\ \A k \in 1..Len(L) : M[k] = L[k]

(* The last and the first buffer of a channel: u is what is committed, f the *)
(* full buffers, t the socket in turn, n the one being filled and o its open *)
(* buffer.                                                                   *)
Newest(u, f, n) ==
  IF f[Other(n)] # <<>> THEN LastOf(f[Other(n)])
  ELSE IF u # <<>> THEN LastOf(u).words ELSE <<>>
Oldest(u, f, t, o) ==
  IF u # <<>> THEN u[1].words ELSE IF f[t] # <<>> THEN f[t][1] ELSE o

(* The sockets are ahead of the firmware by one buffer or none.              *)
Even(f, t, n) ==
  IF n = t THEN Len(f[t]) = Len(f[Other(t)]) ELSE Len(f[t]) = Len(f[Other(t)]) + 1

(* The channel holds complete blocks and an open one, each ahead of the one  *)
(* before it in the order the firmware will take them.                       *)
Committed(L, u) ==
  /\ \A k \in 1..Len(u) : Complete(L, u[k].words) /\ (u[k].eof <=> Len(u[k].words) # BufWords)
  /\ \A k \in 1..Len(u) : k + 1 <= Len(u) => After(L, u[k].words, u[k + 1].words[1])
Filled(L, f, t) ==
  /\ \A s \in Sockets : \A j \in 1..Len(f[s]) : Complete(L, f[s][j])
  /\ \A j \in 1..Len(f[Other(t)]) : After(L, f[t][j], f[Other(t)][j][1])
  /\ \A j \in 1..Len(f[t]) : j + 1 <= Len(f[t]) => After(L, f[Other(t)][j], f[t][j + 1][1])
Chain(L, u, f, t, n, o) ==
  /\ Committed(L, u) /\ Filled(L, f, t)
  /\ u # <<>> /\ f[t] # <<>> => After(L, LastOf(u).words, f[t][1][1])
  /\ o # <<>> => Block(L, o) /\ Len(o) < BufWords
  /\ o # <<>> /\ Newest(u, f, n) # <<>> => After(L, Newest(u, f, n), o[1])

(* Whole buffers.                                                            *)
LEMMA Multiples ==
  ASSUME NEW m \in Nat, m % BufWords = 0, NEW n \in Nat
  PROVE  (n < BufWords => (m + n) % BufWords = n) /\ (m + BufWords) % BufWords = 0
<1> DEFINE q == m \div BufWords
<1>1. BufWords \in Nat \ {0}
  BY GpifStreamAssumption
<1>2. q \in Int /\ m = BufWords * q
  BY <1>1
<1> HIDE DEF q
<1>3. n < BufWords => (BufWords * q + n) % BufWords = n
  BY <1>1, <1>2
<1>4. (BufWords * (q + 1) + 0) % BufWords = 0
  <2> DEFINE p == q + 1
  <2>1. p \in Int
    BY <1>2
  <2> HIDE DEF p
  <2>2. (BufWords * p + 0) % BufWords = 0
    BY <1>1, <2>1
  <2> QED
    BY <2>2 DEF p
<1>5. BufWords * (q + 1) + 0 = m + BufWords
  BY <1>1, <1>2
<1> QED
  BY <1>2, <1>3, <1>4, <1>5

(* A block's last word.                                                      *)
LEMMA BlockEnds ==
  ASSUME NEW L \in Seq(Nat), NEW b \in Words, Block(L, b)
  PROVE  /\ Len(b) \in 1..BufWords /\ b[1] \in Nat \X Nat
         /\ LastOf(b) = <<b[1][1], b[1][2] + Len(b) - 1>>
         /\ LastOf(b)[2] \in 1..L[b[1][1]] /\ L[b[1][1]] \in Nat
         /\ b[1][1] \in 1..Len(L)
         /\ Len(b) = BufWords => LastOf(b)[2] % BufWords = 0
         /\ Len(b) # BufWords => LastOf(b)[2] % BufWords # 0
<1>1. Len(b) \in 1..BufWords /\ b[1] \in Nat \X Nat
  BY DEF Block, Words
<1>2. LastOf(b) = <<b[1][1], b[1][2] + Len(b) - 1>>
  <2>1. \A k \in 1..Len(b) : b[k] = <<b[1][1], b[1][2] + k - 1>>
    BY DEF Block
  <2>2. Len(b) \in 1..Len(b)
    BY <1>1, GpifStreamAssumption
  <2> QED
    BY <2>1, <2>2 DEF LastOf
<1>3. L[b[1][1]] \in Nat /\ b[1][1] \in 1..Len(L)
  BY DEF Block
<1>4. LastOf(b)[2] = (b[1][2] - 1) + Len(b)
  BY <1>1, <1>2
<1>5. LastOf(b)[2] \in 1..L[b[1][1]]
  <2> DEFINE i == b[1][2]
             n == Len(b)
             top == L[b[1][1]]
  <2>1. i \in Nat /\ i # 0 /\ i + n - 1 <= top /\ LastOf(b)[2] = (i - 1) + n
    BY <1>1, <1>4 DEF Block
  <2>2. n \in Nat /\ 1 <= n /\ top \in Nat
    BY <1>1, <1>3, GpifStreamAssumption
  <2> HIDE DEF i, n, top
  <2>3. LastOf(b)[2] \in 1..top
    BY <2>1, <2>2
  <2> QED
    BY <2>3 DEF top
<1> DEFINE m == b[1][2] - 1
<1>6. m \in Nat /\ m % BufWords = 0
  <2>1. b[1][2] \in Nat /\ b[1][2] # 0
    BY <1>1 DEF Block
  <2>2. (b[1][2] - 1) % BufWords = 0
    BY DEF Block
  <2> QED
    BY <2>1, <2>2
<1> HIDE DEF m
<1>7. /\ Len(b) < BufWords => (m + Len(b)) % BufWords = Len(b)
      /\ (m + BufWords) % BufWords = 0
  BY <1>1, <1>6, Multiples
<1>8. LastOf(b)[2] = m + Len(b)
  BY <1>4 DEF m
<1>9. Len(b) = BufWords => LastOf(b)[2] % BufWords = 0
  BY <1>7, <1>8
<1>10. Len(b) # BufWords => LastOf(b)[2] % BufWords # 0
  <2> SUFFICES ASSUME Len(b) # BufWords PROVE LastOf(b)[2] % BufWords # 0
    OBVIOUS
  <2>1. Len(b) < BufWords /\ Len(b) # 0
    BY <1>1, GpifStreamAssumption
  <2> QED
    BY <1>7, <1>8, <2>1
<1> QED
  BY <1>1, <1>2, <1>3, <1>5, <1>9, <1>10

(* The first word of a block.                                                *)
LEMMA BlockBegins ==
  ASSUME NEW L \in Seq(Nat), NEW w \in Nat \X Nat, w[1] \in 1..Len(L),
         w[2] # 0, (w[2] - 1) % BufWords = 0, w[2] <= L[w[1]]
  PROVE  /\ Block(L, Append(<<>>, w)) /\ Append(<<>>, w) \in Words
         /\ Append(<<>>, w)[1] = w /\ LastOf(Append(<<>>, w)) = w
<1>1. Append(<<>>, w) \in Words /\ Len(Append(<<>>, w)) = 1 /\ Append(<<>>, w)[1] = w
  BY DEF Words
<1>2. w = <<w[1], w[2]>> /\ w[1] \in Nat /\ w[2] \in Nat
  OBVIOUS
<1>3. 1 <= BufWords /\ BufWords \in Nat
  BY GpifStreamAssumption
<1> QED
  BY <1>1, <1>2, <1>3 DEF Block, LastOf

(* A word more.                                                              *)
LEMMA BlockContinues ==
  ASSUME NEW L \in Seq(Nat), NEW b \in Words, Block(L, b), Len(b) < BufWords,
         NEW w \in Nat \X Nat, LastOf(b)[2] < L[b[1][1]],
         w = <<LastOf(b)[1], LastOf(b)[2] + 1>>
  PROVE  /\ Block(L, Append(b, w)) /\ Append(b, w) \in Words
         /\ Append(b, w)[1] = b[1] /\ LastOf(Append(b, w)) = w
<1> DEFINE c == Append(b, w)
<1>1. /\ c \in Words /\ Len(c) = Len(b) + 1 /\ c[Len(b) + 1] = w
      /\ \A k \in 1..Len(b) : c[k] = b[k]
  BY DEF Words
<1>2. Len(b) \in 1..BufWords /\ b[1] \in Nat \X Nat
      /\ LastOf(b) = <<b[1][1], b[1][2] + Len(b) - 1>>
      /\ b[1][1] \in 1..Len(L) /\ L[b[1][1]] \in Nat
  BY BlockEnds
<1> HIDE DEF c
<1>3. c[1] = b[1] /\ c # <<>>
  BY <1>1, <1>2
<1>4. w = <<b[1][1], b[1][2] + Len(b)>> /\ LastOf(b)[2] = b[1][2] + Len(b) - 1
  BY <1>2
<1>5. \A k \in 1..Len(c) : c[k] = <<c[1][1], c[1][2] + k - 1>>
  <2> TAKE k \in 1..Len(c)
  <2>1. CASE k = Len(b) + 1
    BY <1>1, <1>2, <1>3, <1>4, <2>1
  <2>2. CASE k \in 1..Len(b)
    BY <1>1, <1>3, <2>2 DEF Block
  <2> QED
    BY <1>1, <1>2, <2>1, <2>2
<1>6. c[1][2] + Len(c) - 1 <= L[c[1][1]]
  BY <1>1, <1>2, <1>3, <1>4
<1>7. Block(L, c)
  <2>1. Len(c) <= BufWords
    BY <1>1, <1>2, GpifStreamAssumption
  <2>2. c[1][1] \in 1..Len(L) /\ c[1][2] # 0 /\ (c[1][2] - 1) % BufWords = 0
    BY <1>3 DEF Block
  <2> QED
    BY <1>3, <1>5, <1>6, <2>1, <2>2 DEF Block
<1>8. LastOf(c) = w
  BY <1>1 DEF LastOf
<1> QED
  BY <1>1, <1>3, <1>7, <1>8 DEF c

(* Frames sent later change nothing about a block.                           *)
LEMMA BlockGrows ==
  ASSUME NEW L \in Seq(Nat), NEW M \in Seq(Nat), Grown(L, M), NEW b \in Words, Block(L, b)
  PROVE  /\ Block(M, b) /\ (Complete(L, b) => Complete(M, b))
         /\ \A w : After(L, b, w) => After(M, b, w)
<1>1. b[1][1] \in 1..Len(L) /\ M[b[1][1]] = L[b[1][1]] /\ b[1][1] \in 1..Len(M)
  <2>1. b[1][1] \in 1..Len(L)
    BY DEF Block
  <2>2. Len(L) \in Nat /\ Len(M) \in Nat /\ Len(L) <= Len(M)
    BY DEF Grown
  <2>3. \A k \in 1..Len(L) : M[k] = L[k] /\ k \in 1..Len(M)
    BY <2>2 DEF Grown
  <2> QED
    BY <2>1, <2>3
<1>2. Block(M, b)
  BY <1>1 DEF Block
<1>3. LastOf(b)[1] = b[1][1]
  BY BlockEnds
<1> QED
  BY <1>1, <1>2, <1>3 DEF Complete, After, Ahead

(* A channel: the types, and the sockets in turn.                            *)
Channel(u, f, t, n, o) ==
  /\ u \in Seq(Payload) /\ f \in [Sockets -> Seq(Words)] /\ o \in Words
  /\ t \in Sockets /\ n \in Sockets /\ Even(f, t, n)

(* What a committed payload carries.                                         *)
LEMMA PayloadWords ==
  ASSUME NEW u \in Seq(Payload)
  PROVE  \A k \in 1..Len(u) : u[k].words \in Words /\ u[k].eof \in BOOLEAN
<1>1. \A k \in 1..Len(u) : u[k] \in Payload
  OBVIOUS
<1> QED
  BY <1>1 DEF Payload

(* A sequence with one element more.                                         *)
LEMMA Appended ==
  ASSUME NEW S, NEW u \in Seq(S), NEW p \in S
  PROVE  /\ Append(u, p) \in Seq(S) /\ Len(u) \in Nat /\ Len(Append(u, p)) = Len(u) + 1
         /\ Append(u, p) # <<>> /\ Append(u, p)[Len(u) + 1] = p
         /\ \A k \in 1..Len(u) : Append(u, p)[k] = u[k]
OBVIOUS

(* A sequence without its first element.                                     *)
LEMMA Tailed ==
  ASSUME NEW S, NEW u \in Seq(S), u # <<>>
  PROVE  /\ Tail(u) \in Seq(S) /\ Len(u) \in Nat /\ Len(u) # 0 /\ Len(Tail(u)) = Len(u) - 1
         /\ \A k \in 1..Len(Tail(u)) : Tail(u)[k] = u[k + 1]
OBVIOUS

(* The empty sequence.                                                       *)
LEMMA EmptyOrNot ==
  ASSUME NEW S, NEW u \in Seq(S)
  PROVE  Len(u) \in Nat /\ (u = <<>> <=> Len(u) = 0)
OBVIOUS

(* The channel's ends: what is not empty there is a block.                   *)
LEMMA Ends ==
  ASSUME NEW L \in Seq(Nat), NEW u, NEW f, NEW t, NEW n, NEW o,
         Channel(u, f, t, n, o), Chain(L, u, f, t, n, o)
  PROVE  /\ Newest(u, f, n) \in Words /\ Oldest(u, f, t, o) \in Words
         /\ (Newest(u, f, n) = <<>>) <=> (u = <<>> /\ f[t] = <<>>)
         /\ Newest(u, f, n) # <<>> => Complete(L, Newest(u, f, n))
         /\ Oldest(u, f, t, o) # <<>> => Block(L, Oldest(u, f, t, o))
         /\ u # <<>> => u[1].words # <<>>
         /\ f[t] # <<>> => f[t][1] # <<>>
<1> USE TwoSockets DEF Channel
<1>1. \A k \in 1..Len(u) : u[k].words \in Words /\ Complete(L, u[k].words)
  BY PayloadWords DEF Chain, Committed
<1>2. \A s \in Sockets : f[s] \in Seq(Words) /\ \A j \in 1..Len(f[s]) : f[s][j] \in Words /\ Complete(L, f[s][j])
  BY DEF Chain, Filled
<1>3. \A b \in Words : Complete(L, b) => b # <<>> /\ Block(L, b)
  BY DEF Complete, Block
<1>4. u # <<>> => Len(u) \in 1..Len(u) /\ 1 \in 1..Len(u)
  OBVIOUS
<1>5. \A s \in Sockets : f[s] # <<>> => Len(f[s]) \in 1..Len(f[s]) /\ 1 \in 1..Len(f[s])
  BY <1>2
<1>6. <<>> \in Words
  BY DEF Words
<1>7. Other(n) \in Sockets
  OBVIOUS
<1>8. f[Other(n)] = <<>> <=> f[t] = <<>>
  <2>1. Len(f[t]) \in Nat /\ Len(f[Other(t)]) \in Nat /\ (n = t \/ Other(n) = t)
        /\ (f[t] = <<>> <=> Len(f[t]) = 0) /\ (f[Other(t)] = <<>> <=> Len(f[Other(t)]) = 0)
    BY <1>2
  <2>2. CASE n = t
    BY <2>1, <2>2 DEF Even
  <2>3. CASE Other(n) = t
    BY <2>3
  <2> QED
    BY <2>1, <2>2, <2>3
<1>9. f[Other(n)] # <<>> => Newest(u, f, n) \in Words /\ Complete(L, Newest(u, f, n))
  BY <1>2, <1>5, <1>7 DEF Newest, LastOf
<1>10. f[Other(n)] = <<>> /\ u # <<>> => Newest(u, f, n) \in Words /\ Complete(L, Newest(u, f, n))
  BY <1>1, <1>4 DEF Newest, LastOf
<1>11. f[Other(n)] = <<>> /\ u = <<>> => Newest(u, f, n) = <<>>
  BY DEF Newest
<1>12. u # <<>> => Oldest(u, f, t, o) \in Words /\ Complete(L, Oldest(u, f, t, o)) /\ u[1].words # <<>>
  BY <1>1, <1>3, <1>4 DEF Oldest
<1>13. f[t] # <<>> => f[t][1] \in Words /\ Complete(L, f[t][1]) /\ f[t][1] # <<>>
  BY <1>2, <1>3, <1>5
<1>14. u = <<>> /\ f[t] # <<>> => Oldest(u, f, t, o) = f[t][1]
  BY DEF Oldest
<1>15. u = <<>> /\ f[t] = <<>> => Oldest(u, f, t, o) = o /\ (o # <<>> => Block(L, o))
  BY DEF Oldest, Chain
<1>16. Newest(u, f, n) \in Words /\ ((Newest(u, f, n) = <<>>) <=> (u = <<>> /\ f[t] = <<>>))
       /\ (Newest(u, f, n) # <<>> => Complete(L, Newest(u, f, n)))
  BY <1>3, <1>6, <1>8, <1>9, <1>10, <1>11
<1>17. Oldest(u, f, t, o) \in Words /\ (Oldest(u, f, t, o) # <<>> => Block(L, Oldest(u, f, t, o)))
  BY <1>3, <1>12, <1>13, <1>14, <1>15
<1> QED
  BY <1>12, <1>13, <1>16, <1>17

(* Frames sent later change nothing about the channel.                       *)
LEMMA ChainGrows ==
  ASSUME NEW L \in Seq(Nat), NEW M \in Seq(Nat), Grown(L, M), NEW u, NEW f, NEW t, NEW n, NEW o,
         Channel(u, f, t, n, o), Chain(L, u, f, t, n, o)
  PROVE  Chain(M, u, f, t, n, o)
<1> USE TwoSockets DEF Channel
<1>1. \A b \in Words : Block(L, b) => Block(M, b) /\ (Complete(L, b) => Complete(M, b))
                                      /\ \A w : After(L, b, w) => After(M, b, w)
  BY BlockGrows
<1>2. \A b \in Words : Complete(L, b) => Complete(M, b) /\ \A w : After(L, b, w) => After(M, b, w)
  BY <1>1 DEF Complete
<1>3. \A k \in 1..Len(u) : u[k].words \in Words /\ Complete(L, u[k].words)
  BY PayloadWords DEF Chain, Committed
<1>4. \A s \in Sockets : f[s] \in Seq(Words) /\ \A j \in 1..Len(f[s]) : f[s][j] \in Words /\ Complete(L, f[s][j])
  BY DEF Chain, Filled
<1>5. Committed(M, u)
  BY <1>2, <1>3 DEF Chain, Committed
<1>6. Other(t) \in Sockets /\ Len(f[Other(t)]) <= Len(f[t]) /\ Len(f[t]) <= Len(f[Other(t)]) + 1
      /\ Len(f[t]) \in Nat /\ Len(f[Other(t)]) \in Nat
  BY <1>4 DEF Even
<1>7. Filled(M, f, t)
  <2>1. \A s \in Sockets : \A j \in 1..Len(f[s]) : Complete(M, f[s][j])
    BY <1>2, <1>4
  <2>2. ASSUME NEW j \in 1..Len(f[Other(t)]) PROVE After(M, f[t][j], f[Other(t)][j][1])
    <3>1. j \in 1..Len(f[t])
      BY <1>6
    <3>2. f[t][j] \in Words /\ Complete(L, f[t][j])
      BY <1>4, <3>1
    <3> QED
      BY <1>2, <3>2 DEF Chain, Filled
  <2>3. ASSUME NEW j \in 1..Len(f[t]), j + 1 <= Len(f[t]) PROVE After(M, f[Other(t)][j], f[t][j + 1][1])
    <3>1. j \in 1..Len(f[Other(t)])
      BY <1>6, <2>3
    <3>2. f[Other(t)][j] \in Words /\ Complete(L, f[Other(t)][j])
      BY <1>4, <1>6, <3>1
    <3> QED
      BY <1>2, <2>3, <3>2 DEF Chain, Filled
  <2> QED
    BY <2>1, <2>2, <2>3 DEF Filled
<1>8. u # <<>> /\ f[t] # <<>> => After(M, LastOf(u).words, f[t][1][1])
  BY <1>2, <1>3 DEF Chain, LastOf
<1>9. o # <<>> => Block(M, o) /\ Len(o) < BufWords
  BY <1>1 DEF Chain
<1>10. o # <<>> /\ Newest(u, f, n) # <<>> => After(M, Newest(u, f, n), o[1])
  BY <1>2, Ends DEF Chain
<1> QED
  BY <1>5, <1>7, <1>8, <1>9, <1>10 DEF Chain

(* A payload of the words b; the full buffers g when the oldest of f is taken. *)
Carries(p, b) == p.words = b /\ (p.eof <=> Len(b) # BufWords)
Taken(f, t, g) ==
  /\ f[t] # <<>> /\ g \in [Sockets -> Seq(Words)]
  /\ g[t] = Tail(f[t]) /\ g[Other(t)] = f[Other(t)]

(* The firmware commits the oldest full buffer.                              *)
LEMMA ChainCommits ==
  ASSUME NEW L \in Seq(Nat), NEW u, NEW f, NEW t, NEW n, NEW o,
         Channel(u, f, t, n, o), Chain(L, u, f, t, n, o),
         NEW p \in Payload, Carries(p, f[t][1]), NEW g, Taken(f, t, g)
  PROVE  /\ Chain(L, Append(u, p), g, Other(t), n, o)
         /\ Newest(Append(u, p), g, n) = Newest(u, f, n)
         /\ Oldest(Append(u, p), g, Other(t), o) = Oldest(u, f, t, o)
<1> DEFINE v == Append(u, p)
           r == Other(t)
<1>1. /\ Len(v) = Len(u) + 1 /\ v[Len(u) + 1] = p /\ v \in Seq(Payload)
      /\ \A k \in 1..Len(u) : v[k] = u[k]
      /\ v # <<>> /\ Len(u) \in Nat
  <2>1. u \in Seq(Payload)
    BY DEF Channel
  <2> QED
    BY <2>1, Appended
<1>2. /\ r \in Sockets /\ Other(r) = t /\ f[t] \in Seq(Words) /\ f[r] \in Seq(Words) /\ r # t
      /\ t \in Sockets /\ n \in Sockets /\ (n = t \/ Other(n) = t)
      /\ \A s \in Sockets : s = t \/ s = r
  BY TwoSockets DEF Channel
<1>3. /\ Len(f[t]) \in Nat /\ Len(f[t]) # 0 /\ Len(f[r]) \in Nat /\ g[r] = f[r]
      /\ Len(g[t]) = Len(f[t]) - 1 /\ \A j \in 1..Len(f[t]) - 1 : g[t][j] = f[t][j + 1]
      /\ 1 \in 1..Len(f[t]) /\ f[t] # <<>> /\ g[t] \in Seq(Words)
  BY <1>2 DEF Taken
<1> HIDE DEF v, r
<1>4. Len(f[r]) <= Len(f[t]) /\ Len(f[t]) <= Len(f[r]) + 1
  <2>1. Len(f[t]) = Len(f[r]) \/ Len(f[t]) = Len(f[r]) + 1
    BY DEF Channel, Even, r
  <2> QED
    BY <1>3, <2>1
<1>5. Committed(L, v)
  <2>1. \A k \in 1..Len(v) : Complete(L, v[k].words) /\ (v[k].eof <=> Len(v[k].words) # BufWords)
    <3> TAKE k \in 1..Len(v)
    <3>1. CASE k = Len(u) + 1
      BY <1>1, <1>2, <1>3, <3>1 DEF Chain, Filled, Carries
    <3>2. CASE k \in 1..Len(u)
      BY <1>1, <3>2 DEF Chain, Committed
    <3> QED
      BY <1>1, <3>1, <3>2
  <2>2. ASSUME NEW k \in 1..Len(v), k + 1 <= Len(v)
        PROVE  After(L, v[k].words, v[k + 1].words[1])
    <3>1. CASE k = Len(u)
      <4>1. u # <<>> /\ LastOf(u) = u[k] /\ v[k] = u[k] /\ v[k + 1] = p
        BY <1>1, <2>2, <3>1 DEF LastOf
      <4> QED
        BY <1>3, <4>1 DEF Chain, Carries
    <3>2. CASE k + 1 \in 1..Len(u)
      <4>1. k \in 1..Len(u) /\ k + 1 <= Len(u)
        BY <1>1, <3>2
      <4> QED
        BY <1>1, <3>2, <4>1 DEF Chain, Committed
    <3> QED
      BY <1>1, <2>2, <3>1, <3>2
  <2> QED
    BY <2>1, <2>2 DEF Committed
<1>6. Filled(L, g, r)
  <2>0. /\ \A s \in Sockets : \A j \in 1..Len(f[s]) : Complete(L, f[s][j])
        /\ \A j \in 1..Len(f[r]) : After(L, f[t][j], f[r][j][1])
        /\ \A j \in 1..Len(f[t]) : j + 1 <= Len(f[t]) => After(L, f[r][j], f[t][j + 1][1])
    BY DEF Chain, Filled, r
  <2>1. ASSUME NEW s \in Sockets, NEW j \in 1..Len(g[s]) PROVE Complete(L, g[s][j])
    <3>1. CASE s = t
      <4>0. j \in 1..Len(f[t]) - 1
        BY <1>3, <3>1
      <4>1. j + 1 \in 1..Len(f[t]) /\ g[s][j] = f[t][j + 1]
        BY <1>3, <3>1, <4>0
      <4> QED
        BY <1>2, <2>0, <4>1
    <3>2. CASE s = r
      BY <1>2, <1>3, <2>0, <2>1, <3>2
    <3> QED
      BY <1>2, <3>1, <3>2
  <2>2. ASSUME NEW j \in 1..Len(g[t]) PROVE After(L, g[r][j], g[t][j][1])
    <3>1. j \in 1..Len(f[t]) /\ j + 1 <= Len(f[t]) /\ g[t][j] = f[t][j + 1]
      BY <1>3, <2>2
    <3> QED
      BY <1>3, <2>0, <3>1
  <2>3. ASSUME NEW j \in 1..Len(g[r]), j + 1 <= Len(g[r]) PROVE After(L, g[t][j], g[r][j + 1][1])
    <3>1. j + 1 \in 1..Len(f[r]) /\ g[t][j] = f[t][j + 1]
      BY <1>3, <1>4, <2>3
    <3> QED
      BY <1>3, <2>0, <3>1
  <2> QED
    BY <1>2, <2>1, <2>2, <2>3 DEF Filled
<1>7. g[r] # <<>> => After(L, LastOf(v).words, g[r][1][1])
  <2>1. LastOf(v) = p
    BY <1>1 DEF LastOf
  <2>2. g[r] # <<>> => 1 \in 1..Len(f[r])
    BY <1>2, <1>3
  <2> QED
    BY <1>3, <2>1, <2>2 DEF Chain, Filled, Carries, r
<1>8. Newest(v, g, n) = Newest(u, f, n)
  <2>1. CASE Other(n) = t
    <3>1. f[Other(n)] # <<>> /\ Newest(u, f, n) = f[t][Len(f[t])]
      BY <1>3, <2>1 DEF Newest, LastOf
    <3>2. CASE Len(f[t]) = 1
      <4>1. g[Other(n)] = <<>>
        <5>1. Len(g[t]) = 0 /\ g[t] \in Seq(Words)
          BY <1>3, <3>2
        <5> QED
          BY <2>1, <5>1
      <4>2. Newest(v, g, n) = p.words
        BY <1>1, <4>1 DEF Newest, LastOf
      <4> QED
        BY <3>1, <3>2, <4>2 DEF Carries
    <3>3. CASE Len(f[t]) # 1
      <4>1. Len(g[t]) = Len(f[t]) - 1 /\ Len(g[t]) # 0 /\ Len(g[t]) \in 1..Len(f[t]) - 1
        <5> DEFINE a == Len(f[t])
        <5>1. a \in Nat /\ a # 0 /\ a # 1 /\ Len(g[t]) = a - 1
          BY <1>3, <3>3
        <5> HIDE DEF a
        <5>2. Len(g[t]) = a - 1 /\ Len(g[t]) # 0 /\ Len(g[t]) \in 1..a - 1
          BY <5>1
        <5> QED
          BY <5>2 DEF a
      <4>2. g[Other(n)] # <<>> /\ g[t][Len(g[t])] = f[t][Len(g[t]) + 1]
        BY <1>3, <2>1, <4>1
      <4>3. Len(g[t]) + 1 = Len(f[t])
        BY <1>3, <4>1
      <4> QED
        BY <2>1, <3>1, <4>2, <4>3 DEF Newest, LastOf
    <3> QED
      BY <3>2, <3>3
  <2>2. CASE n = t
    <3>1. Other(n) = r /\ f[r] # <<>> /\ g[r] = f[r]
      BY <1>2, <1>3, <2>2 DEF Channel, Even, r
    <3> QED
      BY <3>1 DEF Newest
  <2> QED
    BY <1>2, <2>1, <2>2
<1>9. Oldest(v, g, r, o) = Oldest(u, f, t, o)
  <2>1. u # <<>> => v[1] = u[1]
    BY <1>1
  <2>2. u = <<>> => v[1] = p
    BY <1>1
  <2> QED
    BY <1>1, <1>3, <2>1, <2>2 DEF Oldest, Carries
<1> QED
  BY <1>2, <1>5, <1>6, <1>7, <1>8, <1>9 DEF Chain, v, r

(* The host reads the first payload.                                         *)
LEMMA ChainReads ==
  ASSUME NEW L \in Seq(Nat), NEW u, NEW f, NEW t, NEW n, NEW o,
         Channel(u, f, t, n, o), Chain(L, u, f, t, n, o), u # <<>>
  PROVE  /\ Chain(L, Tail(u), f, t, n, o) /\ Tail(u) \in Seq(Payload)
         /\ Oldest(Tail(u), f, t, o) # <<>> => After(L, u[1].words, Oldest(Tail(u), f, t, o)[1])
         /\ Newest(Tail(u), f, n) # <<>> => Newest(Tail(u), f, n) = Newest(u, f, n)
         /\ Newest(Tail(u), f, n) = <<>> => Newest(u, f, n) = u[1].words
<1> DEFINE v == Tail(u)
<1>1. /\ v \in Seq(Payload) /\ Len(v) = Len(u) - 1 /\ Len(u) \in Nat /\ Len(u) # 0
      /\ \A k \in 1..Len(v) : v[k] = u[k + 1]
      /\ (v = <<>> <=> Len(v) = 0)
  <2>1. u \in Seq(Payload)
    BY DEF Channel
  <2>2. /\ v \in Seq(Payload) /\ Len(v) = Len(u) - 1 /\ Len(u) \in Nat /\ Len(u) # 0
        /\ \A k \in 1..Len(v) : v[k] = u[k + 1]
    BY <2>1, Tailed
  <2> HIDE DEF v
  <2>3. v = <<>> <=> Len(v) = 0
    BY <2>2, EmptyOrNot
  <2> QED
    BY <2>2, <2>3
<1> HIDE DEF v
<1>2. \A k \in 1..Len(v) : k + 1 \in 1..Len(u) /\ k + 1 <= Len(u)
  BY <1>1
<1>3. Committed(L, u) /\ Filled(L, f, t)
  BY DEF Chain
<1>4. Committed(L, v)
  <2>1. \A k \in 1..Len(v) : Complete(L, v[k].words) /\ (v[k].eof <=> Len(v[k].words) # BufWords)
    BY <1>1, <1>2, <1>3 DEF Committed
  <2>2. ASSUME NEW k \in 1..Len(v), k + 1 <= Len(v)
        PROVE  After(L, v[k].words, v[k + 1].words[1])
    <3>1. k + 1 \in 1..Len(v) /\ k + 1 \in 1..Len(u) /\ (k + 1) + 1 <= Len(u)
      BY <1>1, <1>2, <2>2
    <3>2. v[k] = u[k + 1] /\ v[k + 1] = u[(k + 1) + 1]
      BY <1>1, <3>1
    <3> QED
      BY <1>3, <3>1, <3>2 DEF Committed
  <2> QED
    BY <2>1, <2>2 DEF Committed
<1>5. v # <<>> => LastOf(v) = LastOf(u) /\ v[1] = u[2] /\ 1 \in 1..Len(u) /\ 1 + 1 <= Len(u)
  <2> SUFFICES ASSUME v # <<>>
               PROVE LastOf(v) = LastOf(u) /\ v[1] = u[2] /\ 1 \in 1..Len(u) /\ 1 + 1 <= Len(u)
    OBVIOUS
  <2>1. Len(v) \in 1..Len(v) /\ Len(v) + 1 = Len(u) /\ 1 \in 1..Len(v)
    BY <1>1
  <2> QED
    BY <1>1, <1>2, <2>1 DEF LastOf
<1>6. v = <<>> => Len(u) = 1 /\ LastOf(u) = u[1]
  <2>1. v = <<>> => Len(u) = 1
    BY <1>1
  <2> QED
    BY <2>1 DEF LastOf
<1>7. v # <<>> /\ f[t] # <<>> => After(L, LastOf(v).words, f[t][1][1])
  BY <1>5 DEF Chain
<1>8. Newest(v, f, n) # <<>> => Newest(v, f, n) = Newest(u, f, n)
  BY <1>5 DEF Newest
<1>9. o # <<>> /\ Newest(v, f, n) # <<>> => After(L, Newest(v, f, n), o[1])
  BY <1>8 DEF Chain
<1>10. Chain(L, v, f, t, n, o)
  BY <1>3, <1>4, <1>7, <1>9 DEF Chain
<1>11. Newest(v, f, n) = <<>> => v = <<>> /\ f[t] = <<>> /\ Newest(u, f, n) = u[1].words
  <2> SUFFICES ASSUME Newest(v, f, n) = <<>>
               PROVE  v = <<>> /\ f[t] = <<>> /\ Newest(u, f, n) = u[1].words
    OBVIOUS
  <2>1. Channel(v, f, t, n, o)
    BY <1>1 DEF Channel
  <2>2. v = <<>> /\ f[t] = <<>>
    BY <1>10, <2>1, Ends
  <2>3. f[Other(n)] = <<>>
    <3>1. CASE f[Other(n)] # <<>>
      <4>1. Newest(u, f, n) = <<>>
        BY <3>1 DEF Newest
      <4> QED
        BY <4>1, Ends
    <3> QED
      BY <3>1
  <2> QED
    BY <1>6, <2>2, <2>3 DEF Newest
<1>12. Oldest(v, f, t, o) # <<>> => After(L, u[1].words, Oldest(v, f, t, o)[1])
  <2>1. CASE v # <<>>
    BY <1>3, <1>5, <2>1 DEF Oldest, Committed
  <2>2. CASE v = <<>> /\ f[t] # <<>>
    BY <1>6, <2>2 DEF Oldest, Chain
  <2>3. CASE v = <<>> /\ f[t] = <<>>
    <3>1. Oldest(v, f, t, o) = o
      BY <2>3 DEF Oldest
    <3>2. Newest(v, f, n) = <<>>
      <4>1. Channel(v, f, t, n, o)
        BY <1>1 DEF Channel
      <4> QED
        BY <1>10, <2>3, <4>1, Ends
    <3>3. Newest(u, f, n) = u[1].words /\ u[1].words # <<>>
      BY <1>11, <3>2, Ends
    <3> QED
      BY <3>1, <3>3 DEF Chain
  <2> QED
    BY <2>1, <2>2, <2>3
<1> QED
  BY <1>1, <1>8, <1>10, <1>11, <1>12 DEF v

(* The block b joins the full buffers of the socket being filled.            *)
Joins(f, n, b, g) ==
  /\ g \in [Sockets -> Seq(Words)]
  /\ g[n] = Append(f[n], b) /\ g[Other(n)] = f[Other(n)]

(* The channel with a full buffer more.                                      *)
LEMMA ChainJoins ==
  ASSUME NEW L \in Seq(Nat), NEW u, NEW f, NEW t, NEW n, NEW o,
         Channel(u, f, t, n, o), Chain(L, u, f, t, n, o),
         NEW b \in Words, Complete(L, b),
         Newest(u, f, n) # <<>> => After(L, Newest(u, f, n), b[1]),
         NEW g, Joins(f, n, b, g)
  PROVE  /\ Chain(L, u, g, t, Other(n), <<>>)
         /\ Newest(u, g, Other(n)) = b
         /\ Oldest(u, g, t, <<>>) = IF u = <<>> /\ f[t] = <<>> THEN b ELSE Oldest(u, f, t, o)
<1> DEFINE r == Other(t)
           m == Other(n)
           w == b[1]
<1>1. /\ t \in Sockets /\ r \in Sockets /\ Other(r) = t /\ r # t /\ n \in Sockets /\ m \in Sockets
      /\ Other(m) = n /\ m # n
      /\ (n = t /\ m = r) \/ (n = r /\ m = t)
      /\ \A s \in Sockets : s = n \/ s = m
  BY TwoSockets DEF Channel
<1>2. f[n] \in Seq(Words) /\ f[m] \in Seq(Words) /\ Len(f[n]) \in Nat /\ Len(f[m]) \in Nat
  BY <1>1 DEF Channel
<1>3. /\ g[m] = f[m] /\ Len(g[n]) = Len(f[n]) + 1 /\ g[n][Len(f[n]) + 1] = b
      /\ g[n] # <<>> /\ \A j \in 1..Len(f[n]) : g[n][j] = f[n][j]
  <2>1. g[n] = Append(f[n], b) /\ g[m] = f[m]
    BY DEF Joins
  <2> QED
    BY <1>2, <2>1, Appended
<1>4. IF n = t THEN Len(f[n]) = Len(f[m]) ELSE Len(f[m]) = Len(f[n]) + 1
  BY <1>1 DEF Channel, Even
<1>5. Committed(L, u) /\ Filled(L, f, t)
  BY DEF Chain
<1> HIDE DEF r, m
<1>6. Newest(u, g, m) = b
  BY <1>1, <1>3 DEF Newest, LastOf
<1>7. Len(f[m]) # 0 => f[m] # <<>> /\ Newest(u, f, n) = f[m][Len(f[m])] /\ f[m][Len(f[m])] # <<>>
  <2> SUFFICES ASSUME Len(f[m]) # 0
               PROVE  f[m] # <<>> /\ Newest(u, f, n) = f[m][Len(f[m])] /\ f[m][Len(f[m])] # <<>>
    OBVIOUS
  <2>1. f[m] # <<>> /\ Len(f[m]) \in 1..Len(f[m])
    BY <1>2
  <2>2. Complete(L, f[m][Len(f[m])])
    BY <1>1, <1>5, <2>1 DEF Filled
  <2> QED
    BY <2>1, <2>2 DEF Newest, LastOf, Complete, Block, m
<1>8. Filled(L, g, t)
  <2>0. /\ \A s \in Sockets : \A j \in 1..Len(f[s]) : Complete(L, f[s][j])
        /\ \A j \in 1..Len(f[r]) : After(L, f[t][j], f[r][j][1])
        /\ \A j \in 1..Len(f[t]) : j + 1 <= Len(f[t]) => After(L, f[r][j], f[t][j + 1][1])
    BY <1>5 DEF Filled, r
  <2>1. ASSUME NEW s \in Sockets, NEW j \in 1..Len(g[s]) PROVE Complete(L, g[s][j])
    <3>1. CASE s = m
      BY <1>1, <1>3, <2>0, <3>1
    <3>2. CASE s = n /\ j = Len(f[n]) + 1
      BY <1>3, <3>2
    <3>3. CASE s = n /\ j # Len(f[n]) + 1
      <4>1. j \in 1..Len(f[n])
        BY <1>2, <1>3, <3>3
      <4> QED
        BY <1>1, <1>3, <2>0, <3>3, <4>1
    <3> QED
      BY <1>1, <3>1, <3>2, <3>3
  <2>2. CASE n = t /\ m = r
    <3>1. ASSUME NEW j \in 1..Len(g[r]) PROVE After(L, g[t][j], g[r][j][1])
      <4>1. j \in 1..Len(f[r]) /\ j \in 1..Len(f[n])
        BY <1>2, <1>3, <1>4, <2>2
      <4> QED
        BY <1>3, <2>0, <2>2, <4>1
    <3>2. ASSUME NEW j \in 1..Len(g[t]), j + 1 <= Len(g[t]) PROVE After(L, g[r][j], g[t][j + 1][1])
      <4>1. CASE j = Len(f[n])
        <5>1. Len(f[m]) # 0 /\ Len(f[m]) = j /\ g[t][j + 1] = b
          BY <1>2, <1>3, <1>4, <2>2, <3>2, <4>1
        <5> QED
          BY <1>3, <1>7, <2>2, <5>1
      <4>2. CASE j # Len(f[n])
        <5>1. j \in 1..Len(f[n]) /\ j + 1 \in 1..Len(f[n]) /\ j + 1 <= Len(f[n])
          BY <1>2, <1>3, <2>2, <3>2, <4>2
        <5> QED
          BY <1>3, <2>0, <2>2, <5>1
      <4> QED
        BY <4>1, <4>2
    <3> QED
      BY <2>1, <3>1, <3>2 DEF Filled, r
  <2>3. CASE n = r /\ m = t
    <3>1. ASSUME NEW j \in 1..Len(g[r]) PROVE After(L, g[t][j], g[r][j][1])
      <4>1. CASE j = Len(f[n]) + 1
        <5>1. Len(f[m]) # 0 /\ Len(f[m]) = j /\ g[r][j] = b
          BY <1>1, <1>2, <1>3, <1>4, <2>3, <3>1, <4>1
        <5> QED
          BY <1>3, <1>7, <2>3, <5>1
      <4>2. CASE j # Len(f[n]) + 1
        <5>1. j \in 1..Len(f[n])
          BY <1>2, <1>3, <2>3, <3>1, <4>2
        <5> QED
          BY <1>3, <2>0, <2>3, <5>1
      <4> QED
        BY <4>1, <4>2
    <3>2. ASSUME NEW j \in 1..Len(g[t]), j + 1 <= Len(g[t]) PROVE After(L, g[r][j], g[t][j + 1][1])
      <4>1. j \in 1..Len(f[t]) /\ j + 1 <= Len(f[t]) /\ j \in 1..Len(f[n]) /\ g[t] = f[t]
        BY <1>1, <1>2, <1>3, <1>4, <2>3, <3>2
      <4> QED
        BY <1>3, <2>0, <2>3, <4>1
    <3> QED
      BY <2>1, <3>1, <3>2 DEF Filled, r
  <2> QED
    BY <1>1, <2>2, <2>3
<1>9. f[t] = <<>> => n = t
  BY <1>1, <1>2, <1>4
<1>10. f[t] # <<>> => g[t] # <<>> /\ g[t][1] = f[t][1]
  <2> SUFFICES ASSUME f[t] # <<>> PROVE g[t] # <<>> /\ g[t][1] = f[t][1]
    OBVIOUS
  <2>1. 1 \in 1..Len(f[t])
    BY <1>1, <1>2
  <2> QED
    BY <1>1, <1>3, <2>1
<1>11. f[t] = <<>> => g[t] # <<>> /\ g[t][1] = b
  BY <1>3, <1>9
<1>12. u # <<>> /\ g[t] # <<>> => After(L, LastOf(u).words, g[t][1][1])
  <2>1. CASE u # <<>> /\ f[t] # <<>>
    BY <1>10, <2>1 DEF Chain
  <2>2. CASE u # <<>> /\ f[t] = <<>>
    <3>1. f[m] = <<>>
      BY <1>1, <1>2, <1>4, <1>9, <2>2
    <3>2. Newest(u, f, n) = LastOf(u).words
      BY <2>2, <3>1 DEF Newest, m
    <3>3. Newest(u, f, n) # <<>>
      BY <2>2, Ends
    <3> QED
      BY <1>11, <2>2, <3>2, <3>3
  <2> QED
    BY <2>1, <2>2
<1>13. Chain(L, u, g, t, m, <<>>)
  BY <1>5, <1>8, <1>12 DEF Chain
<1>14. Oldest(u, g, t, <<>>) = IF u = <<>> /\ f[t] = <<>> THEN b ELSE Oldest(u, f, t, o)
  BY <1>10, <1>11 DEF Oldest
<1> QED
  BY <1>6, <1>13, <1>14 DEF m

-----------------------------------------------------------------------------
(* The bridge and the machine.  A line is never open outside a frame, and a  *)
(* frame is over only when all its words are sent.                           *)
BridgeInv ==
  /\ lv => fv /\ low = 0
  /\ ~lv => low # 0
  /\ InFrame = 0 => ~fv /\ pos = 0
  /\ InFrame # 0 => pos <= lens[InFrame] /\ (~fv => pos = lens[InFrame])

(* The machine never misses the end of a line, which the gap within a line   *)
(* guarantees, waits for a frame from before its first word, and its counter *)
(* counts from a multiple of the buffer's size.                              *)
Data == {"PUSH_DATA", "LINE_END", "WAIT_TO_FILL", "WAIT_FULL"}
InStep ==
  /\ gst = "PUSH_DATA" => lv
  /\ gst = "LINE_END" => ~lv /\ low = 1
  /\ gst \in {"WAIT_TO_FILL", "WAIT_FULL"} => ~lv /\ (fv \/ low = 2)
  /\ gst = "WAIT_FOR_FRAME_START" => (fv => pos = 0)
  /\ gst \in Data => pos # 0 /\ count[sck] <= pos /\ (pos - count[sck]) % BufWords = 0
LineInv == BridgeInv /\ InStep

(* The frame that is sent, and the frames sent before it.                    *)
LEMMA BridgeSteps ==
  ASSUME Types, BridgeInv, Sends \/ Rests \/ Begins
  PROVE  /\ BridgeInv' /\ (lv' => Sends)
         /\ Sends => /\ lens' = lens /\ pos' = pos + 1 /\ fv /\ fv' = fv /\ lv'
                     /\ InFrame \in 1..Len(lens) /\ pos < lens[InFrame] /\ low' = 0
                     /\ (lv \/ low >= 2)
         /\ Rests => lens' = lens /\ pos' = pos /\ (fv' => fv) /\ ~lv' /\ (low < 3 => low' = low + 1)
                     /\ (fv /\ ~fv' => pos = lens[InFrame])
         /\ Begins => ~fv /\ fv' /\ ~lv' /\ pos' = 0 /\ InFrame' = InFrame + 1 /\ low >= 3
         /\ lens' \in Seq(Nat) /\ Grown(lens, lens')
<1>1. /\ fv \in BOOLEAN /\ lv \in BOOLEAN /\ low \in 0..FrameGap /\ lens \in Seq(Nat) /\ pos \in Nat
      /\ FrameGap = 3 /\ LineGap = 2
  BY DEF Types, FrameGap, LineGap
<1>2. InFrame = Len(lens) /\ InFrame \in Nat /\ (InFrame # 0 => InFrame \in 1..Len(lens))
      /\ \A k \in 1..Len(lens) : lens[k] \in Nat
  BY <1>1 DEF InFrame
<1>3. CASE Sends
  <2>1. /\ lens' = lens /\ pos' = pos + 1 /\ fv /\ fv' = fv /\ lv' = TRUE /\ low' = 0
        /\ pos < lens[InFrame] /\ (lv \/ low >= 2)
    BY <1>1, <1>3 DEF Sends
  <2>2. InFrame # 0 /\ InFrame \in 1..Len(lens)
    BY <1>2, <2>1 DEF BridgeInv
  <2>3. lens[InFrame] \in Nat
    BY <1>2, <2>2
  <2>4. InFrame' = InFrame
    BY <2>1 DEF InFrame
  <2>5. pos + 1 <= lens[InFrame]
    BY <1>1, <2>1, <2>3
  <2>6. BridgeInv'
    BY <2>1, <2>2, <2>4, <2>5 DEF BridgeInv
  <2>7. ~Rests /\ ~Begins
    BY <2>1 DEF Rests, Begins
  <2> QED
    BY <1>1, <1>3, <2>1, <2>2, <2>6, <2>7 DEF Grown
<1>4. CASE Rests
  <2>1. /\ lens' = lens /\ pos' = pos /\ lv' = FALSE
        /\ low' = IF low < 3 THEN low + 1 ELSE low
        /\ fv' = fv \/ (fv /\ pos = lens[InFrame] /\ fv' = FALSE)
    BY <1>1, <1>4 DEF Rests
  <2>2. InFrame' = InFrame
    BY <2>1 DEF InFrame
  <2>3. low' # 0 /\ (low < 3 => low' = low + 1)
    BY <1>1, <2>1
  <2>4. BridgeInv'
    BY <1>1, <2>1, <2>2, <2>3 DEF BridgeInv
  <2>5. ~Sends
    BY <2>1 DEF Sends
  <2>6. Grown(lens, lens')
    BY <1>1, <2>1 DEF Grown
  <2>7. ~Begins
    BY <1>1, <2>1 DEF Begins
  <2> QED
    BY <1>1, <2>1, <2>3, <2>4, <2>5, <2>6, <2>7
<1>5. CASE Begins
  <2>1. PICK m \in FrameLengths : lens' = Append(lens, m)
    BY <1>5 DEF Begins
  <2>2. m \in Nat
    BY GpifStreamAssumption
  <2>3. ~fv /\ fv' = TRUE /\ lv' = lv /\ low' = low /\ pos' = 0 /\ low >= 3
    BY <1>1, <1>5 DEF Begins
  <2>4. /\ lens' \in Seq(Nat) /\ Len(lens') = Len(lens) + 1 /\ lens'[Len(lens) + 1] = m
        /\ \A k \in 1..Len(lens) : lens'[k] = lens[k]
    BY <1>1, <2>1, <2>2, Appended
  <2>5. Grown(lens, lens')
    BY <1>2, <2>4 DEF Grown
  <2>6. InFrame' = InFrame + 1 /\ InFrame' # 0 /\ lens'[InFrame'] = m
    BY <1>2, <2>4 DEF InFrame
  <2>7. ~lv
    BY <2>3 DEF BridgeInv
  <2>8. low' # 0 /\ 0 <= m
    BY <1>1, <2>2, <2>3
  <2>9. BridgeInv'
    BY <2>3, <2>6, <2>7, <2>8 DEF BridgeInv
  <2>10. ~Sends /\ ~Rests
    BY <1>2, <2>3, <2>4 DEF Sends, Rests
  <2> QED
    BY <2>3, <2>4, <2>5, <2>6, <2>7, <2>9, <2>10
<1> QED
  BY <1>3, <1>4, <1>5

(* Only a clock with a word takes the machine to PUSH_DATA, and every word   *)
(* of a frame it has begun is taken.                                         *)
LEMMA ClockKeepsLine ==
  ASSUME Types, CounterInv, LineInv, Sends \/ Rests \/ Begins, Arrows, Counts
  PROVE  /\ LineInv'
         /\ gst' = "PUSH_DATA" => Sends
         /\ gst \in Data /\ gst' # "PUSH_DATA" => Rests
<1> DEFINE c == count[sck]
<1>1. /\ fv \in BOOLEAN /\ lv \in BOOLEAN /\ low \in 0..3 /\ lens \in Seq(Nat) /\ pos \in Nat
      /\ sck \in Sockets /\ Other(sck) \in Sockets /\ count \in [Sockets -> 0..BufWords]
      /\ c \in Nat /\ BufWords \in Nat /\ count[Other(sck)] \in Nat
  BY TwoSockets, GpifStreamAssumption DEF Types, FrameGap
<1>2. /\ BridgeInv' /\ (lv' => Sends)
      /\ Sends => /\ pos' = pos + 1 /\ fv /\ fv' = fv /\ lv' /\ low' = 0 /\ (lv \/ low >= 2)
      /\ Rests => pos' = pos /\ (fv' => fv) /\ ~lv' /\ (low < 3 => low' = low + 1)
      /\ Begins => ~fv /\ fv' /\ ~lv' /\ pos' = 0 /\ low >= 3
  BY BridgeSteps DEF LineInv
<1>3. BridgeInv /\ InStep
  BY DEF LineInv
<1>4. CASE gst' = "PUSH_DATA"
  <2>1. Sends /\ lv' /\ pos' = pos + 1 /\ fv
    BY <1>2, <1>4 DEF Arrows, Stays, Arrow
  <2>2. count'[sck'] = count[sck'] + 1 /\ sck' \in Sockets /\ count[sck'] \in Nat
    <3>1. sck' \in Sockets /\ count' = [s \in Sockets |-> IF s = sck' THEN count[s] + 1 ELSE 0]
      BY <1>4, ClockKeepsCounter
    <3> QED
      BY <1>1, <3>1
  <2>3. count[sck'] <= pos /\ (pos - count[sck']) % BufWords = 0
    <3>1. CASE gst = "WAIT_FOR_FRAME_START"
      <4>1. pos = 0 /\ count[sck'] = 0
        BY <1>3, <2>1, <2>2, <3>1 DEF InStep, CounterInv
      <4>2. 0 % BufWords = 0
        BY GpifStreamAssumption
      <4> QED
        BY <4>1, <4>2
    <3>2. CASE gst \in Data /\ sck' = sck
      BY <1>3, <3>2 DEF InStep
    <3>3. CASE gst \in Data /\ sck' = Other(sck) /\ CountHit(sck)
      <4>1. count[sck'] = 0 /\ c = BufWords
        BY <3>3 DEF CounterInv, InData, Data, CountHit
      <4> DEFINE m == pos - c
      <4>2. m \in Nat /\ m % BufWords = 0 /\ pos = m + BufWords
        BY <1>1, <1>3, <3>3, <4>1 DEF InStep
      <4> HIDE DEF m
      <4>3. pos % BufWords = 0
        BY <4>2, Multiples
      <4>4. pos - 0 = pos
        BY <1>1
      <4> QED
        BY <1>1, <4>1, <4>3, <4>4
    <3> QED
      BY <1>4, <3>1, <3>2, <3>3 DEF Arrows, Stays, Arrow, Data, CounterInv
  <2>4. pos' # 0 /\ count'[sck'] <= pos' /\ pos' - count'[sck'] = pos - count[sck']
    <3> DEFINE d == count[sck']
    <3>1. pos \in Nat /\ d \in Nat /\ d <= pos /\ pos' = pos + 1 /\ count'[sck'] = d + 1
      BY <1>1, <2>1, <2>2, <2>3
    <3> HIDE DEF d
    <3>2. pos' # 0 /\ count'[sck'] <= pos' /\ pos' - count'[sck'] = pos - d
      BY <3>1
    <3> QED
      BY <3>2 DEF d
  <2>5. InStep'
    BY <1>4, <2>1, <2>3, <2>4 DEF InStep
  <2> QED
    BY <1>2, <1>4, <2>1, <2>5 DEF LineInv
<1>5. CASE gst' # "PUSH_DATA" /\ gst \in Data
  <2>1. /\ gst' \notin {"PUSH_DATA", "WAIT_FOR_FRAME_START"} /\ sck' = sck /\ ~lv'
    <3>1. gst = "LINE_END" => ~(lv \/ low >= 2)
      BY <1>1, <1>3 DEF InStep
    <3> QED
      BY <1>2, <1>5, <3>1 DEF Arrows, Stays, Arrow, Data
  <2>2. count' = count
    BY <2>1 DEF Counts
  <2>3. Rests
    <3>1. ~Sends
      BY <1>2, <2>1
    <3>2. ~Begins
      <4>1. ~(~fv /\ low >= 3)
        BY <1>1, <1>3, <1>5 DEF BridgeInv, InStep, Data
      <4> QED
        BY <1>2, <4>1
    <3> QED
      BY <3>1, <3>2
  <2>4. pos' = pos /\ ~lv' /\ (low < 3 => low' = low + 1)
    BY <1>2, <2>3
  <2>5. /\ gst' = "LINE_END" => low' = 1
        /\ gst' \in {"WAIT_TO_FILL", "WAIT_FULL"} => fv' \/ low' = 2
    <3>1. gst' = "LINE_END" => gst = "PUSH_DATA" /\ low = 0
      BY <1>3, <1>5 DEF Arrows, Stays, Arrow, InStep, BridgeInv
    <3>2. gst' \in {"WAIT_TO_FILL", "WAIT_FULL"} => fv' \/ low = 1
      BY <1>3, <1>5 DEF Arrows, Stays, Arrow, InStep
    <3> QED
      BY <2>4, <3>1, <3>2
  <2>6. pos' # 0 /\ count'[sck'] <= pos' /\ pos' - count'[sck'] = pos - count[sck]
        /\ (pos - count[sck]) % BufWords = 0
    BY <1>3, <1>5, <2>1, <2>2, <2>4 DEF InStep
  <2>7. InStep'
    BY <2>1, <2>4, <2>5, <2>6 DEF InStep
  <2> QED
    BY <1>2, <1>5, <2>3, <2>7 DEF LineInv
<1>6. CASE gst' # "PUSH_DATA" /\ gst \notin Data
  <2>1. gst' \notin Data
    BY <1>6 DEF Arrows, Stays, Arrow, Data
  <2>2. gst' = "WAIT_FOR_FRAME_START" => ~fv' \/ (gst = "WAIT_FOR_FRAME_START" /\ ~(fv' /\ lv'))
    BY <1>6 DEF Arrows, Stays, Arrow
  <2>3. gst' = "WAIT_FOR_FRAME_START" => (fv' => pos' = 0)
    BY <1>2, <1>3, <2>2 DEF InStep
  <2>4. InStep'
    BY <2>1, <2>3 DEF InStep, Data
  <2> QED
    BY <1>2, <1>6, <2>4 DEF LineInv
<1> QED
  BY <1>4, <1>5, <1>6

-----------------------------------------------------------------------------
(* What the host puts together: from the first word of a frame, word after   *)
(* word, to the end of a full buffer (Begun) or of a frame (Whole).          *)
Next1(L, v, w) ==
  \/ w = <<v[1], v[2] + 1>>
  \/ v[2] = L[v[1]] /\ L[v[1]] % BufWords = 0 /\ w[1] > v[1] /\ w[2] = 1
Run(L, g) ==
  /\ g # <<>> /\ g[1][2] = 1
  /\ \A k \in 1..Len(g) : g[k][1] \in 1..Len(L) /\ g[k][2] \in 1..L[g[k][1]]
  /\ \A k \in 1..Len(g) : k + 1 <= Len(g) => Next1(L, g[k], g[k + 1])
Begun(L, g) == Run(L, g) /\ LastOf(g)[2] % BufWords = 0
Whole(L, g) ==
  Run(L, g) /\ LastOf(g)[2] = L[LastOf(g)[1]] /\ L[LastOf(g)[1]] % BufWords # 0

(* Whole is IsWhole with the lengths as a parameter.                         *)
LEMMA WholeIs ==
  ASSUME NEW L, L = lens, lens \in Seq(Nat), NEW g \in Words, g # <<>>
  PROVE  IsWhole(g) <=> Whole(L, g)
<1>1. Len(g) \in Nat /\ Len(g) # 0
  BY EmptyOrNot DEF Words
<1>2. (\A k \in 1..Len(g) - 1 : Follows(g[k], g[k + 1]))
        <=> (\A k \in 1..Len(g) : k + 1 <= Len(g) => Next1(L, g[k], g[k + 1]))
  <2>1. \A k \in 1..Len(g) - 1 : Follows(g[k], g[k + 1]) <=> Next1(L, g[k], g[k + 1])
    BY DEF Follows, EndsFull, Next1
  <2>2. \A k : k \in 1..Len(g) - 1 <=> (k \in 1..Len(g) /\ k + 1 <= Len(g))
    BY <1>1
  <2> QED
    BY <2>1, <2>2
<1> QED
  BY <1>2 DEF IsWhole, Whole, Run, LastOf, EndsFull

(* The same of the next state.                                               *)
LEMMA WholeIsLater ==
  ASSUME lens' \in Seq(Nat), frame' \in Words, frame' # <<>>
  PROVE  IsWhole(frame)' <=> Whole(lens', frame')
<1> DEFINE g == frame'
           L == lens'
<1>1. Len(g) \in Nat /\ Len(g) # 0
  BY EmptyOrNot DEF Words
<1>2. IsWhole(frame)' <=>
        /\ \A k \in 1..Len(g) : g[k][1] \in 1..Len(L) /\ g[k][2] \in 1..L[g[k][1]]
        /\ g[1][2] = 1
        /\ \A k \in 1..Len(g) - 1 : Next1(L, g[k], g[k + 1])
        /\ LastOf(g)[2] = L[LastOf(g)[1]] /\ L[LastOf(g)[1]] % BufWords # 0
  BY DEF IsWhole, Follows, EndsFull, Next1, LastOf
<1> HIDE DEF g, L
<1>3. (\A k \in 1..Len(g) - 1 : Next1(L, g[k], g[k + 1]))
        <=> (\A k \in 1..Len(g) : k + 1 <= Len(g) => Next1(L, g[k], g[k + 1]))
  BY <1>1
<1>4. IsWhole(frame)' <=> Whole(L, g)
  BY <1>2, <1>3 DEF Whole, Run, g
<1> QED
  BY <1>4 DEF g, L

(* Frames sent later change nothing about it.                                *)
LEMMA RunGrows ==
  ASSUME NEW L \in Seq(Nat), NEW M \in Seq(Nat), Grown(L, M), NEW g \in Words, Run(L, g)
  PROVE  /\ Run(M, g) /\ LastOf(g) \in Nat \X Nat
         /\ Begun(L, g) => Begun(M, g)
         /\ Whole(L, g) => Whole(M, g)
         /\ \A w : After(L, g, w) => After(M, g, w)
<1>1. Len(g) \in Nat /\ Len(g) # 0 /\ Len(g) \in 1..Len(g)
  BY EmptyOrNot DEF Words, Run
<1>2. \A k \in 1..Len(g) : g[k][1] \in 1..Len(L) /\ g[k][1] \in 1..Len(M) /\ M[g[k][1]] = L[g[k][1]]
  <2>1. \A k \in 1..Len(g) : g[k][1] \in 1..Len(L)
    BY DEF Run
  <2>2. Len(L) \in Nat /\ Len(M) \in Nat /\ Len(L) <= Len(M)
    BY DEF Grown
  <2>3. \A j \in 1..Len(L) : M[j] = L[j] /\ j \in 1..Len(M)
    BY <2>2 DEF Grown
  <2> QED
    BY <2>1, <2>3
<1>3. \A k \in 1..Len(g) : k + 1 <= Len(g) => Next1(M, g[k], g[k + 1])
  BY <1>2 DEF Run, Next1
<1>4. Run(M, g)
  BY <1>2, <1>3 DEF Run
<1>5. LastOf(g)[1] \in 1..Len(L) /\ M[LastOf(g)[1]] = L[LastOf(g)[1]]
  BY <1>1, <1>2 DEF LastOf
<1>6. LastOf(g) \in Nat \X Nat
  BY <1>1 DEF LastOf, Words
<1> QED
  BY <1>4, <1>5, <1>6 DEF Begun, Whole, After, Ahead

(* A buffer is added to what has been received.                              *)
Extended(g, b, c) == c = g \o b
LEMMA RunJoins ==
  ASSUME NEW L \in Seq(Nat), NEW g \in Words, g = <<>> \/ Begun(L, g),
         NEW b \in Words, Block(L, b), After(L, g, b[1]),
         NEW c, Extended(g, b, c)
  PROVE  Run(L, c) /\ LastOf(c) = LastOf(b) /\ c \in Words
<1> DEFINE m == Len(g)
           n == Len(b)
<1>1. /\ g \in Seq(Nat \X Nat) /\ b \in Seq(Nat \X Nat)
      /\ m \in Nat /\ n \in Nat /\ n # 0 /\ (g = <<>> <=> m = 0)
  BY EmptyOrNot DEF Words, Block
<1>2. /\ c \in Seq(Nat \X Nat) /\ Len(c) = m + n
      /\ \A k \in 1..m : c[k] = g[k]
      /\ \A k \in 1..n : c[m + k] = b[k]
  BY <1>1 DEF Extended
<1>3. /\ b[1] \in Nat \X Nat /\ b[1][1] \in 1..Len(L) /\ L[b[1][1]] \in Nat
      /\ b[1][2] # 0 /\ b[1][2] + n - 1 <= L[b[1][1]]
      /\ \A k \in 1..n : b[k] = <<b[1][1], b[1][2] + k - 1>>
  BY BlockEnds DEF Block
<1> HIDE DEF m, n
<1>4. c # <<>> /\ LastOf(c) = LastOf(b)
  <2>1. n \in 1..n /\ m + n # 0
    BY <1>1
  <2>2. c[m + n] = b[n]
    BY <1>2, <2>1
  <2> QED
    BY <1>2, <2>1, <2>2, EmptyOrNot DEF LastOf, n
<1>5. m # 0 => Run(L, g) /\ LastOf(g) = g[m] /\ g[m][2] % BufWords = 0
               /\ Ahead(L, g[m], b[1])
  BY <1>1 DEF Begun, LastOf, After, m
<1>6. c[1][2] = 1
  <2>1. CASE m = 0
    <3>1. c[1] = b[1]
      BY <1>1, <1>2, <2>1
    <3> QED
      BY <1>1, <2>1, <3>1 DEF After
  <2>2. CASE m # 0
    <3>1. c[1] = g[1]
      BY <1>1, <1>2, <2>2
    <3> QED
      BY <1>5, <2>2, <3>1 DEF Run
  <2> QED
    BY <2>1, <2>2
<1>7. ASSUME NEW k \in 1..Len(c) PROVE c[k][1] \in 1..Len(L) /\ c[k][2] \in 1..L[c[k][1]]
  <2>1. CASE k \in 1..m
    <3>0. c[k] = g[k]
      BY <1>2, <2>1
    <3>1. m # 0 /\ c[k] = g[k]
      <4>1. m \in Nat
        BY <1>1
      <4> QED
        BY <2>1, <3>0, <4>1
    <3> QED
      BY <1>5, <2>1, <3>1 DEF Run, m
  <2>2. CASE k \notin 1..m
    <3>1. PICK j \in 1..n : k = m + j
      <4>1. k - m \in 1..n /\ k = m + (k - m)
        BY <1>1, <1>2, <2>2
      <4> QED
        BY <4>1
    <3>2. c[k] = <<b[1][1], b[1][2] + j - 1>>
      BY <1>2, <1>3, <3>1
    <3>3. b[1][2] + j - 1 \in 1..L[b[1][1]]
      <4> DEFINE i == b[1][2]
                 top == L[b[1][1]]
      <4>1. i \in Nat /\ i # 0 /\ i + n - 1 <= top /\ top \in Nat /\ n \in Nat
        BY <1>1, <1>3
      <4> HIDE DEF i, top
      <4>2. i + j - 1 \in 1..top
        BY <4>1
      <4> QED
        BY <4>2 DEF i, top
    <3> QED
      BY <1>3, <3>2, <3>3
  <2> QED
    BY <2>1, <2>2
<1>8. ASSUME NEW k \in 1..Len(c), k + 1 <= Len(c) PROVE Next1(L, c[k], c[k + 1])
  <2>1. CASE k + 1 <= m
    <3>1. k \in 1..m /\ k + 1 \in 1..m /\ m # 0
      BY <1>1, <1>2, <2>1
    <3>2. c[k] = g[k] /\ c[k + 1] = g[k + 1]
      BY <1>2, <3>1
    <3> QED
      BY <1>5, <2>1, <3>1, <3>2 DEF Run, m
  <2>2. CASE k = m
    <3>0. m # 0 /\ m \in 1..m /\ 1 \in 1..n
      BY <1>1, <1>2, <2>2
    <3>1. m # 0 /\ c[k] = g[m] /\ c[k + 1] = b[1]
      BY <1>2, <2>2, <3>0
    <3>2. Ahead(L, g[m], b[1]) /\ g[m][2] % BufWords = 0
      BY <1>5, <3>1
    <3> QED
      BY <3>1, <3>2 DEF Ahead, Next1
  <2>3. CASE k > m
    <3>1. PICK j \in 1..n : k = m + j /\ j + 1 \in 1..n /\ k + 1 = m + (j + 1)
      <4>1. k - m \in 1..n /\ k = m + (k - m) /\ (k - m) + 1 \in 1..n /\ k + 1 = m + ((k - m) + 1)
        BY <1>1, <1>2, <1>8, <2>3
      <4> QED
        BY <4>1
    <3>2. c[k] = <<b[1][1], b[1][2] + j - 1>> /\ c[k + 1] = <<b[1][1], b[1][2] + (j + 1) - 1>>
      <4>1. c[m + j] = b[j] /\ c[m + (j + 1)] = b[j + 1]
        BY <1>2, <3>1
      <4> QED
        BY <1>3, <3>1, <4>1
    <3>3. b[1][2] + (j + 1) - 1 = (b[1][2] + j - 1) + 1
      <4> DEFINE i == b[1][2]
      <4>1. i \in Nat /\ j \in Nat
        BY <1>1, <1>3, <3>1
      <4> HIDE DEF i
      <4>2. i + (j + 1) - 1 = (i + j - 1) + 1
        BY <4>1
      <4> QED
        BY <4>2 DEF i
    <3> QED
      BY <3>2, <3>3 DEF Next1
  <2>4. k + 1 <= m \/ k = m \/ k > m
    <3>1. k \in Nat
      BY <1>1, <1>2
    <3> QED
      BY <1>1, <3>1
  <2> QED
    BY <2>1, <2>2, <2>3, <2>4
<1> QED
  BY <1>2, <1>4, <1>6, <1>7, <1>8 DEF Run, Words

-----------------------------------------------------------------------------
(* The stream as a whole, from the bridge to the host.                       *)
Pending == buf[NextToFill]
Fresh == Newest(usb, full, NextToFill)
Front == Oldest(usb, full, turn, Pending)

(* What the host will go on with: the frame ID of the next payload decides.  *)
NextFid == IF usb = <<>> THEN fid ELSE usb[1].fid
Got == IF NextFid = rxFid THEN rx ELSE <<>>

(* The last buffer written that is not lost, and what is known of its last   *)
(* word v: the machine is at it, or its frame is over.                       *)
Tip == IF Pending # <<>> THEN Pending ELSE IF Fresh # <<>> THEN Fresh ELSE Got
Placed(L, st, valid, p, v) ==
  IF st \in Data THEN v = <<Len(L), p>>
  ELSE v[1] \in 1..Len(L) /\ v[2] = L[v[1]] /\ (valid => v[1] < Len(L))

(* The channel holds its words in order, what the host has got so far is     *)
(* ahead of them, and the machine goes on where the last of them ends.  All  *)
(* this is given up when a buffer is lost, and the second and third while    *)
(* the head of an unfinished frame waits for a frame it does not belong to.  *)
OrderInv == Intact => Chain(lens, usb, full, turn, NextToFill, Pending)
FrontInv == damage = "none" =>
  /\ Got = <<>> \/ Begun(lens, Got)
  /\ Front # <<>> => After(lens, Got, Front[1])
TipKnown == damage = "none" \/ (Intact /\ (Pending # <<>> \/ Fresh # <<>>))
TipInv == TipKnown =>
  IF Tip # <<>> THEN Placed(lens, gst, fv, pos, LastOf(Tip)) ELSE gst \notin Data

(* What is on its way was sent after the last frame the host completed.      *)
Later(g, b) == LastOf(g)[1] < b[1][1]
LaterInv == damage = "none" /\ frame # <<>> =>
  /\ Got # <<>> => Later(frame, Got)
  /\ Got = <<>> /\ Front # <<>> => Later(frame, Front)
  /\ Tip = <<>> => Placed(lens, gst, fv, pos, LastOf(frame))

StreamInv ==
  /\ rx \in Words /\ frame \in Words
  /\ OrderInv /\ FrontInv /\ TipInv /\ LaterInv /\ WholeFrames

(* What the buffers are while nothing is lost.                               *)
LEMMA ChannelIs ==
  ASSUME GpifInv, Intact
  PROVE  /\ Channel(usb, full, turn, NextToFill, Pending)
         /\ buf[Other(NextToFill)] = <<>> /\ Len(Pending) < BufWords
         /\ Pending # <<>> => /\ gst \in InData /\ ~fwTrg /\ ~CountHit(sck)
                              /\ NextToFill = sck
         /\ gst \in Data /\ Pending = <<>> => CountHit(sck)
<1> USE TwoSockets DEF GpifInv
<1>1. /\ sck \in Sockets /\ turn \in Sockets /\ usb \in Seq(Payload)
      /\ full \in [Sockets -> Seq(Words)] /\ buf \in [Sockets -> Words]
  BY DEF Types
<1>2. NextToFill \in Sockets
  BY <1>1 DEF NextToFill
<1>3. OpenBuffers /\ FullBuffers
  BY DEF BuffersInv
<1>4. Even(full, turn, NextToFill)
  BY <1>3 DEF FullBuffers, Even
<1>5. Pending \in Words /\ Len(Pending) < BufWords
  BY <1>1, <1>2 DEF Pending, RoomKept
<1>6. CASE gst \in InData /\ ~fwTrg
  <2>1. buf[Other(sck)] = <<>> /\ Len(buf[sck]) = IF CountHit(sck) THEN 0 ELSE count[sck]
    BY <1>3, <1>6 DEF OpenBuffers
  <2>2. CASE CountHit(sck)
    <3>1. NextToFill = Other(sck) /\ Other(NextToFill) = sck
      BY <1>1, <1>6, <2>2 DEF NextToFill
    <3>2. Len(buf[sck]) = 0 /\ buf[sck] \in Words
      BY <1>1, <2>1, <2>2
    <3>3. buf[sck] = <<>>
      BY <3>2, EmptyOrNot DEF Words
    <3> QED
      BY <1>1, <1>2, <1>4, <1>5, <2>1, <2>2, <3>1, <3>3 DEF Channel, Pending
  <2>3. CASE ~CountHit(sck)
    <3>1. NextToFill = sck
      BY <1>6, <2>3 DEF NextToFill, InData
    <3>2. Len(buf[sck]) # 0 /\ buf[sck] \in Words
      BY <1>1, <1>6, <2>1, <2>3 DEF CounterInv
    <3>3. Pending # <<>>
      BY <3>1, <3>2, EmptyOrNot DEF Words, Pending
    <3> QED
      BY <1>1, <1>2, <1>4, <1>5, <1>6, <2>1, <2>3, <3>1, <3>3 DEF Channel
  <2> QED
    BY <2>2, <2>3
<1>7. CASE ~(gst \in InData /\ ~fwTrg)
  <2>1. \A s \in Sockets : buf[s] = <<>>
    BY <1>3, <1>7 DEF OpenBuffers
  <2>2. gst \notin Data
    BY <1>7 DEF HandshakeInv, InData, Data
  <2> QED
    BY <1>1, <1>2, <1>4, <1>5, <2>1, <2>2 DEF Channel, Pending
<1> QED
  BY <1>6, <1>7

(* The last word of what is not empty.                                       *)
LEMMA LastIsWord ==
  ASSUME NEW g \in Words, g # <<>>
  PROVE  LastOf(g) \in Nat \X Nat
<1>1. g \in Seq(Nat \X Nat)
  BY DEF Words
<1>2. Len(g) \in 1..Len(g)
  BY <1>1
<1> QED
  BY <1>1, <1>2 DEF LastOf

(* The ends of the stream are words.                                         *)
LEMMA TipIsWords ==
  ASSUME GpifInv, StreamInv, Intact
  PROVE  /\ Got \in Words /\ Fresh \in Words /\ Front \in Words /\ Tip \in Words
         /\ Tip # <<>> => LastOf(Tip) \in Nat \X Nat
<1>1. Got \in Words
  <2>1. <<>> \in Words
    BY DEF Words
  <2> QED
    BY <2>1 DEF StreamInv, Got
<1>2. Channel(usb, full, turn, NextToFill, Pending)
      /\ Chain(lens, usb, full, turn, NextToFill, Pending) /\ lens \in Seq(Nat)
  BY ChannelIs DEF StreamInv, OrderInv, GpifInv, Types
<1>3. Fresh \in Words /\ Front \in Words
  BY <1>2, Ends DEF Fresh, Front
<1>4. Pending \in Words
  BY <1>2 DEF Channel
<1>5. Tip \in Words
  BY <1>1, <1>3, <1>4 DEF Tip
<1> HIDE DEF Tip
<1>6. Tip # <<>> => LastOf(Tip) \in Nat \X Nat
  BY <1>5, LastIsWord
<1> QED
  BY <1>1, <1>3, <1>5, <1>6

(* A frame that is whole stays whole when others are sent.                   *)
LEMMA StillWhole ==
  ASSUME GpifInv, StreamInv, lens' \in Seq(Nat), Grown(lens, lens'), frame' = frame
  PROVE  frame' \in Words /\ WholeFrames'
<1>1. lens \in Seq(Nat)
  BY DEF GpifInv, Types
<1>2. frame' \in Words
  BY DEF StreamInv
<1>3. WholeFrames'
  <2> SUFFICES ASSUME frame' # <<>> PROVE IsWhole(frame)'
    BY DEF WholeFrames
  <2>1. Whole(lens, frame)
    BY <1>1, WholeIs DEF StreamInv, WholeFrames
  <2>2. Whole(lens', frame')
    BY <1>1, <1>2, <2>1, RunGrows DEF Whole
  <2> QED
    BY <1>2, <2>2, WholeIsLater
<1> QED
  BY <1>2, <1>3

(* A step that leaves the ends of the stream where they were.                *)
LEMMA StillOrdered ==
  ASSUME GpifInv, StreamInv, damage' \in {damage, "lost"},
         lens' \in Seq(Nat), Grown(lens, lens'), UNCHANGED <<rx, rxFid, frame>>,
         Intact' => /\ Chain(lens', usb, full, turn, NextToFill, Pending)
                       => Chain(lens', usb', full', turn', NextToFill', Pending')
                    /\ Tip' = Tip /\ Front' = Front /\ Got' = Got
                    /\ Pending' # <<>> \/ Fresh' # <<>> => Pending # <<>> \/ Fresh # <<>>,
         \A v \in Nat \X Nat : Placed(lens, gst, fv, pos, v) => Placed(lens', gst', fv', pos', v),
         gst \notin Data => gst' \notin Data
  PROVE  StreamInv'
<1>1. lens \in Seq(Nat)
  BY DEF GpifInv, Types
<1>2. rx' \in Words /\ frame' \in Words
  BY DEF StreamInv
<1>3. WholeFrames'
  BY StillWhole
<1>4. damage' = "lost" => OrderInv' /\ FrontInv' /\ TipInv' /\ LaterInv'
  BY DEF OrderInv, FrontInv, TipInv, LaterInv, TipKnown, Intact
<1>5. ASSUME damage' # "lost" PROVE OrderInv' /\ FrontInv' /\ TipInv' /\ LaterInv'
  <2>1. Intact' /\ Intact /\ damage' = damage
    BY <1>5 DEF Intact
  <2>2. Chain(lens, usb, full, turn, NextToFill, Pending)
    BY <2>1 DEF StreamInv, OrderInv
  <2>3. OrderInv'
    <3>1. Chain(lens', usb, full, turn, NextToFill, Pending)
      BY <1>1, <2>1, <2>2, ChannelIs, ChainGrows
    <3> QED
      BY <2>1, <3>1 DEF OrderInv
  <2>4. Got \in Words /\ (Tip # <<>> => LastOf(Tip) \in Nat \X Nat)
    BY <2>1, TipIsWords
  <2>5. FrontInv'
    <3> SUFFICES ASSUME damage' = "none"
                 PROVE  /\ Got' = <<>> \/ Begun(lens', Got')
                        /\ Front' # <<>> => After(lens', Got', Front'[1])
      BY DEF FrontInv
    <3>1. /\ Got = <<>> \/ Begun(lens, Got)
          /\ Front # <<>> => After(lens, Got, Front[1])
      BY <2>1 DEF StreamInv, FrontInv
    <3>2. Begun(lens, Got) => Begun(lens', Got) /\ \A w : After(lens, Got, w) => After(lens', Got, w)
      BY <1>1, <2>4, RunGrows DEF Begun
    <3>3. Got = <<>> => \A w : After(lens, Got, w) => After(lens', Got, w)
      BY DEF After
    <3> QED
      BY <2>1, <3>1, <3>2, <3>3
  <2>6. TipInv'
    <3> SUFFICES ASSUME TipKnown'
                 PROVE  IF Tip' # <<>> THEN Placed(lens', gst', fv', pos', LastOf(Tip')) ELSE gst' \notin Data
      BY DEF TipInv
    <3>1. TipKnown
      BY <2>1 DEF TipKnown
    <3>2. IF Tip # <<>> THEN Placed(lens, gst, fv, pos, LastOf(Tip)) ELSE gst \notin Data
      BY <3>1 DEF StreamInv, TipInv
    <3> QED
      BY <2>1, <2>4, <3>2
  <2>7. LaterInv'
    <3> SUFFICES ASSUME damage' = "none", frame' # <<>>
                 PROVE  /\ Got' # <<>> => Later(frame', Got')
                        /\ Got' = <<>> /\ Front' # <<>> => Later(frame', Front')
                        /\ Tip' = <<>> => Placed(lens', gst', fv', pos', LastOf(frame'))
      BY DEF LaterInv
    <3>1. /\ Got # <<>> => Later(frame, Got)
          /\ Got = <<>> /\ Front # <<>> => Later(frame, Front)
          /\ Tip = <<>> => Placed(lens, gst, fv, pos, LastOf(frame))
      BY <2>1 DEF StreamInv, LaterInv
    <3>2. LastOf(frame) \in Nat \X Nat
      BY LastIsWord DEF StreamInv
    <3> QED
      BY <2>1, <3>1, <3>2
  <2> QED
    BY <2>3, <2>5, <2>6, <2>7
<1> QED
  BY <1>2, <1>3, <1>4, <1>5 DEF StreamInv

-----------------------------------------------------------------------------
(* A clock moves the place of the last word from the machine's to the end of *)
(* its frame.                                                                *)
LEMMA PlacedStays ==
  ASSUME GpifInv, LineInv, Sends \/ Rests \/ Begins, Arrows, Counts, gst' # "PUSH_DATA"
  PROVE  /\ gst \notin Data => gst' \notin Data
         /\ \A v \in Nat \X Nat :
              Placed(lens, gst, fv, pos, v) => Placed(lens', gst', fv', pos', v)
<1> USE DEF GpifInv, LineInv
<1>1. /\ BridgeInv'
      /\ Sends => lens' = lens /\ fv' = fv
      /\ Rests => lens' = lens /\ pos' = pos /\ (fv' => fv)
      /\ Begins => ~fv /\ InFrame' = InFrame + 1
      /\ lens' \in Seq(Nat) /\ Grown(lens, lens') /\ lens \in Seq(Nat)
  BY BridgeSteps DEF Types
<1>2. gst \in Data => Rests /\ pos # 0
  BY ClockKeepsLine DEF InStep
<1>3. gst \notin Data => gst' \notin Data
  BY DEF Arrows, Stays, Arrow, Data
<1>4. ASSUME NEW v \in Nat \X Nat, Placed(lens, gst, fv, pos, v)
      PROVE  Placed(lens', gst', fv', pos', v)
  <2>1. CASE gst \in Data
    <3>1. v = <<Len(lens), pos>> /\ lens' = lens /\ pos' = pos
      BY <1>1, <1>2, <1>4, <2>1 DEF Placed
    <3>2. CASE gst' \in Data
      BY <3>1, <3>2 DEF Placed
    <3>3. CASE gst' \notin Data
      <4>1. ~fv'
        BY <2>1, <3>3 DEF Arrows, Stays, Arrow, Data
      <4>2. Len(lens) # 0
        BY <1>2, <2>1 DEF BridgeInv, InFrame
      <4>3. pos' = lens'[Len(lens')]
        BY <1>1, <3>1, <4>1, <4>2 DEF BridgeInv, InFrame
      <4>4. Len(lens) \in 1..Len(lens)
        BY <1>1, <4>2
      <4> QED
        BY <3>1, <3>3, <4>1, <4>3, <4>4 DEF Placed
    <3> QED
      BY <3>2, <3>3
  <2>2. CASE gst \notin Data
    <3>1. v[1] \in 1..Len(lens) /\ v[2] = lens[v[1]] /\ (fv => v[1] < Len(lens)) /\ gst' \notin Data
      BY <1>3, <1>4, <2>2 DEF Placed
    <3>2. v[1] \in 1..Len(lens') /\ v[2] = lens'[v[1]]
      BY <1>1, <3>1 DEF Grown
    <3>3. fv' => v[1] < Len(lens')
      <4>1. CASE Begins
        <5>1. Len(lens') = Len(lens) + 1 /\ Len(lens) \in Nat
          BY <1>1, <4>1 DEF InFrame
        <5> QED
          BY <3>1, <5>1
      <4>2. CASE ~Begins
        BY <1>1, <3>1, <4>2
      <4> QED
        BY <4>1, <4>2
    <3> QED
      BY <3>1, <3>2, <3>3 DEF Placed
  <2> QED
    BY <2>1, <2>2
<1> QED
  BY <1>3, <1>4

(* The word that is written follows what is there.                           *)
LEMMA PushedWord ==
  ASSUME GpifInv, LineInv, StreamInv, Intact, Sends, Arrows, Counts, gst' = "PUSH_DATA",
         NEW w, w = <<InFrame, pos + 1>>, NEW b, b = Append(Pending, w)
  PROVE  /\ b \in Words /\ Block(lens, b) /\ LastOf(b) = w /\ Len(b) = Len(Pending) + 1
         /\ Fresh # <<>> => After(lens, Fresh, b[1])
         /\ damage = "none" /\ Fresh = <<>> => After(lens, Got, b[1])
<1>1. /\ lens \in Seq(Nat) /\ pos \in Nat /\ fv /\ InFrame = Len(lens)
      /\ InFrame \in 1..Len(lens) /\ pos < lens[InFrame] /\ lens[InFrame] \in Nat
  BY BridgeSteps DEF GpifInv, Types, LineInv, InFrame
<1>2. w \in Nat \X Nat /\ w[1] = Len(lens) /\ w[2] = pos + 1 /\ w[2] # 0 /\ w[2] - 1 = pos
      /\ w[2] <= lens[w[1]]
  BY <1>1
<1>3. Channel(usb, full, turn, NextToFill, Pending)
      /\ Chain(lens, usb, full, turn, NextToFill, Pending)
  BY ChannelIs DEF StreamInv, OrderInv
<1>4. Pending \in Words /\ Len(b) = Len(Pending) + 1
  <2>1. Pending \in Seq(Nat \X Nat)
    BY <1>3 DEF Channel, Words
  <2> QED
    BY <1>2, <2>1, Appended DEF Words
<1>5. CASE Pending # <<>>
  <2>1. gst \in Data
    BY <1>5, ChannelIs DEF Arrows, Stays, Arrow, Data, InData
  <2>2. Tip = Pending /\ TipKnown
    BY <1>5 DEF Tip, TipKnown
  <2>3. LastOf(Pending) = <<Len(lens), pos>>
    BY <1>5, <2>1, <2>2 DEF StreamInv, TipInv, Placed
  <2>4. Block(lens, Pending) /\ Len(Pending) < BufWords
    BY <1>3, <1>5 DEF Chain
  <2>5. Pending[1][1] = Len(lens)
    BY <1>1, <1>4, <2>3, <2>4, BlockEnds
  <2>6. LastOf(Pending)[2] < lens[Pending[1][1]]
        /\ w = <<LastOf(Pending)[1], LastOf(Pending)[2] + 1>>
    BY <1>1, <2>3, <2>5
  <2>7. Block(lens, b) /\ b \in Words /\ b[1] = Pending[1] /\ LastOf(b) = w
    BY <1>1, <1>2, <1>4, <2>4, <2>6, BlockContinues
  <2>8. Fresh # <<>> => After(lens, Fresh, b[1])
    BY <1>3, <1>5, <2>7 DEF Chain, Fresh
  <2>9. damage = "none" /\ Fresh = <<>> => After(lens, Got, b[1])
    <3> SUFFICES ASSUME damage = "none", Fresh = <<>> PROVE After(lens, Got, b[1])
      OBVIOUS
    <3>1. usb = <<>> /\ full[turn] = <<>>
      BY <1>1, <1>3, Ends DEF Fresh
    <3>2. Front = Pending
      BY <3>1 DEF Front, Oldest
    <3> QED
      BY <1>5, <2>7, <3>2 DEF StreamInv, FrontInv
  <2> QED
    BY <1>4, <2>7, <2>8, <2>9
<1>6. CASE Pending = <<>>
  <2>1. gst = "WAIT_FOR_FRAME_START" \/ (gst \in Data /\ CountHit(sck))
    BY <1>6, ChannelIs DEF Arrows, Stays, Arrow, Data
  <2>2. pos % BufWords = 0
    <3>1. CASE gst = "WAIT_FOR_FRAME_START"
      <4>1. pos = 0
        BY <1>1, <3>1 DEF LineInv, InStep
      <4> QED
        BY <4>1, GpifStreamAssumption
    <3>2. CASE gst \in Data /\ CountHit(sck)
      <4> DEFINE m == pos - BufWords
      <4>1. BufWords \in Nat /\ BufWords <= pos /\ m % BufWords = 0
        BY <3>2, GpifStreamAssumption DEF LineInv, InStep, CountHit
      <4>2. m \in Nat /\ pos = m + BufWords
        BY <1>1, <4>1
      <4> HIDE DEF m
      <4> QED
        BY <4>1, <4>2, Multiples
    <3> QED
      BY <2>1, <3>1, <3>2
  <2>3. ASSUME NEW v \in Nat \X Nat, Placed(lens, gst, fv, pos, v) PROVE Ahead(lens, v, w)
    <3>1. CASE gst \in Data
      BY <1>1, <2>3, <3>1 DEF Placed, Ahead
    <3>2. CASE gst = "WAIT_FOR_FRAME_START"
      <4>1. pos = 0 /\ gst \notin Data
        BY <1>1, <3>2 DEF LineInv, InStep, Data
      <4> QED
        BY <1>1, <1>2, <2>3, <4>1 DEF Placed, Ahead
    <3> QED
      BY <2>1, <3>1, <3>2
  <2>4. gst \notin Data => w[2] = 1
    <3>1. gst \notin Data => pos = 0
      BY <1>1, <2>1 DEF LineInv, InStep
    <3> QED
      BY <1>2, <3>1
  <2>5. b = Append(<<>>, w)
    BY <1>6
  <2>6. Block(lens, b) /\ b \in Words /\ b[1] = w /\ LastOf(b) = w
    <3>1. (w[2] - 1) % BufWords = 0 /\ w[1] \in 1..Len(lens)
      BY <1>1, <1>2, <2>2
    <3> QED
      BY <1>1, <1>2, <2>5, <3>1, BlockBegins
  <2>7. Tip \in Words /\ (Tip # <<>> => LastOf(Tip) \in Nat \X Nat)
    BY TipIsWords
  <2>8. Tip = IF Fresh # <<>> THEN Fresh ELSE Got
    BY <1>6 DEF Tip
  <2>9. Fresh # <<>> => After(lens, Fresh, b[1])
    <3> SUFFICES ASSUME Fresh # <<>> PROVE After(lens, Fresh, b[1])
      OBVIOUS
    <3>1. TipKnown /\ Tip = Fresh
      BY <2>8 DEF TipKnown
    <3>2. Ahead(lens, LastOf(Fresh), w)
      BY <2>3, <2>7, <3>1 DEF StreamInv, TipInv
    <3> QED
      BY <2>6, <3>2 DEF After
  <2>10. damage = "none" /\ Fresh = <<>> => After(lens, Got, b[1])
    <3> SUFFICES ASSUME damage = "none", Fresh = <<>> PROVE After(lens, Got, b[1])
      OBVIOUS
    <3>1. TipKnown /\ Tip = Got
      BY <2>8 DEF TipKnown
    <3>2. CASE Got # <<>>
      <4>1. Ahead(lens, LastOf(Got), w)
        BY <2>3, <2>7, <3>1, <3>2 DEF StreamInv, TipInv
      <4> QED
        BY <2>6, <3>2, <4>1 DEF After
    <3>3. CASE Got = <<>>
      BY <2>4, <2>6, <3>1, <3>3 DEF StreamInv, TipInv, After
    <3> QED
      BY <3>2, <3>3
  <2> QED
    BY <1>4, <2>6, <2>9, <2>10
<1> QED
  BY <1>5, <1>6

(* A clock that writes a word.                                               *)
LEMMA PushKeepsStream ==
  ASSUME GpifInv, LineInv, StreamInv, Sends, Arrows, Counts, gst' = "PUSH_DATA",
         PushWord(sck', Word'), GpifInv', LineInv',
         UNCHANGED <<fwTrg, turn, fid, usb, rx, rxFid, frame>>
  PROVE  StreamInv'
<1> DEFINE s == sck'
           w == <<InFrame, pos + 1>>
           b == Append(Pending, w)
<1>1. /\ lens' = lens /\ pos' = pos + 1 /\ lens \in Seq(Nat) /\ Grown(lens, lens')
      /\ sck \in Sockets /\ InFrame = Len(lens) /\ InFrame' = InFrame
      /\ count \in [Sockets -> 0..BufWords]
  BY BridgeSteps DEF GpifInv, Types, LineInv, InFrame
<1>2. rx' \in Words /\ frame' \in Words /\ WholeFrames'
  BY <1>1, StillWhole DEF StreamInv
<1>3. Word' = w
  BY <1>1 DEF Word
<1>4. damage' = "lost" => StreamInv'
  BY <1>2 DEF StreamInv, OrderInv, FrontInv, TipInv, LaterInv, TipKnown, Intact
<1>5. ASSUME damage' # "lost" PROVE StreamInv'
  <2>1. damage' = damage /\ Intact
    BY <1>5 DEF PushWord, Intact
  <2>2. /\ Channel(usb, full, turn, NextToFill, Pending)
        /\ Chain(lens, usb, full, turn, NextToFill, Pending)
        /\ buf[Other(NextToFill)] = <<>> /\ Len(Pending) < BufWords /\ NextToFill \in Sockets
        /\ full \in [Sockets -> Seq(Words)] /\ buf \in [Sockets -> Words] /\ turn \in Sockets
    BY <2>1, ChannelIs DEF StreamInv, OrderInv, Channel, GpifInv, Types
  <2>3. s = NextToFill /\ Len(buf[s]) = count[s] /\ ~fwTrg
    BY <2>1, PushTakesTurn DEF GpifInv, BuffersInv
  <2>4. /\ b \in Words /\ Block(lens, b) /\ LastOf(b) = w /\ Len(b) = Len(Pending) + 1
        /\ Fresh # <<>> => After(lens, Fresh, b[1])
        /\ damage = "none" /\ Fresh = <<>> => After(lens, Got, b[1])
    BY <2>1, PushedWord
  <2>5. Pending = buf[s] /\ b = Append(buf[s], w) /\ s \in Sockets /\ Other(s) \in Sockets
        /\ Other(s) # s
    BY <2>2, <2>3, TwoSockets DEF Pending
  <2>6. count'[s] = Len(b) /\ NextToFill' = IF Len(b) = BufWords THEN Other(s) ELSE s
    <3>1. count' = [t \in Sockets |-> IF t = s THEN count[t] + 1 ELSE 0]
      BY ClockKeepsCounter DEF GpifInv
    <3>2. count'[s] = Len(b)
      BY <2>3, <2>4, <2>5, <3>1
    <3>3. NextToFill' = IF count'[s] = BufWords THEN Other(s) ELSE s
      BY <2>3 DEF NextToFill, CountHit, InData
    <3> QED
      BY <3>2, <3>3
  <2>7. b # <<>>
    BY <2>4 DEF Block
  <2>8. PushWord(s, w)
    BY <1>3
  <2>8a. /\ Pending # <<>> => b[1] = Pending[1]
         /\ Pending = <<>> => b[1][1] = Len(lens)
         /\ fv
    <3>1. Pending \in Seq(Nat \X Nat) /\ w \in Nat \X Nat /\ w[1] = Len(lens) /\ fv
      <4>1. fv /\ pos \in Nat
        BY BridgeSteps DEF GpifInv, Types, LineInv
      <4>2. Pending \in Seq(Nat \X Nat)
        BY <2>2 DEF Channel, Words
      <4>3. Len(lens) \in Nat /\ InFrame = Len(lens)
        BY <1>1
      <4>4. w \in Nat \X Nat /\ w[1] = Len(lens)
        BY <4>1, <4>3
      <4> QED
        BY <4>1, <4>2, <4>4
    <3> HIDE DEF w
    <3>2. /\ b[Len(Pending) + 1] = w /\ \A k \in 1..Len(Pending) : b[k] = Pending[k]
      BY <3>1, Appended
    <3>3. Len(Pending) \in Nat /\ (Pending = <<>> <=> Len(Pending) = 0)
      BY <3>1, EmptyOrNot
    <3>4. (Pending = <<>> => Len(Pending) + 1 = 1) /\ (Pending # <<>> => 1 \in 1..Len(Pending))
      BY <3>3
    <3> QED
      BY <3>1, <3>2, <3>4
  <2> HIDE DEF w, b, s
  <2>9. HasRoom(s)
    BY <1>5, <2>8 DEF PushWord
  <2>10. Got' = Got
    BY DEF Got, NextFid
  <2>11. /\ Chain(lens, usb, full', turn, NextToFill', Pending') /\ Tip' = b
         /\ Front' = IF usb = <<>> /\ full[turn] = <<>> THEN b ELSE Front
    <3>1. CASE Len(b) = BufWords
      <4>1. /\ buf' = [buf EXCEPT ![s] = <<>>]
            /\ full' = [full EXCEPT ![s] = Append(full[s], b)]
        BY <2>5, <2>8, <2>9, <3>1 DEF PushWord
      <4>2. Complete(lens, b)
        BY <2>4, <3>1 DEF Complete
      <4>3. Joins(full, s, b, full')
        <5>1. full' \in [Sockets -> Seq(Words)]
          BY DEF GpifInv, Types
        <5> QED
          BY <2>2, <2>5, <4>1, <5>1 DEF Joins
      <4>4. Pending' = <<>>
        <5>1. NextToFill' = Other(s) /\ buf'[Other(s)] = buf[Other(s)] /\ buf[Other(s)] = <<>>
          BY <2>2, <2>3, <2>5, <2>6, <3>1, <4>1
        <5> QED
          BY <5>1 DEF Pending
      <4>5. /\ Chain(lens, usb, full', turn, Other(s), <<>>)
            /\ Newest(usb, full', Other(s)) = b
            /\ Oldest(usb, full', turn, <<>>) = IF usb = <<>> /\ full[turn] = <<>> THEN b
                                               ELSE Oldest(usb, full, turn, Pending)
        BY <1>1, <2>2, <2>3, <2>4, <4>2, <4>3, ChainJoins DEF Fresh
      <4>6. NextToFill' = Other(s)
        BY <2>6, <3>1
      <4>7. Fresh' = b /\ Front' = Oldest(usb, full', turn, <<>>)
        BY <4>4, <4>5, <4>6 DEF Fresh, Front
      <4> QED
        BY <2>7, <4>4, <4>5, <4>6, <4>7 DEF Tip, Front
    <3>2. CASE Len(b) # BufWords
      <4>1. buf' = [buf EXCEPT ![s] = b] /\ full' = full
        BY <2>5, <2>8, <2>9, <3>2 DEF PushWord
      <4>2. NextToFill' = s /\ NextToFill = s
        BY <2>3, <2>6, <3>2
      <4>3. Pending' = b
        BY <2>2, <2>5, <4>1, <4>2 DEF Pending
      <4>4. Len(b) < BufWords
        <5>1. Len(b) <= BufWords /\ Len(b) \in Nat /\ BufWords \in Nat
          BY <2>4, GpifStreamAssumption, EmptyOrNot DEF Block, Words
        <5> QED
          BY <3>2, <5>1
      <4>5. Chain(lens, usb, full, turn, s, b)
        BY <2>2, <2>3, <2>4, <4>4 DEF Chain, Fresh
      <4>6. Front' = Oldest(usb, full, turn, b)
        BY <4>1, <4>3 DEF Front
      <4> QED
        BY <2>7, <4>1, <4>2, <4>3, <4>5, <4>6 DEF Tip, Front, Oldest
    <3> QED
      BY <3>1, <3>2
  <2>12. OrderInv'
    BY <1>1, <2>11 DEF OrderInv
  <2>13. FrontInv'
    <3> SUFFICES ASSUME damage' = "none"
                 PROVE  /\ Got' = <<>> \/ Begun(lens', Got')
                        /\ Front' # <<>> => After(lens', Got', Front'[1])
      BY DEF FrontInv
    <3>1. /\ Got = <<>> \/ Begun(lens, Got)
          /\ Front # <<>> => After(lens, Got, Front[1])
      BY <2>1 DEF StreamInv, FrontInv
    <3>2. CASE usb = <<>> /\ full[turn] = <<>>
      <4>1. Fresh = <<>>
        BY <1>1, <2>2, <3>2, Ends DEF Fresh
      <4> QED
        BY <1>1, <2>1, <2>4, <2>10, <2>11, <3>1, <3>2, <4>1
    <3>3. CASE ~(usb = <<>> /\ full[turn] = <<>>)
      BY <1>1, <2>10, <2>11, <3>1, <3>3
    <3> QED
      BY <3>2, <3>3
  <2>14. TipInv'
    <3>1. Placed(lens', gst', fv', pos', w)
      BY <1>1 DEF Placed, Data, w
    <3> QED
      BY <2>4, <2>7, <2>11, <3>1 DEF TipInv
  <2>15. LaterInv'
    <3> SUFFICES ASSUME damage' = "none", frame' # <<>>
                 PROVE  /\ Got' # <<>> => Later(frame', Got')
                        /\ Got' = <<>> /\ Front' # <<>> => Later(frame', Front')
                        /\ Tip' = <<>> => Placed(lens', gst', fv', pos', LastOf(frame'))
      BY DEF LaterInv
    <3>1. /\ Got # <<>> => Later(frame, Got)
          /\ Got = <<>> /\ Front # <<>> => Later(frame, Front)
          /\ Tip = <<>> => Placed(lens, gst, fv, pos, LastOf(frame))
      BY <2>1 DEF StreamInv, LaterInv
    <3>2. ASSUME Got = <<>>, usb = <<>>, full[turn] = <<>> PROVE Later(frame, b)
      <4>1. Fresh = <<>> /\ Front = Pending
        BY <1>1, <2>2, <3>2, Ends DEF Fresh, Front, Oldest
      <4>2. CASE Pending # <<>>
        <5>1. b[1] = Pending[1]
          BY <2>8a, <4>2
        <5> QED
          BY <3>1, <3>2, <4>1, <4>2, <5>1 DEF Later
      <4>3. CASE Pending = <<>>
        <5>1. Tip = <<>> /\ gst \notin Data
          BY <2>1, <3>2, <4>1, <4>3 DEF Tip, StreamInv, TipInv, TipKnown
        <5>2. LastOf(frame)[1] < Len(lens)
          BY <2>8a, <3>1, <5>1 DEF Placed
        <5>3. b[1][1] = Len(lens)
          BY <2>8a, <4>3
        <5> QED
          BY <5>2, <5>3 DEF Later
      <4> QED
        BY <4>2, <4>3
    <3> QED
      BY <2>7, <2>10, <2>11, <3>1, <3>2
  <2> QED
    BY <1>2, <2>12, <2>13, <2>14, <2>15 DEF StreamInv
<1> QED
  BY <1>4, <1>5

(* One clock of the port.                                                    *)
LEMMA ClockKeepsStream ==
  ASSUME GpifInv, LineInv, StreamInv, Clock
  PROVE  LineInv' /\ StreamInv'
<1>1. /\ Sends \/ Rests \/ Begins
      /\ Moves /\ Counts
      /\ UNCHANGED <<fwTrg, turn, fid, usb, rx, rxFid, frame>>
      /\ IF gst' = "PUSH_DATA" THEN PushWord(sck', Word') ELSE UNCHANGED <<buf, full, damage>>
  BY DEF Clock, hostVars
<1>2. Arrows
  BY <1>1, BridgeKeeps, MovesAreArrows DEF GpifInv, Types
<1>3. LineInv' /\ (gst' = "PUSH_DATA" => Sends)
  BY <1>1, <1>2, ClockKeepsLine DEF GpifInv
<1>4. GpifInv'
  BY ClockKeeps
<1>5. CASE gst' = "PUSH_DATA"
  BY <1>1, <1>2, <1>3, <1>4, <1>5, PushKeepsStream
<1>6. CASE gst' # "PUSH_DATA"
  <2>1. lens' \in Seq(Nat) /\ Grown(lens, lens')
    BY <1>1, BridgeSteps DEF GpifInv, LineInv
  <2>2. /\ gst \notin Data => gst' \notin Data
        /\ \A v \in Nat \X Nat :
              Placed(lens, gst, fv, pos, v) => Placed(lens', gst', fv', pos', v)
    BY <1>1, <1>2, <1>6, PlacedStays
  <2>3. NextToFill' = NextToFill
    BY <1>1, <1>2, <1>6, RestKeepsTurn DEF GpifInv
  <2>4. Pending' = Pending /\ Fresh' = Fresh /\ Got' = Got
    BY <1>1, <1>6, <2>3 DEF Pending, Fresh, Got, NextFid
  <2>5. Front' = Front /\ Tip' = Tip
    BY <1>1, <1>6, <2>4 DEF Front, Tip
  <2>6. Chain(lens', usb, full, turn, NextToFill, Pending)
          => Chain(lens', usb', full', turn', NextToFill', Pending')
    BY <1>1, <1>6, <2>3, <2>4
  <2> QED
    BY <1>1, <1>3, <1>6, <2>1, <2>2, <2>4, <2>5, <2>6, StillOrdered
<1> QED
  BY <1>3, <1>5, <1>6

-----------------------------------------------------------------------------
(* The interrupt handler closes the last buffer of a frame: it is complete,  *)
(* because the machine has seen the frame's last word.                       *)
LEMMA HandlerKeepsStream ==
  ASSUME GpifInv, LineInv, StreamInv, FrameEndInterrupt
  PROVE  LineInv' /\ StreamInv'
<1>1. /\ UNCHANGED <<fv, lv, low, lens, pos, gst, sck, count, turn, fid, usb, rx, rxFid, frame, damage>>
      /\ IF gst \in {"PARTIAL_BUF_IN", "FULL_BUF_IN"}
         THEN WrapUp(sck) /\ fwTrg' = TRUE ELSE UNCHANGED <<buf, full, fwTrg>>
  BY DEF FrameEndInterrupt, bridgeVars, gpifVars, hostVars
<1>2. LineInv'
  BY <1>1 DEF LineInv, BridgeInv, InStep, InFrame
<1>3. lens \in Seq(Nat) /\ lens' \in Seq(Nat) /\ Grown(lens, lens') /\ sck \in Sockets
      /\ buf \in [Sockets -> Words] /\ full \in [Sockets -> Seq(Words)]
  BY <1>1 DEF GpifInv, Types, Grown
<1>4. Got' = Got /\ (Intact' => Intact)
  BY <1>1 DEF Got, NextFid, Intact
<1>5. /\ Intact' => /\ Chain(lens', usb, full, turn, NextToFill, Pending)
                       => Chain(lens', usb', full', turn', NextToFill', Pending')
                    /\ Tip' = Tip /\ Front' = Front
                    /\ Pending' # <<>> \/ Fresh' # <<>> => Pending # <<>> \/ Fresh # <<>>
  <2> SUFFICES ASSUME Intact
               PROVE  /\ Chain(lens', usb, full, turn, NextToFill, Pending)
                         => Chain(lens', usb', full', turn', NextToFill', Pending')
                      /\ Tip' = Tip /\ Front' = Front
                      /\ Pending' # <<>> \/ Fresh' # <<>> => Pending # <<>> \/ Fresh # <<>>
    BY <1>4
  <2>1. /\ Channel(usb, full, turn, NextToFill, Pending)
        /\ Chain(lens, usb, full, turn, NextToFill, Pending)
        /\ buf[Other(NextToFill)] = <<>> /\ NextToFill \in Sockets
        /\ Pending # <<>> => gst \in InData /\ ~fwTrg /\ ~CountHit(sck) /\ NextToFill = sck
    BY ChannelIs DEF StreamInv, OrderInv, Channel
  <2>2. CASE buf' = buf /\ full' = full /\ NextToFill' = NextToFill
    <3>1. Pending' = Pending /\ Fresh' = Fresh
      BY <1>1, <2>2 DEF Pending, Fresh
    <3>2. Front' = Front /\ Tip' = Tip
      BY <1>1, <1>4, <2>2, <3>1 DEF Front, Tip
    <3> QED
      BY <1>1, <2>2, <3>1, <3>2
  <2>3. CASE gst = "PARTIAL_BUF_IN" /\ buf[sck] # <<>> /\ WrapUp(sck) /\ fwTrg'
    <3>1. NextToFill = sck /\ Pending = buf[sck] /\ Pending # <<>>
      BY <1>3, <2>1, <2>3, TwoSockets DEF Pending
    <3>2. /\ full' = [full EXCEPT ![sck] = Append(full[sck], Pending)]
          /\ buf' = [buf EXCEPT ![sck] = <<>>]
      BY <2>3, <3>1 DEF WrapUp, WrapsUp
    <3>3. NextToFill' = Other(sck)
      BY <1>1, <2>3 DEF NextToFill, InData
    <3>4. Pending' = <<>>
      BY <1>3, <2>1, <3>1, <3>2, <3>3, TwoSockets DEF Pending
    <3>5. Joins(full, sck, Pending, full')
      <4>1. full' \in [Sockets -> Seq(Words)]
        BY HandlerKeeps DEF GpifInv, Types
      <4>2. Other(sck) # sck /\ Other(sck) \in Sockets
        BY <1>3, TwoSockets
      <4> QED
        BY <1>3, <3>2, <4>1, <4>2 DEF Joins
    <3>6. Complete(lens, Pending) /\ Pending \in Words
      <4>1. Block(lens, Pending) /\ Pending \in Words
        BY <2>1, <3>1 DEF Chain, Channel
      <4>2. Tip = Pending /\ TipKnown
        BY <3>1 DEF Tip, TipKnown
      <4>3. LastOf(Pending)[2] = lens[LastOf(Pending)[1]]
        BY <2>3, <3>1, <4>2 DEF StreamInv, TipInv, Placed, Data
      <4>4. LastOf(Pending)[1] = Pending[1][1]
        BY <1>3, <4>1, BlockEnds
      <4> QED
        BY <4>1, <4>3, <4>4 DEF Complete
    <3>7. Newest(usb, full, NextToFill) # <<>> => After(lens, Newest(usb, full, NextToFill), Pending[1])
      BY <2>1, <3>1 DEF Chain
    <3>8. /\ Chain(lens, usb, full', turn, Other(sck), <<>>)
          /\ Newest(usb, full', Other(sck)) = Pending
          /\ Oldest(usb, full', turn, <<>>) = IF usb = <<>> /\ full[turn] = <<>> THEN Pending
                                             ELSE Oldest(usb, full, turn, Pending)
      BY <1>3, <2>1, <3>1, <3>5, <3>6, <3>7, ChainJoins
    <3>9. Fresh' = Pending
      BY <1>1, <3>3, <3>8 DEF Fresh
    <3>10. Front' = Front
      <4>1. usb = <<>> /\ full[turn] = <<>> => Oldest(usb, full, turn, Pending) = Pending
        BY DEF Oldest
      <4> QED
        BY <1>1, <3>4, <3>8, <4>1 DEF Front
    <3>11. Tip' = Tip
      BY <3>1, <3>4, <3>9 DEF Tip
    <3> QED
      BY <1>1, <3>1, <3>3, <3>4, <3>8, <3>10, <3>11
  <2>4. CASE gst \notin {"PARTIAL_BUF_IN", "FULL_BUF_IN"}
    <3>1. buf' = buf /\ full' = full /\ NextToFill' = NextToFill
      BY <1>1, <2>4 DEF NextToFill, CountHit
    <3> QED
      BY <2>2, <3>1
  <2>5. CASE gst \in {"PARTIAL_BUF_IN", "FULL_BUF_IN"} /\ ~(gst = "PARTIAL_BUF_IN" /\ buf[sck] # <<>>)
    <3>1. buf' = buf /\ full' = full /\ fwTrg'
      BY <1>1, <2>5 DEF WrapUp, WrapsUp
    <3>2. fwTrg \/ CountHit(sck)
      <4> SUFFICES ASSUME ~fwTrg, ~CountHit(sck) PROVE FALSE
        OBVIOUS
      <4>1. gst = "PARTIAL_BUF_IN" /\ gst \in InData
        BY <2>5 DEF GpifInv, CounterInv, InData
      <4>2. Len(buf[sck]) = count[sck] /\ count[sck] # 0
        BY <4>1 DEF GpifInv, CounterInv, BuffersInv, OpenBuffers
      <4>3. buf[sck] # <<>>
        BY <4>2
      <4> QED
        BY <2>5, <4>1, <4>3
    <3>3. NextToFill' = NextToFill
      BY <1>1, <2>5, <3>1, <3>2 DEF NextToFill, CountHit, InData
    <3> QED
      BY <2>2, <3>1, <3>3
  <2> QED
    BY <1>1, <2>3, <2>4, <2>5
<1>6. \A v \in Nat \X Nat : Placed(lens, gst, fv, pos, v) => Placed(lens', gst', fv', pos', v)
  BY <1>1
<1>7. Intact' => /\ Chain(lens', usb, full, turn, NextToFill, Pending)
                    => Chain(lens', usb', full', turn', NextToFill', Pending')
                 /\ Tip' = Tip /\ Front' = Front /\ Got' = Got
                 /\ Pending' # <<>> \/ Fresh' # <<>> => Pending # <<>> \/ Fresh # <<>>
  BY <1>4, <1>5
<1> QED
  BY <1>1, <1>2, <1>3, <1>6, <1>7, StillOrdered

(* The end of the pulse on the firmware's input.                             *)
LEMMA TriggerOffKeepsStream ==
  ASSUME GpifInv, LineInv, StreamInv, TriggerOff
  PROVE  LineInv' /\ StreamInv'
<1>1. /\ UNCHANGED <<fv, lv, low, lens, pos, gst, sck, count, turn, fid, usb, rx, rxFid, frame,
                     damage, buf, full>>
      /\ gst = "FRAME_END"
  BY DEF TriggerOff, bridgeVars, gpifVars, dmaVars, hostVars, GpifInv, HandshakeInv
<1>2. LineInv'
  BY <1>1 DEF LineInv, BridgeInv, InStep, InFrame
<1>3. lens' \in Seq(Nat) /\ Grown(lens, lens')
  BY <1>1 DEF GpifInv, Types, Grown
<1>4. NextToFill' = NextToFill
  BY <1>1 DEF NextToFill
<1>5. Pending' = Pending /\ Fresh' = Fresh /\ Got' = Got
  BY <1>1, <1>4 DEF Pending, Fresh, Got, NextFid
<1>6. Front' = Front /\ Tip' = Tip
  BY <1>1, <1>5 DEF Front, Tip
<1>7. Chain(lens', usb, full, turn, NextToFill, Pending)
        => Chain(lens', usb', full', turn', NextToFill', Pending')
  BY <1>1, <1>4, <1>5
<1>8. \A v \in Nat \X Nat : Placed(lens, gst, fv, pos, v) => Placed(lens', gst', fv', pos', v)
  BY <1>1
<1> QED
  BY <1>1, <1>2, <1>3, <1>5, <1>6, <1>7, <1>8, StillOrdered

(* A buffer is committed.                                                    *)
LEMMA CommitKeepsStream ==
  ASSUME GpifInv, LineInv, StreamInv, Commit
  PROVE  LineInv' /\ StreamInv'
<1> DEFINE words == Head(full[turn])
           p == [sck |-> turn, words |-> words, eof |-> EndsFrame(words), fid |-> fid]
<1>1. /\ full[turn] # <<>>
      /\ UNCHANGED <<fv, lv, low, lens, pos, gst, sck, count, fwTrg, intr, buf, rx, rxFid, frame>>
      /\ \/ /\ usb' = Append(usb, p) /\ full' = [full EXCEPT ![turn] = Tail(full[turn])]
            /\ turn' = Other(turn) /\ damage' = damage
         \/ damage' = "lost"
  BY DEF Commit, bridgeVars, gpifVars, isrVars, hostVars
<1>2. LineInv'
  BY <1>1 DEF LineInv, BridgeInv, InStep, InFrame
<1>3. /\ lens \in Seq(Nat) /\ lens' \in Seq(Nat) /\ Grown(lens, lens')
      /\ turn \in Sockets /\ Other(turn) \in Sockets /\ Other(turn) # turn
      /\ full \in [Sockets -> Seq(Words)] /\ usb \in Seq(Payload) /\ fid \in {0, 1}
  BY <1>1, TwoSockets DEF GpifInv, Types, Grown
<1>4. NextToFill' = NextToFill
  BY <1>1 DEF NextToFill, CountHit
<1>5. Pending' = Pending
  BY <1>1, <1>4 DEF Pending
<1>6. \A v \in Nat \X Nat : Placed(lens, gst, fv, pos, v) => Placed(lens', gst', fv', pos', v)
  BY <1>1
<1>7. CASE damage' = "lost"
  BY <1>1, <1>2, <1>3, <1>6, <1>7, StillOrdered DEF Intact
<1>8. CASE /\ usb' = Append(usb, p) /\ full' = [full EXCEPT ![turn] = Tail(full[turn])]
           /\ turn' = Other(turn) /\ damage' = damage
  <2>1. words \in Words /\ words = full[turn][1]
    BY <1>1, <1>3
  <2>2. p \in Payload /\ Carries(p, full[turn][1]) /\ p.fid = fid
    <3>1. EndsFrame(words) \in BOOLEAN /\ (EndsFrame(words) <=> Len(words) # BufWords)
      BY DEF EndsFrame
    <3> HIDE DEF words
    <3> QED
      BY <1>3, <2>1, <3>1 DEF Payload, Carries
  <2> HIDE DEF p, words
  <2>3. Taken(full, turn, full')
    <3>1. full' \in [Sockets -> Seq(Words)]
      BY CommitKeeps DEF GpifInv, Types
    <3> QED
      BY <1>1, <1>3, <1>8, <3>1 DEF Taken
  <2>4. ASSUME Intact
        PROVE  /\ Chain(lens', usb, full, turn, NextToFill, Pending)
                  => Chain(lens', usb', full', turn', NextToFill', Pending')
               /\ Fresh' = Fresh /\ Front' = Front
    <3>1. Channel(usb, full, turn, NextToFill, Pending)
          /\ Chain(lens, usb, full, turn, NextToFill, Pending)
      BY <2>4, ChannelIs DEF StreamInv, OrderInv
    <3>2. /\ Chain(lens, Append(usb, p), full', Other(turn), NextToFill, Pending)
          /\ Newest(Append(usb, p), full', NextToFill) = Newest(usb, full, NextToFill)
          /\ Oldest(Append(usb, p), full', Other(turn), Pending) = Oldest(usb, full, turn, Pending)
      <4>1. lens \in Seq(Nat) /\ p \in Payload /\ Carries(p, full[turn][1])
        BY <1>3, <2>2
      <4> QED
        BY <2>3, <3>1, <4>1, ChainCommits
    <3> QED
      BY <1>1, <1>4, <1>5, <1>8, <3>2 DEF Fresh, Front
  <2>5. NextFid' = NextFid
    <3>1. usb' # <<>> /\ (usb = <<>> => usb'[1] = p) /\ (usb # <<>> => usb'[1] = usb[1])
      <4>1. usb \in Seq(Payload) /\ p \in Payload
        BY <1>3, <2>2
      <4>2. /\ Append(usb, p) # <<>> /\ Append(usb, p)[Len(usb) + 1] = p
            /\ \A k \in 1..Len(usb) : Append(usb, p)[k] = usb[k]
        BY <4>1, Appended
      <4>3. Len(usb) \in Nat /\ (usb = <<>> <=> Len(usb) = 0)
        BY <4>1, EmptyOrNot
      <4>4. (usb = <<>> => Len(usb) + 1 = 1) /\ (usb # <<>> => 1 \in 1..Len(usb))
        BY <4>3
      <4>5. Append(usb, p) = usb'
        BY <1>8
      <4> QED
        BY <4>2, <4>4, <4>5
    <3> QED
      BY <2>2, <3>1 DEF NextFid
  <2>6. Got' = Got
    BY <1>1, <2>5 DEF Got
  <2>7. Intact' => Intact
    BY <1>8 DEF Intact
  <2>8. Intact' => Tip' = Tip
    BY <1>5, <2>4, <2>6, <2>7 DEF Tip
  <2> QED
    BY <1>1, <1>2, <1>3, <1>5, <1>6, <1>8, <2>4, <2>6, <2>7, <2>8, StillOrdered
<1> QED
  BY <1>1, <1>7, <1>8

(* The host adds a complete block to what it has got: the result ends with a *)
(* full buffer or is a whole frame.                                          *)
LEMMA RunReceives ==
  ASSUME NEW L \in Seq(Nat), NEW g \in Words, g = <<>> \/ Begun(L, g),
         NEW b \in Words, Complete(L, b), After(L, g, b[1]),
         NEW c, Extended(g, b, c)
  PROVE  /\ c \in Words /\ c # <<>> /\ LastOf(c) = LastOf(b)
         /\ c[1] = IF g = <<>> THEN b[1] ELSE g[1]
         /\ Len(b) = BufWords => Begun(L, c)
         /\ Len(b) # BufWords => Whole(L, c)
<1>1. Block(L, b)
  BY DEF Complete
<1>2. Run(L, c) /\ LastOf(c) = LastOf(b) /\ c \in Words
  BY <1>1, RunJoins
<1>3. /\ Len(b) = BufWords => LastOf(b)[2] % BufWords = 0
      /\ Len(b) # BufWords => LastOf(b)[2] % BufWords # 0
      /\ LastOf(b)[1] = b[1][1]
  BY <1>1, BlockEnds
<1>4. Len(b) # BufWords => LastOf(b)[2] = L[LastOf(b)[1]]
  BY <1>3 DEF Complete
<1>5. c[1] = IF g = <<>> THEN b[1] ELSE g[1]
  <2>1. g \in Seq(Nat \X Nat) /\ b \in Seq(Nat \X Nat) /\ b # <<>>
    BY <1>1 DEF Words, Block
  <2> QED
    BY <2>1 DEF Extended
<1> QED
  BY <1>2, <1>3, <1>4, <1>5 DEF Begun, Whole, Run

(* The host reads a payload.                                                 *)
LEMMA HostReadsKeepsStream ==
  ASSUME GpifInv, LineInv, StreamInv, HostReads
  PROVE  LineInv' /\ StreamInv'
<1> DEFINE b == usb[1].words
           c == Got \o b
<1>1. /\ usb # <<>> /\ usb' = Tail(usb) /\ rxFid' = usb[1].fid
      /\ UNCHANGED <<fv, lv, low, lens, pos, gst, sck, count, fwTrg, intr, buf, full, turn, fid>>
      /\ IF usb[1].eof
         THEN /\ rx' = <<>> /\ frame' = IF damage = "none" THEN c ELSE <<>>
              /\ damage' = IF damage = "glued" THEN "none" ELSE damage
         ELSE rx' = c /\ frame' = frame /\ damage' = damage
  <2>1. usb # <<>> /\ Head(usb) = usb[1]
    BY DEF HostReads, GpifInv, Types
  <2>2. (IF usb[1].fid = rxFid THEN rx ELSE <<>>) = Got
    BY <2>1 DEF Got, NextFid
  <2> QED
    BY <2>1, <2>2 DEF HostReads, bridgeVars, gpifVars, isrVars, dmaVars
<1>2. LineInv'
  BY <1>1 DEF LineInv, BridgeInv, InStep, InFrame
<1>3. /\ lens \in Seq(Nat) /\ lens' \in Seq(Nat) /\ Grown(lens, lens')
      /\ usb \in Seq(Payload) /\ damage \in {"none", "glued", "lost"}
  BY <1>1 DEF GpifInv, Types, Grown
<1>4. 1 \in 1..Len(usb) /\ Len(usb) \in Nat
  BY <1>1, <1>3
<1>5. b \in Words /\ usb[1].eof \in BOOLEAN
  BY <1>3, <1>4, PayloadWords
<1>6. Got \in Words /\ <<>> \in Words
  <2>1. <<>> \in Words
    BY DEF Words
  <2> QED
    BY <2>1 DEF StreamInv, Got
<1>7. c \in Words /\ Extended(Got, b, c)
  <2> HIDE DEF b
  <2> QED
    BY <1>5, <1>6 DEF Words, Extended
<1> HIDE DEF b, c
<1>8. rx' \in Words /\ frame' \in Words
  <2>1. frame \in Words
    BY DEF StreamInv
  <2> QED
    BY <1>1, <1>5, <1>6, <1>7, <2>1
<1>9. NextToFill' = NextToFill
  BY <1>1 DEF NextToFill, CountHit
<1>10. Pending' = Pending
  BY <1>1, <1>9 DEF Pending
<1>11. CASE damage = "lost"
  <2>1. damage' = "lost" /\ (frame' = frame \/ frame' = <<>>)
    BY <1>1, <1>5, <1>11
  <2>2. WholeFrames'
    <3>1. frame' = frame => WholeFrames'
      BY <1>3, StillWhole
    <3>2. frame' = <<>> => WholeFrames'
      BY DEF WholeFrames
    <3> QED
      BY <2>1, <3>1, <3>2
  <2>3. OrderInv' /\ FrontInv' /\ TipInv' /\ LaterInv'
    BY <2>1 DEF OrderInv, FrontInv, TipInv, LaterInv, TipKnown, Intact
  <2> QED
    BY <1>2, <1>8, <2>2, <2>3 DEF StreamInv
<1>12. CASE damage # "lost"
  <2>1. Intact /\ damage' # "lost"
    BY <1>1, <1>5, <1>12 DEF Intact
  <2>2. Channel(usb, full, turn, NextToFill, Pending)
        /\ Chain(lens, usb, full, turn, NextToFill, Pending)
    BY <2>1, ChannelIs DEF StreamInv, OrderInv
  <2>3. Complete(lens, b) /\ (usb[1].eof <=> Len(b) # BufWords)
    BY <1>4, <2>2 DEF Chain, Committed, b
  <2>4. b # <<>> /\ Front = b /\ Fresh # <<>>
    <3>1. b # <<>> /\ Newest(usb, full, NextToFill) # <<>>
      BY <1>1, <1>3, <2>2, Ends DEF b
    <3> QED
      BY <1>1, <3>1 DEF Front, Oldest, Fresh, b
  <2>5. /\ Chain(lens, usb', full, turn, NextToFill, Pending)
        /\ Front' # <<>> => After(lens, b, Front'[1])
        /\ Fresh' # <<>> => Fresh' = Fresh
        /\ Fresh' = <<>> => Fresh = b
    <3>1. /\ Chain(lens, Tail(usb), full, turn, NextToFill, Pending)
          /\ Oldest(Tail(usb), full, turn, Pending) # <<>>
               => After(lens, b, Oldest(Tail(usb), full, turn, Pending)[1])
          /\ Newest(Tail(usb), full, NextToFill) # <<>>
               => Newest(Tail(usb), full, NextToFill) = Newest(usb, full, NextToFill)
          /\ Newest(Tail(usb), full, NextToFill) = <<>> => Newest(usb, full, NextToFill) = b
      BY <1>1, <1>3, <2>2, ChainReads DEF b
    <3>2. Front' = Oldest(Tail(usb), full, turn, Pending) /\ Fresh' = Newest(Tail(usb), full, NextToFill)
      BY <1>1, <1>9, <1>10 DEF Front, Fresh
    <3> QED
      BY <1>1, <3>1, <3>2 DEF Fresh
  <2>6. OrderInv'
    BY <1>1, <1>9, <1>10, <2>5 DEF OrderInv
  <2>7. Got' = IF usb[1].eof THEN <<>> ELSE c
    <3>1. CASE usb[1].eof
      BY <1>1, <3>1 DEF Got
    <3>2. CASE ~usb[1].eof
      <4>1. (IF 1 = Len(usb) THEN fid ELSE usb[2].fid) = usb[1].fid
        <5>1. \A k \in 1..Len(usb) :
                (IF k = Len(usb) THEN fid ELSE usb[k + 1].fid) =
                  (IF usb[k].eof THEN 1 - usb[k].fid ELSE usb[k].fid)
          BY <2>1 DEF GpifInv, FrameIdFlipsAtEnd
        <5>2. (IF 1 = Len(usb) THEN fid ELSE usb[1 + 1].fid) =
                (IF usb[1].eof THEN 1 - usb[1].fid ELSE usb[1].fid)
          BY <1>4, <5>1
        <5>3. 1 + 1 = 2
          OBVIOUS
        <5> QED
          BY <3>2, <5>2, <5>3
      <4>2. NextFid' = IF Tail(usb) = <<>> THEN fid ELSE Tail(usb)[1].fid
        BY <1>1 DEF NextFid
      <4>3. /\ Tail(usb) = <<>> => Len(usb) = 1
            /\ Tail(usb) # <<>> => Len(usb) # 1 /\ Tail(usb)[1] = usb[2]
        <5>1. /\ Tail(usb) \in Seq(Payload) /\ Len(Tail(usb)) = Len(usb) - 1
              /\ \A k \in 1..Len(Tail(usb)) : Tail(usb)[k] = usb[k + 1]
          BY <1>1, <1>3, Tailed
        <5>2. Len(Tail(usb)) \in Nat /\ (Tail(usb) = <<>> <=> Len(Tail(usb)) = 0)
          BY <5>1, EmptyOrNot
        <5> QED
          BY <1>4, <5>1, <5>2
      <4>4. NextFid' = rxFid'
        BY <1>1, <4>1, <4>2, <4>3
      <4> QED
        BY <1>1, <3>2, <4>4 DEF Got
    <3> QED
      BY <1>5, <3>1, <3>2
  <2>8. damage = "none" => /\ c # <<>> /\ LastOf(c) = LastOf(b)
                           /\ c[1] = IF Got = <<>> THEN b[1] ELSE Got[1]
                           /\ ~usb[1].eof => Begun(lens, c)
                           /\ usb[1].eof => Whole(lens, c)
    <3> SUFFICES ASSUME damage = "none"
                 PROVE  /\ c # <<>> /\ LastOf(c) = LastOf(b)
                        /\ c[1] = IF Got = <<>> THEN b[1] ELSE Got[1]
                        /\ ~usb[1].eof => Begun(lens, c)
                        /\ usb[1].eof => Whole(lens, c)
      OBVIOUS
    <3>1. (Got = <<>> \/ Begun(lens, Got)) /\ After(lens, Got, b[1])
      BY <2>4 DEF StreamInv, FrontInv
    <3>2. /\ c # <<>> /\ LastOf(c) = LastOf(b)
          /\ c[1] = IF Got = <<>> THEN b[1] ELSE Got[1]
          /\ Len(b) = BufWords => Begun(lens, c)
          /\ Len(b) # BufWords => Whole(lens, c)
      BY <1>3, <1>5, <1>6, <1>7, <2>3, <3>1, RunReceives
    <3> QED
      BY <1>5, <2>3, <3>2
  <2>9. /\ b[1][1] = LastOf(b)[1] /\ LastOf(b)[2] \in Nat
        /\ usb[1].eof => LastOf(b)[2] = lens[LastOf(b)[1]] /\ LastOf(b)[2] % BufWords # 0
    <3>1. Block(lens, b)
      BY <2>3 DEF Complete
    <3>2. b[1][1] = LastOf(b)[1] /\ LastOf(b)[2] \in 1..lens[b[1][1]] /\ lens[b[1][1]] \in Nat
          /\ (Len(b) # BufWords => LastOf(b)[2] % BufWords # 0)
      BY <1>3, <1>5, <3>1, BlockEnds
    <3> QED
      BY <2>3, <3>2 DEF Complete
  <2>10. WholeFrames'
    <3>1. CASE ~usb[1].eof
      BY <1>1, <1>3, <3>1, StillWhole
    <3>2. CASE usb[1].eof
      <4> SUFFICES ASSUME frame' # <<>> PROVE IsWhole(frame)'
        BY DEF WholeFrames
      <4>1. damage = "none" /\ frame' = c /\ Whole(lens', frame')
        BY <1>1, <2>8, <3>2
      <4> QED
        BY <1>3, <1>8, <4>1, WholeIsLater
    <3> QED
      BY <1>5, <3>1, <3>2
  <2>11. FrontInv'
    <3> SUFFICES ASSUME damage' = "none"
                 PROVE  /\ Got' = <<>> \/ Begun(lens', Got')
                        /\ Front' # <<>> => After(lens', Got', Front'[1])
      BY DEF FrontInv
    <3>1. CASE ~usb[1].eof
      <4>1. damage = "none" /\ Got' = c
        BY <1>1, <2>7, <3>1
      <4>2. Begun(lens, c) /\ c # <<>> /\ LastOf(c) = LastOf(b)
        BY <2>8, <3>1, <4>1
      <4>3. Front' # <<>> => After(lens, c, Front'[1])
        BY <2>4, <2>5, <4>2 DEF After
      <4> QED
        BY <1>1, <4>1, <4>2, <4>3
    <3>2. CASE usb[1].eof
      <4>1. Got' = <<>>
        BY <2>7, <3>2
      <4>2. Front' # <<>> => Ahead(lens, LastOf(b), Front'[1])
        BY <2>4, <2>5 DEF After
      <4>3. ~(LastOf(b)[2] < lens[LastOf(b)[1]])
        BY <2>9, <3>2
      <4> QED
        BY <4>1, <4>2, <4>3 DEF After, Ahead
    <3> QED
      BY <1>5, <3>1, <3>2
  <2>12. TipKnown /\ Tip # <<>> /\ Placed(lens, gst, fv, pos, LastOf(Tip))
         /\ Tip = IF Pending # <<>> THEN Pending ELSE Fresh
    <3>1. TipKnown /\ Tip # <<>> /\ Tip = IF Pending # <<>> THEN Pending ELSE Fresh
      BY <2>1, <2>4 DEF Tip, TipKnown
    <3> QED
      BY <3>1 DEF StreamInv, TipInv
  <2>13. TipInv'
    <3> SUFFICES ASSUME TipKnown'
                 PROVE  IF Tip' # <<>> THEN Placed(lens', gst', fv', pos', LastOf(Tip')) ELSE gst' \notin Data
      BY DEF TipInv
    <3>1. CASE Pending' # <<>> \/ Fresh' # <<>>
      <4>1. Tip' = Tip
        BY <1>10, <2>5, <2>12, <3>1 DEF Tip
      <4> QED
        BY <1>1, <2>12, <4>1
    <3>2. CASE Pending' = <<>> /\ Fresh' = <<>>
      <4>1. Tip' = Got' /\ Tip = b /\ damage' = "none" /\ Pending = <<>>
        BY <1>10, <2>5, <2>12, <3>2 DEF Tip, TipKnown
      <4>2. CASE ~usb[1].eof
        <5>1. Tip' = c /\ c # <<>> /\ LastOf(c) = LastOf(b)
          BY <1>1, <2>7, <2>8, <4>1, <4>2
        <5> QED
          BY <1>1, <2>12, <4>1, <5>1
      <4>3. CASE usb[1].eof
        <5>1. Tip' = <<>>
          BY <2>7, <4>1, <4>3
        <5>2. gst \notin Data
          <6> SUFFICES ASSUME gst \in Data PROVE FALSE
            OBVIOUS
          <6>1. LastOf(b)[2] = pos
            BY <2>12, <4>1 DEF Placed
          <6>2. count[sck] = BufWords
            BY <2>1, <4>1, ChannelIs DEF CountHit
          <6> DEFINE m == pos - BufWords
          <6>3. pos \in Nat /\ BufWords \in Nat /\ BufWords <= pos /\ m % BufWords = 0
            BY <6>2, GpifStreamAssumption DEF LineInv, InStep, GpifInv, Types
          <6>4. m \in Nat /\ pos = m + BufWords
            BY <6>3
          <6> HIDE DEF m
          <6>5. pos % BufWords = 0
            BY <6>3, <6>4, Multiples
          <6> QED
            BY <2>9, <4>3, <6>1, <6>5
        <5> QED
          BY <1>1, <5>1, <5>2
      <4> QED
        BY <1>5, <4>2, <4>3
    <3> QED
      BY <3>1, <3>2
  <2>14. LaterInv'
    <3> SUFFICES ASSUME damage' = "none", frame' # <<>>
                 PROVE  /\ Got' # <<>> => Later(frame', Got')
                        /\ Got' = <<>> /\ Front' # <<>> => Later(frame', Front')
                        /\ Tip' = <<>> => Placed(lens', gst', fv', pos', LastOf(frame'))
      BY DEF LaterInv
    <3>1. damage = "none" /\ c # <<>> /\ LastOf(c) = LastOf(b)
          /\ c[1] = IF Got = <<>> THEN b[1] ELSE Got[1]
      BY <1>1, <2>8
    <3>2. CASE ~usb[1].eof
      <4>1. Got' = c /\ frame' = frame
        BY <1>1, <2>7, <3>2
      <4>2. Later(frame, c)
        BY <2>4, <3>1, <4>1 DEF StreamInv, LaterInv, Later
      <4>3. Tip' # <<>>
        BY <3>1, <4>1 DEF Tip
      <4> QED
        BY <3>1, <4>1, <4>2, <4>3
    <3>3. CASE usb[1].eof
      <4>1. Got' = <<>> /\ frame' = c
        BY <1>1, <2>7, <3>1, <3>3
      <4>2. Front' # <<>> => Later(c, Front')
        <5>1. Front' # <<>> => Ahead(lens, LastOf(b), Front'[1])
          BY <2>4, <2>5 DEF After
        <5> QED
          BY <2>9, <3>1, <3>3, <5>1 DEF Ahead, Later
      <4>3. Tip' = <<>> => Tip = b
        BY <1>10, <2>5, <2>12, <4>1 DEF Tip
      <4> QED
        BY <1>1, <2>12, <3>1, <4>1, <4>2, <4>3
    <3> QED
      BY <1>5, <3>2, <3>3
  <2> QED
    BY <1>2, <1>8, <2>6, <2>10, <2>11, <2>13, <2>14 DEF StreamInv
<1> QED
  BY <1>11, <1>12

(* A restart: the buffers are gone, and what the host holds is kept from the *)
(* next frame by its frame ID or by the excuse.                              *)
LEMMA RestartKeepsStream ==
  ASSUME GpifInv, LineInv, StreamInv, Restart
  PROVE  LineInv' /\ StreamInv'
<1>1. /\ gst' = "START" /\ sck' = 0 /\ turn' = 0 /\ fid' = 0 /\ usb' = <<>> /\ frame' = <<>>
      /\ buf' = [s \in Sockets |-> <<>>] /\ full' = [s \in Sockets |-> <<>>]
      /\ damage' = IF rx # <<>> /\ rxFid = 0 THEN "glued" ELSE "none"
      /\ UNCHANGED <<fv, lv, low, lens, pos, count, fwTrg, intr, rx, rxFid>>
  BY DEF Restart, FirstState, bridgeVars, isrVars
<1>2. LineInv'
  BY <1>1 DEF LineInv, BridgeInv, InStep, InFrame, Data
<1>3. rx' \in Words /\ frame' \in Words
  <2>1. <<>> \in Words
    BY DEF Words
  <2> QED
    BY <1>1, <2>1 DEF StreamInv
<1>4. NextToFill' = 0
  BY <1>1 DEF NextToFill, InData
<1>5. /\ 0 \in Sockets /\ Other(0) \in Sockets /\ \A s \in Sockets : full'[s] = <<>> /\ buf'[s] = <<>>
      /\ \A s \in Sockets : Len(full'[s]) = 0
  BY <1>1, TwoSockets
<1>6. Pending' = <<>> /\ Fresh' = <<>> /\ Front' = <<>>
  <2>1. Pending' = <<>>
    BY <1>4, <1>5 DEF Pending
  <2> QED
    BY <1>1, <1>4, <1>5, <2>1 DEF Fresh, Newest, Front, Oldest
<1>7. damage' = "none" => Got' = <<>>
  BY <1>1 DEF Got, NextFid
<1>8. OrderInv'
  <2>1. Committed(lens', usb')
    BY <1>1 DEF Committed
  <2>2. Filled(lens', full', turn')
    BY <1>1, <1>5 DEF Filled
  <2> QED
    BY <1>1, <1>5, <1>6, <2>1, <2>2 DEF OrderInv, Chain
<1>9. FrontInv' /\ TipInv' /\ LaterInv' /\ WholeFrames'
  <2>1. FrontInv'
    BY <1>6, <1>7 DEF FrontInv
  <2>2. TipInv'
    <3>1. TipKnown' => damage' = "none"
      BY <1>6 DEF TipKnown
    <3>2. TipKnown' => Tip' = <<>>
      BY <1>6, <1>7, <3>1 DEF Tip
    <3> QED
      BY <1>1, <3>2 DEF TipInv, Data
  <2> QED
    BY <1>1, <2>1, <2>2 DEF WholeFrames, LaterInv
<1> QED
  BY <1>2, <1>3, <1>8, <1>9 DEF StreamInv

-----------------------------------------------------------------------------
(* The second inductive invariant: the path from the bridge to the host      *)
(* carries complete blocks of words in order.                                *)
THEOREM StreamInvariance == Spec => [](GpifInv /\ LineInv /\ StreamInv)
<1>1. Init => LineInv /\ StreamInv
  <2> SUFFICES ASSUME Init PROVE LineInv /\ StreamInv
    OBVIOUS
  <2>1. /\ fv = FALSE /\ lv = FALSE /\ low = 3 /\ lens = <<>> /\ pos = 0 /\ gst = "START"
        /\ sck = 0 /\ turn = 0 /\ usb = <<>> /\ rx = <<>> /\ frame = <<>>
        /\ buf = [s \in Sockets |-> <<>>] /\ full = [s \in Sockets |-> <<>>]
    BY DEF Init, FrameGap
  <2>2. LineInv
    BY <2>1 DEF LineInv, BridgeInv, InStep, InFrame, Data
  <2>3. /\ 0 \in Sockets /\ Other(0) \in Sockets /\ \A s \in Sockets : full[s] = <<>> /\ buf[s] = <<>>
        /\ \A s \in Sockets : Len(full[s]) = 0
    BY <2>1, TwoSockets
  <2>4. NextToFill = 0
    BY <2>1 DEF NextToFill, InData
  <2>5. Pending = <<>>
    BY <2>3, <2>4 DEF Pending
  <2>6. Fresh = <<>> /\ Front = <<>> /\ Got = <<>>
    BY <2>1, <2>3, <2>4, <2>5 DEF Fresh, Newest, Front, Oldest, Got
  <2>7. Tip = <<>>
    BY <2>5, <2>6 DEF Tip
  <2>8. OrderInv
    <3>1. Committed(lens, usb)
      BY <2>1 DEF Committed
    <3>2. Filled(lens, full, turn)
      BY <2>1, <2>3 DEF Filled
    <3> QED
      BY <2>1, <2>3, <2>5, <3>1, <3>2 DEF OrderInv, Chain
  <2>9. FrontInv /\ TipInv /\ LaterInv /\ WholeFrames
    BY <2>1, <2>6, <2>7 DEF FrontInv, TipInv, LaterInv, WholeFrames, Data
  <2>10. rx \in Words /\ frame \in Words
    BY <2>1 DEF Words
  <2> QED
    BY <2>2, <2>8, <2>9, <2>10 DEF StreamInv
<1>2. GpifInv /\ LineInv /\ StreamInv /\ [Next]_vars => LineInv' /\ StreamInv'
  <2>1. ASSUME GpifInv, LineInv, StreamInv, UNCHANGED vars PROVE LineInv' /\ StreamInv'
    <3>1. UNCHANGED <<fv, lv, low, lens, pos, gst, sck, count, fwTrg, intr, buf, full, turn, fid,
                      usb, rx, rxFid, frame, damage>>
      BY <2>1 DEF vars, bridgeVars, gpifVars, isrVars, dmaVars, hostVars
    <3>2. LineInv'
      BY <2>1, <3>1 DEF LineInv, BridgeInv, InStep, InFrame
    <3>3. lens' \in Seq(Nat) /\ Grown(lens, lens')
      BY <2>1, <3>1 DEF GpifInv, Types, Grown
    <3>4. NextToFill' = NextToFill
      BY <3>1 DEF NextToFill, CountHit
    <3>5. Pending' = Pending /\ Fresh' = Fresh /\ Got' = Got
      BY <3>1, <3>4 DEF Pending, Fresh, Got, NextFid
    <3>6. Front' = Front /\ Tip' = Tip
      BY <3>1, <3>5 DEF Front, Tip
    <3>7. Chain(lens', usb, full, turn, NextToFill, Pending)
            => Chain(lens', usb', full', turn', NextToFill', Pending')
      BY <3>1, <3>4, <3>5
    <3>8. \A v \in Nat \X Nat : Placed(lens, gst, fv, pos, v) => Placed(lens', gst', fv', pos', v)
      BY <3>1
    <3> QED
      BY <2>1, <3>1, <3>2, <3>3, <3>5, <3>6, <3>7, <3>8, StillOrdered
  <2> QED
    BY <2>1, ClockKeepsStream, HandlerKeepsStream, TriggerOffKeepsStream, CommitKeepsStream,
       HostReadsKeepsStream, RestartKeepsStream DEF Next
<1> QED
  BY <1>1, <1>2, Invariance, PTL DEF Spec

(* However late the interrupt (CyFxGpifCB), the commit (CyFxUvcApplnDma-     *)
(* Callback) or the host is, every frame the UVC headers mark as complete is *)
(* whole.                                                                    *)
THEOREM FramesWhole == Spec => []WholeFrames
<1>1. StreamInv => WholeFrames
  BY DEF StreamInv
<1> QED
  BY <1>1, StreamInvariance, PTL

(* A frame the host completes (CyFxUVCAddHeader's end-of-frame bit) was sent *)
(* after the one it completed before, with no restart or loss between them.  *)
THEOREM OneAfterAnother == Spec => FramesInOrder
<1> DEFINE A == frame # <<>> /\ frame' # <<>> /\ frame' # frame
                  => frame[Len(frame)][1] < frame'[1][1]
<1>1. ASSUME GpifInv, LineInv, StreamInv, HostReads PROVE A
  <2> SUFFICES ASSUME frame # <<>>, frame' # <<>>, frame' # frame
               PROVE  LastOf(frame)[1] < frame'[1][1]
    BY DEF LastOf
  <2> DEFINE b == usb[1].words
             c == Got \o b
  <2>1. damage = "none" /\ frame' = c /\ usb # <<>>
    <3>1. usb # <<>> /\ Head(usb) = usb[1]
      BY <1>1 DEF HostReads, GpifInv, Types
    <3>2. (IF usb[1].fid = rxFid THEN rx ELSE <<>>) = Got
      BY <3>1 DEF Got, NextFid
    <3> QED
      BY <1>1, <3>1, <3>2 DEF HostReads
  <2>2. Got \in Words /\ b \in Seq(Nat \X Nat) /\ b # <<>> /\ Front = b
    <3>1. Channel(usb, full, turn, NextToFill, Pending)
          /\ Chain(lens, usb, full, turn, NextToFill, Pending) /\ Intact /\ lens \in Seq(Nat)
      BY <1>1, <2>1, ChannelIs DEF StreamInv, OrderInv, GpifInv, Types, Intact
    <3>2. b # <<>>
      BY <2>1, <3>1, Ends
    <3>3. Front = b
      BY <2>1 DEF Front, Oldest
    <3>4. Got \in Words /\ Front \in Words
      BY <1>1, <3>1, TipIsWords
    <3> QED
      BY <3>2, <3>3, <3>4 DEF Words
  <2>3. /\ Got # <<>> => Later(frame, Got)
        /\ Got = <<>> => Later(frame, b)
    BY <1>1, <2>1, <2>2 DEF StreamInv, LaterInv
  <2> HIDE DEF b
  <2>4. c[1] = IF Got = <<>> THEN b[1] ELSE Got[1]
    BY <2>2 DEF Words
  <2> QED
    BY <2>1, <2>3, <2>4 DEF Later
<1>2. ASSUME GpifInv, LineInv, StreamInv, [Next]_vars PROVE [A]_vars
  <2>1. Clock \/ FrameEndInterrupt \/ TriggerOff \/ Commit => frame' = frame
    BY DEF Clock, FrameEndInterrupt, TriggerOff, Commit, hostVars
  <2>2. Restart => frame' = <<>>
    BY DEF Restart
  <2> QED
    BY <1>1, <1>2, <2>1, <2>2 DEF Next
<1> QED
  BY <1>2, StreamInvariance, PTL DEF Spec, FramesInOrder
=============================================================================
