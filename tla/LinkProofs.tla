----------------------------- MODULE LinkProofs -----------------------------
(***************************************************************************)
(* The way of a command, proved for every set of commands, every length of *)
(* the queue and every size of the parser's buffer from 12 to 132 bytes.   *)
(*                                                                         *)
(* First the ring: SendRing implements SendFifo.  TypeOK, which includes   *)
(* "the slots that count hold requests", is inductive; the refinement then *)
(* follows from how an enqueue or a poll changes the sequence Waiting.     *)
(*                                                                         *)
(* Then the line.  Every byte ever put on it is given a mark: of which     *)
(* command it is a byte, which one, and how much of the command was sent   *)
(* (Marked).  From the tables of units and codes follows what the bytes of *)
(* a command can be (Command): 7E only at its head, a stop only at its     *)
(* end.  So whatever the parser takes for a command is one that was sent   *)
(* whole (FoundWasSent), and on a line without a cut the parser always     *)
(* stands at the beginning of a command (ShortWaits, WholeIsFound).  The   *)
(* inductive invariant InOrder says that the parser's buffer and the bytes *)
(* on their way are a stretch of the marked line, and that what is owed is *)
(* what they and only they still hold.                                     *)
(*                                                                         *)
(* What cuts cost is a matter of counting.  A command begun counts eight   *)
(* bytes, a piece that was cut off one buffer, and Budget says that what   *)
(* is missing and what was dealt with is covered by the two.  The parser   *)
(* drops half a buffer only while the buffer begins in a cut piece (Still) *)
(* and skips only what that piece made it take for a frame.                *)
(*                                                                         *)
(* The parser is written with functions defined by recursion; that they    *)
(* exist, and what they compute, is proved by induction as a fact about a  *)
(* set of numbers (SetInduction), for each of them.                        *)
(***************************************************************************)
EXTENDS Link, SequenceTheorems, WellFoundedInduction, TLAPS

(* The arithmetic of the ring: for indices below two turns, Wrap is a single *)
(* conditional subtraction.                                                  *)
LEMMA WrapOneTurn ==
  ASSUME NEW i \in Nat, i < 2 * QUEUE_CAP
  PROVE  /\ Wrap(i) \in Slots
         /\ Wrap(i) = IF i < QUEUE_CAP THEN i ELSE i - QUEUE_CAP
  BY RingAssumption DEF Wrap, Slots

(* Two waiting positions never share a slot, and the tail slot is none of    *)
(* theirs.                                                                   *)
LEMMA PositionsApart ==
  ASSUME NEW h \in Slots, NEW i \in 0..QUEUE_CAP - 1, NEW j \in 0..QUEUE_CAP - 1,
         i # j
  PROVE  Wrap(h + i) # Wrap(h + j)
<1>1. h \in Nat /\ h < QUEUE_CAP
  BY RingAssumption DEF Slots
<1>2. h + i \in Nat /\ h + i < 2 * QUEUE_CAP /\ h + j \in Nat /\ h + j < 2 * QUEUE_CAP
  BY <1>1, RingAssumption
<1>3. QED
  BY <1>1, <1>2, WrapOneTurn, RingAssumption

(* Moving the head by one shifts every position by one.                      *)
LEMMA HeadShift ==
  ASSUME NEW h \in Slots, NEW i \in 0..QUEUE_CAP - 1
  PROVE  Wrap(Wrap(h + 1) + i) = Wrap(h + (i + 1))
<1> DEFINE W(k) == IF k < QUEUE_CAP THEN k ELSE k - QUEUE_CAP
<1>1. \A k \in Nat : k < 2 * QUEUE_CAP => Wrap(k) = W(k)
  BY WrapOneTurn
<1>2. h \in Nat /\ h < QUEUE_CAP /\ i \in Nat
  BY RingAssumption DEF Slots
<1>3. Wrap(h + 1) \in Slots /\ Wrap(h + 1) = IF h + 1 < QUEUE_CAP THEN h + 1 ELSE h + 1 - QUEUE_CAP
  BY <1>2, WrapOneTurn, RingAssumption
<1>4. Wrap(h + 1) + i \in Nat /\ Wrap(h + 1) + i < 2 * QUEUE_CAP
  BY <1>2, <1>3, RingAssumption DEF Slots
<1>5. h + (i + 1) \in Nat /\ h + (i + 1) < 2 * QUEUE_CAP
  BY <1>2, RingAssumption
<1>6. Wrap(Wrap(h + 1) + i) = W(Wrap(h + 1) + i)
  BY <1>1, <1>4
<1>7. Wrap(h + (i + 1)) = W(h + (i + 1))
  BY <1>1, <1>5
<1>8. QED
  BY <1>2, <1>3, <1>6, <1>7, RingAssumption

-----------------------------------------------------------------------------
(* What one enqueue() does to the line: the request is appended. *)
LEMMA EnqueueAppends ==
  ASSUME TypeOK, NEW q \in Requests, Enqueue(q)
  PROVE  /\ TypeOK'
         /\ Len(Waiting') = Len(Waiting) + 1
         /\ Waiting' \in Seq(Requests)
         /\ Waiting \in Seq(Requests)
         /\ \A i \in 1..g_queue_len : Waiting'[i] = Waiting[i]
<1> USE RingAssumption
<1> DEFINE n == g_queue_len  h == g_queue_head
<1>1. n \in 0..QUEUE_CAP - 1 /\ h \in Slots /\ h \in Nat /\ n \in Nat
  BY DEF TypeOK, Enqueue, HasRoom, Slots
<1>2. TailSlot \in Slots
  <2>1. h + n \in Nat /\ h + n < 2 * QUEUE_CAP
    BY <1>1 DEF Slots
  <2>2. QED
    BY <2>1, WrapOneTurn DEF TailSlot
<1>3. /\ g_queue' \in [Slots -> Requests \cup {NoRequest}]
      /\ g_queue'[TailSlot] = q
      /\ \A s \in Slots : s # TailSlot => g_queue'[s] = g_queue[s]
  BY <1>2 DEF TypeOK, Enqueue
<1>4. n' = n + 1 /\ h' = h /\ g_inflight' = g_inflight
  BY DEF Enqueue
<1>5. ASSUME NEW i \in 1..n
      PROVE  Waiting'[i] = Waiting[i] /\ Waiting'[i] \in Requests
  <2>1. i - 1 \in 0..QUEUE_CAP - 1 /\ i - 1 # n /\ i \in 1..n + 1
    BY <1>1
  <2>2. Wrap(h + (i - 1)) # Wrap(h + n)
    BY <2>1, <1>1, PositionsApart
  <2>3. Wrap(h + (i - 1)) \in Slots
    <3>1. h + (i - 1) \in Nat /\ h + (i - 1) < 2 * QUEUE_CAP
      BY <2>1, <1>1 DEF Slots
    <3>2. QED
      BY <3>1, WrapOneTurn
  <2>4. h + (i - 1) = h + i - 1
    BY <1>1
  <2>5. g_queue'[Wrap(h + i - 1)] = g_queue[Wrap(h + i - 1)]
    BY <2>2, <2>3, <2>4, <1>3 DEF TailSlot
  <2>6. Waiting[i] = g_queue[Wrap(h + i - 1)]
    BY DEF Waiting
  <2>7. Waiting'[i] = g_queue'[Wrap(h + i - 1)]
    BY <1>4, <2>1 DEF Waiting
  <2>8. Waiting[i] \in Requests
    BY DEF TypeOK
  <2>9. QED
    BY <2>5, <2>6, <2>7, <2>8
<1>6. Waiting'[n + 1] = q
  <2>1. n + 1 \in 1..n + 1 /\ h + (n + 1) - 1 = h + n
    BY <1>1
  <2>2. Waiting'[n + 1] = g_queue'[Wrap(h + (n + 1) - 1)]
    BY <1>4, <2>1 DEF Waiting
  <2>3. QED
    BY <2>1, <2>2, <1>3 DEF TailSlot
<1>7. \A i \in 1..n + 1 : Waiting'[i] \in Requests
  BY <1>1, <1>5, <1>6
<1>8. TypeOK'
  BY <1>1, <1>3, <1>4, <1>7 DEF TypeOK, Slots
<1>9. Waiting' \in Seq(Requests) /\ Len(Waiting') = n + 1
  <2>1. Waiting' = [i \in 1..n + 1 |-> Waiting'[i]]
    BY <1>4 DEF Waiting
  <2>2. QED
    BY <2>1, <1>1, <1>7
<1>10. Waiting \in Seq(Requests) /\ Len(Waiting) = n
  <2>1. Waiting = [i \in 1..n |-> Waiting[i]] /\ \A i \in 1..n : Waiting[i] \in Requests
    BY DEF Waiting, TypeOK
  <2>2. QED
    BY <2>1, <1>1
<1>11. QED
  BY <1>5, <1>8, <1>9, <1>10

(* What the sending poll does to the line: the oldest request leaves it.     *)
LEMMA PollSendTakesHead ==
  ASSUME TypeOK, PollSend
  PROVE  /\ TypeOK'
         /\ Waiting \in Seq(Requests) /\ Waiting # <<>>
         /\ g_inflight' = Head(Waiting)
         /\ Waiting' = Tail(Waiting)
<1> USE RingAssumption
<1> DEFINE n == g_queue_len  h == g_queue_head
<1>1. n \in 1..QUEUE_CAP /\ h \in Slots /\ h \in Nat /\ h < QUEUE_CAP
  BY DEF TypeOK, PollSend, Slots
<1>2. n' = n - 1 /\ h' = Wrap(h + 1) /\ g_queue' = g_queue /\ g_inflight' = g_queue[h]
  BY DEF PollSend, NextHead
<1>3. Waiting \in Seq(Requests) /\ Len(Waiting) = n
  <2>1. Waiting = [i \in 1..n |-> Waiting[i]] /\ \A i \in 1..n : Waiting[i] \in Requests
    BY DEF Waiting, TypeOK
  <2>2. QED
    BY <2>1, <1>1
<1>4. g_inflight' = Head(Waiting)
  <2>1. Wrap(h + 1 - 1) = h
    BY <1>1, WrapOneTurn
  <2>2. Waiting[1] = g_queue[Wrap(h + 1 - 1)]
    BY <1>1 DEF Waiting
  <2>3. QED
    BY <2>1, <2>2, <1>1, <1>2, <1>3
<1>5. ASSUME NEW i \in 1..n - 1
      PROVE  Waiting'[i] = Waiting[i + 1]
  <2>1. i - 1 \in 0..QUEUE_CAP - 1 /\ i + 1 \in 1..n
    BY <1>1
  <2>2. Wrap(Wrap(h + 1) + (i - 1)) = Wrap(h + ((i - 1) + 1))
    BY <2>1, <1>1, HeadShift
  <2>3. h + (i + 1) - 1 = h + ((i - 1) + 1)
    BY <1>1
  <2>4. Wrap(h + 1) \in Slots
    BY <1>1, WrapOneTurn
  <2>5. Wrap(h + 1) + i - 1 = Wrap(h + 1) + (i - 1)
    BY <2>4 DEF Slots
  <2>6. Waiting'[i] = g_queue[Wrap(Wrap(h + 1) + i - 1)]
    BY <1>2 DEF Waiting
  <2>7. Waiting[i + 1] = g_queue[Wrap(h + (i + 1) - 1)]
    BY <2>1 DEF Waiting
  <2>8. QED
    BY <2>2, <2>3, <2>5, <2>6, <2>7
<1>6. Waiting' = Tail(Waiting)
  <2>1. Waiting' = [i \in 1..n - 1 |-> Waiting'[i]]
    BY <1>2 DEF Waiting
  <2>2. \A i \in 1..n - 1 : Waiting'[i] \in Requests
    BY <1>1, <1>5 DEF TypeOK
  <2>3. Waiting' \in Seq(Requests) /\ Len(Waiting') = n - 1
    BY <2>1, <2>2, <1>1
  <2>4. /\ Tail(Waiting) \in Seq(Requests)
        /\ Len(Tail(Waiting)) = n - 1
        /\ \A i \in 1..n - 1 : Tail(Waiting)[i] = Waiting[i + 1]
    BY <1>1, <1>3, HeadTailProperties
  <2>5. QED
    BY <2>3, <2>4, <1>5, SeqEqual
<1>7. TypeOK'
  <2>1. h' \in Slots
    BY <1>1, <1>2, WrapOneTurn
  <2>2. n' \in 0..QUEUE_CAP
    BY <1>1, <1>2
  <2>3. g_inflight' \in Requests
    BY <1>1, <1>3, <1>4
  <2>4. ASSUME NEW i \in 1..n'
        PROVE  Waiting'[i] \in Requests
    <3>1. i \in 1..n - 1 /\ i + 1 \in 1..n
      BY <1>1, <1>2
    <3>2. QED
      BY <3>1, <1>5 DEF TypeOK
  <2>5. QED
    BY <1>2, <2>1, <2>2, <2>3, <2>4 DEF TypeOK
<1>8. QED
  BY <1>1, <1>2, <1>3, <1>4, <1>6, <1>7

(* Settling touches neither slots nor indices. *)
LEMMA PollSettleKeepsLine ==
  ASSUME TypeOK, PollSettle
  PROVE  TypeOK' /\ Waiting' = Waiting
  BY DEF TypeOK, PollSettle, Waiting

(* Nor does a step of something else. *)
LEMMA StutterKeepsLine ==
  ASSUME TypeOK, UNCHANGED ringVars
  PROVE  TypeOK' /\ Waiting' = Waiting
  BY DEF TypeOK, ringVars, Waiting

(* At first nothing waits. *)
LEMMA InitialLine ==
  ASSUME Init
  PROVE  TypeOK /\ Waiting = <<>>
  BY RingAssumption DEF Init, TypeOK, Waiting, Slots

-----------------------------------------------------------------------------
(* The head and length indices of channels.c never leave the array and the   *)
(* slots they delimit always hold requests, for every queue capacity.        *)
THEOREM RingTypeCorrect == Spec => []TypeOK
<1>1. Init => TypeOK
  BY InitialLine
<1>2. TypeOK /\ [Next]_ringVars => TypeOK'
  <2> SUFFICES ASSUME TypeOK, [Next]_ringVars
               PROVE  TypeOK'
    OBVIOUS
  <2>1. ASSUME NEW q \in Requests, Enqueue(q)
        PROVE  TypeOK'
    BY <2>1, EnqueueAppends
  <2>2. CASE PollSend
    BY <2>2, PollSendTakesHead
  <2>3. CASE PollSettle
    BY <2>3, PollSettleKeepsLine
  <2>4. CASE UNCHANGED ringVars
    BY <2>4, StutterKeepsLine
  <2>5. QED
    BY <2>1, <2>2, <2>3, <2>4 DEF Next
<1>3. QED
  BY <1>1, <1>2, PTL DEF Spec

(* The array with its two indices is a first-in first-out line of bounded    *)
(* length: the queue of channels.c implements SendFifo.                      *)
THEOREM RingImplementsFifo == Spec => RingIsFifo
<1>1. Init => Fifo!Init
  BY InitialLine DEF Init, Fifo!Init
<1>2. TypeOK /\ [Next]_ringVars => [Fifo!Next]_(Fifo!fifoVars)
  <2> SUFFICES ASSUME TypeOK, [Next]_ringVars
               PROVE  [Fifo!Next]_(Fifo!fifoVars)
    OBVIOUS
  <2>1. ASSUME NEW q \in Requests, Enqueue(q)
        PROVE  Fifo!Accept
    <3>1. g_queue_len' \in 0..QUEUE_CAP /\ g_inflight' = g_inflight
      BY <2>1, EnqueueAppends DEF TypeOK, Enqueue
    <3>2. Len(Waiting) = g_queue_len /\ Len(Waiting') = g_queue_len'
      <4>1. g_queue_len \in Nat /\ g_queue_len' \in Nat
        BY <2>1, <3>1, RingAssumption DEF TypeOK
      <4>2. QED
        BY <4>1 DEF Waiting
    <3>3. QED
      BY <2>1, <3>1, <3>2, EnqueueAppends, RingAssumption DEF Fifo!Accept, TypeOK
  <2>2. CASE PollSend
    BY <2>2, PollSendTakesHead DEF PollSend, Fifo!Send, Fifo!Next
  <2>3. CASE PollSettle
    BY <2>3, PollSettleKeepsLine DEF PollSettle, Fifo!Settle, Fifo!Next
  <2>4. CASE UNCHANGED ringVars
    BY <2>4, StutterKeepsLine DEF ringVars, Fifo!fifoVars
  <2>5. QED
    BY <2>1, <2>2, <2>3, <2>4 DEF Next, Fifo!Next
<1>3. QED
  BY <1>1, <1>2, RingTypeCorrect, PTL DEF Spec, RingIsFifo, Fifo!Spec

-----------------------------------------------------------------------------
(* What the proofs need to know of the table of units. *)
LEMMA UnitTable ==
  ASSUME NEW u, u \in 1 .. 16
  PROVE  /\ UnitFreq[u] \in FREQ_MHZ
         /\ UnitFreq[u] \div 256 \in 2 .. 22
         /\ UnitFreq[u] % 256 \in 3 .. 255 \ {13, 126}
         /\ UnitBandwidth[u] \in {50, 100, 150, 200, 250}
<1>1. /\ UnitFreq[u] \in {753, 859, 920, 1470, 1795, 2045, 2325, 2375, 2450, 3375,
                          3550, 3725, 5250, 5450, 5650, 5875}
      /\ UnitBandwidth[u] \in {50, 100, 150, 200, 250}
  BY DEF UnitFreq, UnitBandwidth
<1>. QED
  BY <1>1, SMTT(30) DEF FREQ_MHZ

(* Every bandwidth the units use has a code, which stands for it. *)
LEMMA BandwidthCodes ==
  ASSUME NEW v, v \in {50, 100, 150, 200, 250}
  PROVE  /\ CodeIn(BANDWIDTH_MHZ, v) \in 2 .. 6
         /\ ValueIn(BANDWIDTH_MHZ, CodeIn(BANDWIDTH_MHZ, v)) = v
<1> DEFINE T == BANDWIDTH_MHZ
<1>1. DOMAIN T = 1 .. 8 /\ T[1] = 10 /\ T[2] = 20 /\ T[3] = 50 /\ T[4] = 100
        /\ T[5] = 150 /\ T[6] = 200 /\ T[7] = 250 /\ T[8] = 300
  BY DEF BANDWIDTH_MHZ
<1>2. \E i \in DOMAIN T : T[i] = v
  BY <1>1
<1>3. PICK i \in DOMAIN T : T[i] = v /\ CodeIn(T, v) = i - 1
  BY <1>2 DEF CodeIn
<1>4. i \in 3 .. 7
  BY <1>1, <1>3
<1>5. CodeIn(T, v) + 1 = i
  BY <1>3, <1>4
<1>. QED
  BY <1>1, <1>3, <1>4, <1>5 DEF ValueIn

(* Every power has a code, which stands for it. *)
LEMMA PowerCodes ==
  ASSUME NEW v, v \in {POWER_DB[i] : i \in DOMAIN POWER_DB}
  PROVE  /\ CodeIn(POWER_DB, v) \in 0 .. 2
         /\ ValueIn(POWER_DB, CodeIn(POWER_DB, v)) = v
<1> DEFINE T == POWER_DB
<1>1. DOMAIN T = 1 .. 3
  BY DEF POWER_DB
<1>2. PICK i \in DOMAIN T : T[i] = v /\ CodeIn(T, v) = i - 1
  BY DEF CodeIn
<1>3. CodeIn(T, v) + 1 = i
  BY <1>1, <1>2
<1>. QED
  BY <1>1, <1>2, <1>3 DEF ValueIn

(* The bytes around a payload. *)
Framed(bytes, type, unit, payload) ==
  /\ bytes \in Seq(Int)
  /\ Len(bytes) = 7 + Len(payload)
  /\ bytes[1] = 126 /\ bytes[2] = 126 /\ bytes[3] = type /\ bytes[4] = unit
  /\ bytes[5] = Len(payload)
  /\ \A i \in 1 .. Len(payload) : bytes[5 + i] = payload[i]
  /\ bytes[6 + Len(payload)] = 10
  /\ bytes[7 + Len(payload)] = 13

(* What joined sequences hold. *)
LEMMA Joined ==
  ASSUME NEW s, NEW t, s \in Seq(Int), t \in Seq(Int)
  PROVE  /\ s \o t \in Seq(Int)
         /\ Len(s \o t) = Len(s) + Len(t)
         /\ \A i \in 1 .. Len(s) : (s \o t)[i] = s[i]
         /\ \A i \in 1 .. Len(t) : (s \o t)[Len(s) + i] = t[i]
  OBVIOUS

(* The same of three. *)
LEMMA ThreeJoined ==
  ASSUME NEW h, NEW p, NEW t, h \in Seq(Int), p \in Seq(Int), t \in Seq(Int)
  PROVE  /\ h \o p \o t \in Seq(Int)
         /\ Len(h \o p \o t) = Len(h) + Len(p) + Len(t)
         /\ \A i \in 1 .. Len(h) : (h \o p \o t)[i] = h[i]
         /\ \A i \in 1 .. Len(p) : (h \o p \o t)[Len(h) + i] = p[i]
         /\ \A i \in 1 .. Len(t) : (h \o p \o t)[Len(h) + Len(p) + i] = t[i]
  OBVIOUS

(* What a part of a sequence holds. *)
LEMMA PartOf ==
  ASSUME NEW s, NEW a, NEW b, s \in Seq(Int), a \in Nat, b \in Nat,
         1 <= a, a <= b + 1, b <= Len(s)
  PROVE  /\ SubSeq(s, a, b) \in Seq(Int)
         /\ Len(SubSeq(s, a, b)) = b - a + 1
         /\ \A i \in 1 .. b - a + 1 : SubSeq(s, a, b)[i] = s[a + i - 1]
  OBVIOUS

(* What its front holds. *)
LEMMA FrontIs ==
  ASSUME NEW s, NEW d, s \in Seq(Int), d \in Nat, d <= Len(s)
  PROVE  /\ SubSeq(s, 1, d) \in Seq(Int) /\ Len(SubSeq(s, 1, d)) = d
         /\ \A i \in 1 .. d : SubSeq(s, 1, d)[i] = s[i]
  OBVIOUS

(* A part of two elements. *)
LEMMA LastTwo ==
  ASSUME NEW s, NEW d, s \in Seq(Int), d \in Nat, 2 <= d, d <= Len(s)
  PROVE  SubSeq(s, d - 1, d) = <<s[d - 1], s[d]>>
<1> DEFINE t == SubSeq(s, d - 1, d)
<1>1. /\ d - 1 \in Nat /\ 1 <= d - 1 /\ d - 1 <= d + 1 /\ d - (d - 1) + 1 = 2
      /\ (d - 1) + 1 - 1 = d - 1 /\ (d - 1) + 2 - 1 = d
  OBVIOUS
<1>2. t \in Seq(Int) /\ Len(t) = 2 /\ t[1] = s[d - 1] /\ t[2] = s[d]
  BY <1>1, PartOf
<1> HIDE DEF t
<1>3. t = <<t[1], t[2]>>
  BY <1>2
<1>. QED
  BY <1>2, <1>3, Zenon DEF t

(* A frame has its bytes at their places. *)
LEMMA FrameIsFramed ==
  ASSUME NEW type, NEW unit, NEW payload,
         type \in Int, unit \in Int, payload \in Seq(Int)
  PROVE  Framed(<<HEAD, HEAD, type, unit, Len(payload)>> \o payload \o STOP,
                type, unit, payload)
<1> DEFINE l == Len(payload)
           h == <<HEAD, HEAD, type, unit, l>>
           all == h \o payload \o STOP
<1>1. l \in Nat
  OBVIOUS
<1> HIDE DEF l
<1>2. /\ h \in Seq(Int) /\ Len(h) = 5
      /\ h[1] = 126 /\ h[2] = 126 /\ h[3] = type /\ h[4] = unit /\ h[5] = l
  BY <1>1 DEF HEAD
<1>3. STOP \in Seq(Int) /\ Len(STOP) = 2 /\ STOP[1] = 10 /\ STOP[2] = 13
  BY DEF STOP
<1> HIDE DEF h
<1>4. /\ all \in Seq(Int)
      /\ Len(all) = Len(h) + Len(payload) + Len(STOP)
      /\ \A i \in 1 .. Len(h) : all[i] = h[i]
      /\ \A i \in 1 .. Len(payload) : all[Len(h) + i] = payload[i]
      /\ \A i \in 1 .. Len(STOP) : all[Len(h) + Len(payload) + i] = STOP[i]
  <2>1. h \in Seq(Int) /\ STOP \in Seq(Int)
    BY <1>2, <1>3
  <2>. QED
    BY <2>1, ThreeJoined, SMTT(30)
<1> HIDE DEF all
<1>5. Len(all) = 7 + l
  BY <1>1, <1>2, <1>3, <1>4 DEF l
<1>6. \A i \in 1 .. 5 : all[i] = h[i]
  BY <1>2, <1>4
<1>7. \A i \in 1 .. l : all[5 + i] = payload[i]
  BY <1>2, <1>4 DEF l
<1>8. all[6 + l] = 10 /\ all[7 + l] = 13
  <2>1. all[Len(h) + Len(payload) + 1] = STOP[1] /\ all[Len(h) + Len(payload) + 2] = STOP[2]
    BY <1>3, <1>4
  <2>. QED
    BY <1>1, <1>2, <1>3, <2>1 DEF l
<1>9. Framed(all, type, unit, payload)
  BY <1>2, <1>4, <1>5, <1>6, <1>7, <1>8 DEF Framed, l
<1>. QED
  BY <1>9, Zenon DEF all, h, l

(* What each byte of a command may be. *)
Switches == [unit : 1 .. 16, type : {OUTPUT_SWITCH}, on : BOOLEAN]
Signals == [unit : 1 .. 16, type : {SIGNAL_CONTROL}, mode : 0 .. MODE_COUNT - 1,
            power : {POWER_DB[i] : i \in DOMAIN POWER_DB}]

(* What a command for the output switch is made of. *)
LEMMA SwitchFields ==
  ASSUME NEW q, q \in Switches
  PROVE  q.unit \in 1 .. 16 /\ q.type = 1 /\ q.on \in BOOLEAN
  BY DEF Switches, OUTPUT_SWITCH

(* What a command for the signal control is made of. *)
LEMMA SignalFields ==
  ASSUME NEW q, q \in Signals
  PROVE  /\ q.unit \in 1 .. 16 /\ q.type = 2 /\ q.mode \in 0 .. 3
         /\ q.power \in {POWER_DB[i] : i \in DOMAIN POWER_DB}
  BY DEF Signals, SIGNAL_CONTROL, MODE_COUNT

(* proto_build_output_switch() builds a frame. *)
LEMMA SwitchIsFramed ==
  ASSUME NEW q, q \in Switches
  PROVE  Framed(Bytes(q), 1, q.unit, <<IF q.on THEN 1 ELSE 0>>)
<1> DEFINE b == IF q.on THEN 1 ELSE 0
           u == q.unit
<1>1. 1 \in Int
  OBVIOUS
<1>2. u \in Int /\ q.type = 1 /\ b \in Int
  BY SwitchFields
<1>3. Builds(q)
  BY <1>2 DEF Builds, SIGNAL_CONTROL
<1>4. Payload(q) = <<b>>
  BY <1>2 DEF Payload, OUTPUT_SWITCH
<1>5. Bytes(q) = <<HEAD, HEAD, 1, u, Len(<<b>>)>> \o <<b>> \o STOP
  BY <1>2, <1>3, <1>4, Zenon DEF Bytes
<1> HIDE DEF b, u
<1>6. <<b>> \in Seq(Int)
  BY <1>2
<1>7. Framed(<<HEAD, HEAD, 1, u, Len(<<b>>)>> \o <<b>> \o STOP, 1, u, <<b>>)
  BY <1>1, <1>2, <1>6, FrameIsFramed, Zenon
<1>. QED
  BY <1>5, <1>7, Zenon DEF b, u

SignalPayload(q) ==
  <<q.mode, UnitFreq[q.unit] \div 256, UnitFreq[q.unit] % 256,
    CodeIn(BANDWIDTH_MHZ, UnitBandwidth[q.unit]), CodeIn(POWER_DB, q.power)>>

(* The numbers of a signal command, and their codes. *)
GoodParts(freq, width, power, b, c) ==
  /\ freq \in FREQ_MHZ
  /\ freq \div 256 \in 2 .. 22
  /\ freq % 256 \in 3 .. 255 \ {13, 126}
  /\ b \in 2 .. 6 /\ ValueIn(BANDWIDTH_MHZ, b) = width
  /\ c \in 0 .. 2 /\ ValueIn(POWER_DB, c) = power

(* A frequency is put together again from its two bytes, and the codes       *)
(* stand for what was meant.                                                 *)
LEMMA SignalParts ==
  ASSUME NEW q, q \in Signals
  PROVE  GoodParts(UnitFreq[q.unit], UnitBandwidth[q.unit], q.power,
                   CodeIn(BANDWIDTH_MHZ, UnitBandwidth[q.unit]),
                   CodeIn(POWER_DB, q.power))
<1> DEFINE u == q.unit
           w == UnitBandwidth[u]
           v == q.power
<1>1. u \in 1 .. 16 /\ v \in {POWER_DB[i] : i \in DOMAIN POWER_DB}
  BY SignalFields
<1> HIDE DEF u, v
<1>2. /\ UnitFreq[u] \in FREQ_MHZ
      /\ UnitFreq[u] \div 256 \in 2 .. 22
      /\ UnitFreq[u] % 256 \in 3 .. 255 \ {13, 126}
      /\ w \in {50, 100, 150, 200, 250}
  BY <1>1, UnitTable
<1> HIDE DEF w
<1>3. /\ CodeIn(BANDWIDTH_MHZ, w) \in 2 .. 6
      /\ ValueIn(BANDWIDTH_MHZ, CodeIn(BANDWIDTH_MHZ, w)) = w
  BY <1>2, BandwidthCodes
<1>4. /\ CodeIn(POWER_DB, v) \in 0 .. 2
      /\ ValueIn(POWER_DB, CodeIn(POWER_DB, v)) = v
  BY <1>1, PowerCodes, Zenon
<1>5. GoodParts(UnitFreq[u], w, v, CodeIn(BANDWIDTH_MHZ, w), CodeIn(POWER_DB, v))
  BY <1>2, <1>3, <1>4 DEF GoodParts
<1>. QED
  BY <1>5, Zenon DEF u, v, w

(* proto_build_signal_control() builds a frame: it rejects no unit of the    *)
(* table.                                                                    *)
LEMMA SignalIsFramed ==
  ASSUME NEW q, q \in Signals
  PROVE  Framed(Bytes(q), 2, q.unit, SignalPayload(q))
<1> DEFINE u == q.unit
           m == q.mode
           f == UnitFreq[u]
           hi == f \div 256
           lo == f % 256
           b == CodeIn(BANDWIDTH_MHZ, UnitBandwidth[u])
           c == CodeIn(POWER_DB, q.power)
           p == SignalPayload(q)
<1>1. 2 \in Int
  OBVIOUS
<1>2. u \in Int /\ q.type = 2 /\ m \in 0 .. 3
  BY SignalFields
<1>3. GoodParts(f, UnitBandwidth[u], q.power, b, c)
  BY SignalParts, Zenon
<1>4. Payload(q) = p
  BY <1>2 DEF Payload, OUTPUT_SWITCH, SignalPayload
<1> HIDE DEF f, b, c
<1>5. Builds(q)
  <2>1. b >= 0 /\ c >= 0
    BY <1>3 DEF GoodParts
  <2>2. /\ CodeIn(BANDWIDTH_MHZ, UnitBandwidth[q.unit]) >= 0
        /\ CodeIn(POWER_DB, q.power) >= 0
    BY <2>1, Zenon DEF b, c
  <2>3. q.mode < MODE_COUNT
    BY <1>2 DEF MODE_COUNT
  <2>4. UnitFreq[q.unit] \in FREQ_MHZ
    BY <1>3, Zenon DEF GoodParts, f
  <2>. QED
    BY <2>2, <2>3, <2>4, Zenon DEF Builds
<1>6. p \in Seq(Int)
  <2>1. hi \in Int /\ lo \in Int /\ b \in Int /\ c \in Int /\ m \in Int
    BY <1>2, <1>3 DEF GoodParts, FREQ_MHZ
  <2> HIDE DEF hi, lo, m
  <2>2. <<m, hi, lo, b, c>> \in Seq(Int)
    BY <2>1
  <2>. QED
    BY <2>2, Zenon DEF SignalPayload, f, hi, lo, b, c, m
<1>7. Bytes(q) = <<HEAD, HEAD, 2, u, Len(p)>> \o p \o STOP
  BY <1>2, <1>4, <1>5, Zenon DEF Bytes
<1> HIDE DEF p, u
<1>8. Framed(<<HEAD, HEAD, 2, u, Len(p)>> \o p \o STOP, 2, u, p)
  BY <1>1, <1>2, <1>6, FrameIsFramed, Zenon
<1>. QED
  BY <1>7, <1>8, Zenon DEF p, u

(* What the parser can see of a command: heads and stops are where they      *)
(* belong and nowhere else, and the length tells the type.                   *)
Command(bytes) ==
  /\ bytes \in Seq(Int)
  /\ \/ bytes[3] = 1 /\ bytes[5] = 1 /\ Len(bytes) = 8
     \/ bytes[3] = 2 /\ bytes[5] = 5 /\ Len(bytes) = 12
  /\ \A i \in 1 .. Len(bytes) : bytes[i] >= 0
  /\ bytes[1] = 126 /\ bytes[2] = 126
  /\ \A i \in 3 .. Len(bytes) : bytes[i] # 126
  /\ \A i \in 1 .. Len(bytes) - 1 :
       bytes[i] = 10 /\ bytes[i + 1] = 13 <=> i = Len(bytes) - 1

(* A frame of the output switch is a command that means what was meant. *)
LEMMA SwitchIsCommand ==
  ASSUME NEW q, q \in Switches
  PROVE  Command(Bytes(q)) /\ Meaning(Bytes(q)) = Intent(q)
<1> DEFINE f == Bytes(q)
           b == IF q.on THEN 1 ELSE 0
           p == <<b>>
<1>1. Framed(f, 1, q.unit, p)
  BY SwitchIsFramed, Zenon
<1>2. q.unit \in 1 .. 16 /\ q.type = 1 /\ q.on \in BOOLEAN
  BY SwitchFields
<1>3. b \in 0 .. 1 /\ (b = 1 <=> q.on)
  BY <1>2
<1> HIDE DEF f, b
<1>4. /\ f \in Seq(Int) /\ Len(f) = 8
      /\ f[1] = 126 /\ f[2] = 126 /\ f[3] = 1 /\ f[4] = q.unit /\ f[5] = 1
      /\ f[6] = b /\ f[7] = 10 /\ f[8] = 13
  BY <1>1, <1>3 DEF Framed
<1>5. Command(f)
  <2>1. /\ f[1] = 126 /\ f[2] = 126 /\ f[3] = 1 /\ f[5] = 1
        /\ f[7] = 10 /\ f[8] = 13
    BY <1>4
  <2>2. f[4] \in 1 .. 16 /\ f[6] \in 0 .. 1
    BY <1>2, <1>3, <1>4, Zenon
  <2>3. \A i \in 1 .. 8 : f[i] >= 0
    <3>1. \A i \in 1 .. 8 : \/ i = 1 \/ i = 2 \/ i = 3 \/ i = 4
                           \/ i = 5 \/ i = 6 \/ i = 7 \/ i = 8
      OBVIOUS
    <3>. QED
      BY <2>1, <2>2, <3>1
  <2>4. \A i \in 3 .. 8 : f[i] # 126
    <3>1. \A i \in 3 .. 8 : \/ i = 3 \/ i = 4 \/ i = 5
                           \/ i = 6 \/ i = 7 \/ i = 8
      OBVIOUS
    <3>. QED
      BY <2>1, <2>2, <3>1
  <2>5. \A i \in 1 .. 7 : f[i] = 10 /\ f[i + 1] = 13 <=> i = 7
    <3>1. \A i \in 1 .. 7 : \/ i = 1 \/ i = 2 \/ i = 3 \/ i = 4
                           \/ i = 5 \/ i = 6 \/ i = 7
      OBVIOUS
    <3>2. /\ f[1] # 10 /\ f[2] # 10 /\ f[3] # 10 /\ f[5] # 13 /\ f[5] # 10
          /\ f[6] # 10 /\ f[7] = 10 /\ f[8] = 13
      BY <2>1, <2>2
    <3>3. /\ ~(f[1] = 10 /\ f[2] = 13) /\ ~(f[2] = 10 /\ f[3] = 13)
          /\ ~(f[3] = 10 /\ f[4] = 13) /\ ~(f[4] = 10 /\ f[5] = 13)
          /\ ~(f[5] = 10 /\ f[6] = 13) /\ ~(f[6] = 10 /\ f[7] = 13)
          /\ (f[7] = 10 /\ f[8] = 13)
      BY <3>2, Zenon
    <3>. QED
      BY <3>1, <3>3
  <2>. QED
    BY <1>4, <2>3, <2>4, <2>5 DEF Command
<1>6. SubSeq(f, 6, Len(f) - 2) = p
  <2> DEFINE t == SubSeq(f, 6, 6)
  <2>1. f \in Seq(Int) /\ Len(f) >= 8
    BY <1>4
  <2>2. t \in Seq(Int) /\ Len(t) = 1 /\ t[1] = f[6]
    BY <2>1, PartOf
  <2> HIDE DEF t
  <2>3. t = p
    BY <1>4, <2>2
  <2>. QED
    BY <1>4, <2>3 DEF t
<1>7. Meaning(f) = [unit |-> q.unit, on |-> (p = <<1>>)]
  BY <1>4, <1>6 DEF Meaning, OUTPUT_SWITCH
<1>8. (p = <<1>>) = q.on
  BY <1>2, <1>3
<1>9. Intent(q) = [unit |-> q.unit, on |-> q.on]
  BY <1>2 DEF Intent, OUTPUT_SWITCH
<1>. QED
  BY <1>5, <1>7, <1>8, <1>9, Zenon DEF f

(* So is one of the signal control. *)
LEMMA SignalIsCommand ==
  ASSUME NEW q, q \in Signals
  PROVE  Command(Bytes(q)) /\ Meaning(Bytes(q)) = Intent(q)
<1> DEFINE f == Bytes(q)
           u == q.unit
           m == q.mode
           v == q.power
           freq == UnitFreq[u]
           w == UnitBandwidth[u]
           hi == freq \div 256
           lo == freq % 256
           b == CodeIn(BANDWIDTH_MHZ, w)
           c == CodeIn(POWER_DB, v)
           p == SignalPayload(q)
<1>1. Framed(f, 2, u, p)
  BY SignalIsFramed, Zenon
<1>2. u \in 1 .. 16 /\ q.type = 2 /\ m \in 0 .. 3
  BY SignalFields
<1>3. GoodParts(freq, w, v, b, c)
  BY SignalParts, Zenon
<1>4. p = <<m, hi, lo, b, c>>
  BY Zenon DEF SignalPayload
<1> HIDE DEF f, u, m, v, freq, w, b, c, p
<1>5. /\ hi \in 2 .. 22 /\ lo \in 3 .. 255 /\ lo # 13 /\ lo # 126 /\ b \in 2 .. 6 /\ c \in 0 .. 2
      /\ hi * 256 + lo = freq
      /\ ValueIn(BANDWIDTH_MHZ, b) = w /\ ValueIn(POWER_DB, c) = v
  BY <1>3 DEF GoodParts, FREQ_MHZ
<1> HIDE DEF hi, lo
<1>6. Len(p) = 5 /\ p[1] = m /\ p[2] = hi /\ p[3] = lo /\ p[4] = b /\ p[5] = c
  BY <1>4
<1>7. /\ f \in Seq(Int) /\ Len(f) = 12
      /\ f[1] = 126 /\ f[2] = 126 /\ f[3] = 2 /\ f[4] = u /\ f[5] = 5
      /\ f[6] = m /\ f[7] = hi /\ f[8] = lo /\ f[9] = b /\ f[10] = c
      /\ f[11] = 10 /\ f[12] = 13
  BY <1>1, <1>6 DEF Framed
<1>8. Command(f)
  <2>1. /\ f[4] \in 1 .. 16 /\ f[6] \in 0 .. 3 /\ f[7] \in 2 .. 22
        /\ f[8] \in 3 .. 255 /\ f[8] # 13 /\ f[8] # 126
        /\ f[9] \in 2 .. 6 /\ f[10] \in 0 .. 2
    BY <1>2, <1>5, <1>7, Zenon
  <2>2. /\ f[1] = 126 /\ f[2] = 126 /\ f[3] = 2 /\ f[5] = 5
         /\ f[11] = 10 /\ f[12] = 13
    BY <1>7
  <2>3. \A i \in 1 .. 12 : f[i] >= 0
    <3>1. \A i \in 1 .. 12 : \/ i = 1 \/ i = 2 \/ i = 3 \/ i = 4 \/ i = 5
                            \/ i = 6 \/ i = 7 \/ i = 8 \/ i = 9
                            \/ i = 10 \/ i = 11 \/ i = 12
      OBVIOUS
    <3>. QED
      BY <2>1, <2>2, <3>1
  <2>4. \A i \in 3 .. 12 : f[i] # 126
    <3>1. \A i \in 3 .. 12 : \/ i = 3 \/ i = 4 \/ i = 5 \/ i = 6
                            \/ i = 7 \/ i = 8 \/ i = 9 \/ i = 10
                            \/ i = 11 \/ i = 12
      OBVIOUS
    <3>. QED
      BY <2>1, <2>2, <3>1
  <2>5. \A i \in 1 .. 11 : f[i] = 10 /\ f[i + 1] = 13 <=> i = 11
    <3>1. \A i \in 1 .. 11 : \/ i = 1 \/ i = 2 \/ i = 3 \/ i = 4 \/ i = 5
                            \/ i = 6 \/ i = 7 \/ i = 8 \/ i = 9
                            \/ i = 10 \/ i = 11
      OBVIOUS
    <3>2. /\ f[1] # 10 /\ f[2] # 10 /\ f[3] # 10 /\ f[5] # 13 /\ f[5] # 10
          /\ f[6] # 10 /\ f[8] # 13 /\ f[9] # 13 /\ f[9] # 10 /\ f[10] # 10
          /\ f[11] = 10 /\ f[12] = 13
      BY <2>1, <2>2
    <3>3. /\ ~(f[1] = 10 /\ f[2] = 13) /\ ~(f[2] = 10 /\ f[3] = 13)
          /\ ~(f[3] = 10 /\ f[4] = 13) /\ ~(f[4] = 10 /\ f[5] = 13)
          /\ ~(f[5] = 10 /\ f[6] = 13) /\ ~(f[6] = 10 /\ f[7] = 13)
          /\ ~(f[7] = 10 /\ f[8] = 13) /\ ~(f[8] = 10 /\ f[9] = 13)
          /\ ~(f[9] = 10 /\ f[10] = 13) /\ ~(f[10] = 10 /\ f[11] = 13)
          /\ (f[11] = 10 /\ f[12] = 13)
      BY <3>2, Zenon
    <3>. QED
      BY <3>1, <3>3
  <2>. QED
    BY <1>7, <2>3, <2>4, <2>5 DEF Command
<1>9. SubSeq(f, 6, Len(f) - 2) = <<m, hi, lo, b, c>>
  <2> DEFINE t == SubSeq(f, 6, 10)
  <2>1. f \in Seq(Int) /\ Len(f) >= 12
    BY <1>7
  <2>2. /\ t \in Seq(Int) /\ Len(t) = 5
        /\ t[1] = f[6] /\ t[2] = f[7] /\ t[3] = f[8] /\ t[4] = f[9] /\ t[5] = f[10]
    BY <2>1, PartOf
  <2> HIDE DEF t
  <2>3. t = <<m, hi, lo, b, c>>
    BY <1>7, <2>2
  <2>. QED
    BY <1>7, <2>3 DEF t
<1>10. Meaning(f) = [unit |-> u, mode |-> m, freq |-> hi * 256 + lo,
                     bandwidth |-> ValueIn(BANDWIDTH_MHZ, b),
                     power |-> ValueIn(POWER_DB, c)]
  BY <1>7, <1>9 DEF Meaning, OUTPUT_SWITCH, SIGNAL_CONTROL
<1>11. Intent(q) = [unit |-> u, mode |-> m, freq |-> freq, bandwidth |-> w, power |-> v]
  BY <1>2 DEF Intent, OUTPUT_SWITCH, u, m, freq, w, v
<1>. QED
  BY <1>5, <1>8, <1>10, <1>11, Zenon DEF f

(* The fifth byte of a command tells its length. *)
LEMMA LengthByte ==
  ASSUME NEW f, Command(f)
  PROVE  Len(f) \in {8, 12} /\ f[5] = Len(f) - 7
<1>1. CASE f[5] = 1 /\ Len(f) = 8
  BY <1>1
<1>2. CASE f[5] = 5 /\ Len(f) = 12
  BY <1>2
<1>. QED
  BY <1>1, <1>2, Zenon DEF Command

(* The stop of a command stands at its end and nowhere else. *)
LEMMA OneStop ==
  ASSUME NEW f, Command(f), NEW k, k \in Nat, 1 <= k, k + 1 <= Len(f),
         f[k] = 10, f[k + 1] = 13
  PROVE  k = Len(f) - 1
<1>1. Len(f) \in Nat
  BY DEF Command
<1>2. k \in 1 .. Len(f) - 1
  BY <1>1
<1>3. \A i \in 1 .. Len(f) - 1 : f[i] = 10 /\ f[i + 1] = 13 <=> i = Len(f) - 1
  BY DEF Command
<1>. QED
  BY <1>2, <1>3, Zenon

(* All this of whatever the queue holds. *)
LEMMA RequestsAreCommands ==
  ASSUME NEW q, q \in Requests
  PROVE  Command(Bytes(q)) /\ Meaning(Bytes(q)) = Intent(q)
<1>1. q \in Switches \/ q \in Signals
  BY LinkAssumption DEF Commands, Switches, Signals
<1>. QED
  BY <1>1, SwitchIsCommand, SignalIsCommand

-----------------------------------------------------------------------------
(* The line. *)

(* Every byte ever put on the line belongs to a piece, which are the first   *)
(* bytes of a command: its mark tells the command, the place of the byte in  *)
(* the piece and the size of the piece.                                      *)
Mark == [cmd : Requests, off : Nat, size : Nat, no : Nat]

Byte(m) == Bytes(m.cmd)[m.off]

Size(m) == Len(Bytes(m.cmd))

Marked(P, n) ==
  /\ n \in Nat
  /\ P \in [1 .. n -> Mark]
  /\ \A x \in 1 .. n : /\ 1 <= P[x].off /\ P[x].off <= P[x].size
                       /\ P[x].size <= Size(P[x])
  /\ \A x \in 1 .. n : \A d \in Int :
       1 <= P[x].off + d /\ P[x].off + d <= P[x].size
       => /\ x + d \in 1 .. n
          /\ P[x + d].off = P[x].off + d
          /\ P[x + d].cmd = P[x].cmd
          /\ P[x + d].size = P[x].size
          /\ P[x + d].no = P[x].no
  /\ \A x \in 1 .. n : P[x].off = P[x].size /\ x + 1 <= n => P[x + 1].off = 1

(* What a byte of the line can be: 7E only at the head of a piece. *)
LEMMA MarkedByte ==
  ASSUME NEW P, NEW n, Marked(P, n), NEW x, x \in 1 .. n
  PROVE  /\ P[x].cmd \in Requests /\ P[x].off \in Nat /\ P[x].size \in Nat
         /\ 1 <= P[x].off /\ P[x].off <= P[x].size /\ P[x].size <= Size(P[x])
         /\ Command(Bytes(P[x].cmd))
         /\ Size(P[x]) \in {8, 12}
         /\ Byte(P[x]) \in Nat
         /\ Byte(P[x]) = 126 <=> P[x].off = 1 \/ P[x].off = 2
<1>1. /\ P[x].cmd \in Requests /\ P[x].off \in Nat /\ P[x].size \in Nat
      /\ 1 <= P[x].off /\ P[x].off <= P[x].size /\ P[x].size <= Size(P[x])
  BY DEF Marked, Mark
<1> DEFINE f == Bytes(P[x].cmd)
           k == P[x].off
<1>2. Command(f)
  BY <1>1, RequestsAreCommands
<1>3. k \in Nat /\ 1 <= k /\ k <= Len(f)
  BY <1>1, <1>2 DEF Size, Command
<1> HIDE DEF f, k
<1>4. Len(f) \in {8, 12}
  BY <1>2 DEF Command
<1>5. f[k] \in Nat /\ (f[k] = 126 <=> k = 1 \/ k = 2)
  BY <1>2, <1>3, <1>4 DEF Command
<1>. QED
  BY <1>1, <1>2, <1>4, <1>5 DEF Size, Byte, f, k

(* The bytes of a piece lie together. *)
LEMMA InPiece ==
  ASSUME NEW P, NEW n, Marked(P, n), NEW x, x \in 1 .. n, NEW d, d \in Int,
         1 <= P[x].off + d, P[x].off + d <= P[x].size
  PROVE  /\ x + d \in 1 .. n
         /\ P[x + d].off = P[x].off + d
         /\ P[x + d].cmd = P[x].cmd
         /\ P[x + d].size = P[x].size
         /\ P[x + d].no = P[x].no
  BY DEF Marked

(* Four bytes on in the same piece. *)
LEMMA FourOn ==
  ASSUME NEW P, NEW n, Marked(P, n), NEW x, x \in 1 .. n, P[x].off + 4 <= P[x].size
  PROVE  P[x + 4].off = P[x].off + 4 /\ P[x + 4].cmd = P[x].cmd
<1>1. 1 <= P[x].off + 4
  BY MarkedByte
<1>. QED
  BY <1>1, InPiece

(* A byte is followed by the next of its piece, or by a new piece. *)
LEMMA MarkedNext ==
  ASSUME NEW P, NEW n, Marked(P, n), NEW x, x \in 1 .. n, x + 1 \in 1 .. n
  PROVE  IF P[x].off = P[x].size THEN P[x + 1].off = 1
         ELSE /\ P[x + 1].off = P[x].off + 1
              /\ P[x + 1].cmd = P[x].cmd
              /\ P[x + 1].size = P[x].size
<1>1. CASE P[x].off = P[x].size
  BY <1>1 DEF Marked
<1>2. CASE P[x].off # P[x].size
  <2>1. 1 <= P[x].off + 1 /\ P[x].off + 1 <= P[x].size
    BY <1>2, MarkedByte
  <2>. QED
    BY <1>2, <2>1 DEF Marked
<1>. QED
  BY <1>1, <1>2

(* A piece begins here and has at least so many bytes. *)
Begins(P, x, size) == P[x].off = 1 /\ P[x].size >= size

(* Two heads in a row and the type of a command: here a piece begins. *)
LEMMA HeadOfCommand ==
  ASSUME NEW P, NEW n, Marked(P, n), NEW x, x \in Nat, 1 <= x, x + 2 <= n,
         Byte(P[x]) = 126, Byte(P[x + 1]) = 126, Byte(P[x + 2]) # 126
  PROVE  Begins(P, x, 3)
<1>1. /\ x \in 1 .. n /\ x + 1 \in 1 .. n /\ x + 2 \in 1 .. n
      /\ (x + 1) + 1 = x + 2
  BY DEF Marked
<1>2. /\ P[x].off = 1 \/ P[x].off = 2
      /\ P[x + 1].off = 1 \/ P[x + 1].off = 2
      /\ P[x + 2].off # 1 /\ P[x + 2].off # 2
  BY <1>1, MarkedByte
<1>3. P[x + 1].off # P[x + 1].size /\ P[x + 2].off = P[x + 1].off + 1
  BY <1>1, <1>2, MarkedNext
<1>4. P[x + 1].off = 2
  BY <1>2, <1>3
<1>5. P[x].off # P[x].size /\ P[x + 1].off = P[x].off + 1 /\ P[x + 1].size = P[x].size
  BY <1>1, <1>4, MarkedNext
<1>. QED
  BY <1>1, <1>3, <1>4, <1>5, MarkedByte DEF Begins

(* What the parser takes for the length of the frame. *)
LEMMA LengthOfCommand ==
  ASSUME NEW P, NEW n, Marked(P, n), NEW x, x \in Nat, 1 <= x, x + 4 <= n, Begins(P, x, 3)
  PROVE  \/ Begins(P, x, 5) /\ Byte(P[x + 4]) = Size(P[x]) - 7
         \/ Byte(P[x + 4]) = 126
<1>1. P[x].off = 1 /\ P[x].size >= 3
  BY DEF Begins
<1>2. /\ n \in Nat /\ x \in 1 .. n /\ x + 2 \in 1 .. n /\ x + 3 \in 1 .. n
      /\ x + 4 \in 1 .. n /\ (x + 2) + 1 = x + 3 /\ (x + 3) + 1 = x + 4
  BY DEF Marked
<1>3. P[x].size \in Nat /\ Command(Bytes(P[x].cmd))
  BY <1>2, MarkedByte
<1>4. CASE P[x].size >= 5
  <2>1. P[x].off + 4 <= P[x].size
    BY <1>1, <1>3, <1>4
  <2>2. P[x + 4].off = P[x].off + 4 /\ P[x + 4].cmd = P[x].cmd
    BY <1>2, <2>1, FourOn
  <2>3. P[x + 4].off = 5
    BY <1>1, <2>2
  <2> DEFINE f == Bytes(P[x].cmd)
  <2> HIDE DEF f
  <2>4. Command(f)
    BY <1>3 DEF f
  <2>5. f[5] = Len(f) - 7
    BY <2>4, LengthByte
  <2>6. Byte(P[x + 4]) = f[5] /\ Size(P[x]) = Len(f)
    BY <2>2, <2>3, Zenon DEF Byte, Size, f
  <2>. QED
    BY <1>1, <1>4, <2>5, <2>6 DEF Begins
<1>5. CASE P[x].size = 4
  <2>1. P[x + 3].off = 4 /\ P[x + 3].size = 4
    BY <1>1, <1>2, <1>3, <1>5 DEF Marked
  <2>2. P[x + 4].off = 1
    BY <1>2, <2>1, MarkedNext
  <2>. QED
    BY <1>2, <1>5, <2>2, MarkedByte
<1>6. CASE P[x].size = 3
  <2>1. P[x + 2].off = 3 /\ P[x + 2].size = 3
    BY <1>1, <1>2, <1>3, <1>6, SMTT(30) DEF Marked
  <2>2. P[x + 3].off = 1
    BY <1>2, <2>1, MarkedNext
  <2>3. P[x + 4].off = 1 \/ P[x + 4].off = 2
    BY <1>2, <2>2, MarkedNext
  <2>. QED
    BY <1>2, <1>6, <2>3, MarkedByte
<1>. QED
  BY <1>1, <1>3, <1>4, <1>5, <1>6

(* A stop ends a whole command. *)
LEMMA StopEndsCommand ==
  ASSUME NEW P, NEW n, Marked(P, n), NEW y, y \in Nat, 1 <= y, y + 1 <= n,
         Byte(P[y]) = 10, Byte(P[y + 1]) = 13
  PROVE  P[y].size = Size(P[y]) /\ P[y].off = P[y].size - 1
<1> DEFINE f == Bytes(P[y].cmd)
           k == P[y].off
<1>1. y \in 1 .. n /\ y + 1 \in 1 .. n
  BY DEF Marked
<1>2. /\ k \in Nat /\ P[y].size \in Nat /\ 1 <= k /\ k <= P[y].size
      /\ P[y].size <= Len(f) /\ Command(f)
  BY <1>1, MarkedByte DEF Size
<1>3. P[y + 1].off # 1
  BY <1>1, MarkedByte
<1>4. k # P[y].size /\ P[y + 1].off = k + 1 /\ P[y + 1].cmd = P[y].cmd
  BY <1>1, <1>3, MarkedNext
<1>5. f[k] = 10 /\ f[k + 1] = 13
  BY <1>4 DEF Byte
<1> HIDE DEF f, k
<1>6. Len(f) \in {8, 12}
  BY <1>2 DEF Command
<1>7. k = Len(f) - 1
  <2>1. k # Len(f)
    BY <1>2, <1>4
  <2>2. k + 1 <= Len(f)
    BY <1>2, <1>6, <2>1
  <2>. QED
    BY <1>2, <1>5, <2>2, OneStop
<1>. QED
  BY <1>2, <1>4, <1>6, <1>7 DEF Size, f, k

(* Where the stop of a command should be there is one only if the piece that *)
(* began there is the whole command.                                         *)
LEMMA StopOfCommand ==
  ASSUME NEW P, NEW n, Marked(P, n), NEW x, x \in 1 .. n,
         Begins(P, x, 5), NEW t, t = x + Size(P[x]) - 1, t <= n,
         Byte(P[t - 1]) = 10, Byte(P[t]) = 13
  PROVE  P[x].size = Size(P[x])
<1>1. P[x].off = 1 /\ P[x].size >= 5
  BY DEF Begins
<1>2. /\ x \in 1 .. n /\ t \in Int /\ t - 1 \in 1 .. n /\ t - 1 \in Nat
      /\ Size(P[x]) \in {8, 12} /\ P[x].size \in Nat
      /\ (t - 1) + 1 = t /\ t <= x + 11
  <2>1. Size(P[x]) \in {8, 12} /\ P[x].size \in Nat
    BY MarkedByte
  <2>2. n \in Nat
    BY DEF Marked
  <2>. QED
    BY <2>1, <2>2
<1> DEFINE y == t - 1
           z == y - P[y].off + 1
<1>3. /\ P[y].size = Size(P[y]) /\ P[y].off = P[y].size - 1
      /\ Size(P[y]) \in {8, 12}
  BY <1>2, StopEndsCommand, MarkedByte
<1>4. z \in 1 .. n /\ P[z].off = 1 /\ P[z].cmd = P[y].cmd /\ P[z].size = P[y].size
  <2>1. 1 <= P[y].off + (1 - P[y].off) /\ P[y].off + (1 - P[y].off) <= P[y].size
    BY <1>3
  <2>2. y + (1 - P[y].off) = z /\ 1 - P[y].off \in Int /\ P[y].off + (1 - P[y].off) = 1
    BY <1>2, <1>3
  <2>. QED
    BY <1>2, <2>1, <2>2, InPiece
<1>5. z = t - P[y].size + 1 /\ P[y].size \in {8, 12}
  BY <1>2, <1>3
<1> HIDE DEF y, z
<1>6. CASE z = x
  BY <1>3, <1>4, <1>6 DEF Size
<1>7. CASE z < x
  <2>1. 1 <= P[z].off + (x - z) /\ P[z].off + (x - z) <= P[z].size /\ x - z \in Int
    BY <1>1, <1>2, <1>4, <1>5, <1>7
  <2>2. P[z + (x - z)].off = P[z].off + (x - z)
    BY <1>4, <2>1 DEF Marked
  <2>3. z + (x - z) = x
    BY <1>2, <1>4
  <2>. QED
    BY <1>1, <1>2, <1>4, <1>7, <2>2, <2>3
<1>8. CASE x < z /\ z < x + P[x].size
  <2>1. 1 <= P[x].off + (z - x) /\ P[x].off + (z - x) <= P[x].size /\ z - x \in Int
    BY <1>1, <1>2, <1>4, <1>8
  <2>2. P[x + (z - x)].off = P[x].off + (z - x)
    BY <1>2, <2>1 DEF Marked
  <2>3. x + (z - x) = z
    BY <1>2, <1>4
  <2>. QED
    BY <1>1, <1>2, <1>4, <1>8, <2>2, <2>3
<1>9. CASE z >= x + P[x].size
  BY <1>1, <1>2, <1>5, <1>9
<1>. QED
  BY <1>1, <1>2, <1>4, <1>6, <1>7, <1>8, <1>9

-----------------------------------------------------------------------------
(* The parser's buffer. *)

(* Sequences with the same elements are the same. *)
LEMMA SameParts ==
  ASSUME NEW s, NEW t, s \in Seq(Int), t \in Seq(Int), Len(s) = Len(t),
         \A i \in 1 .. Len(s) : s[i] = t[i]
  PROVE  s = t
  BY SeqEqual

(* From the first element on there is everything. *)
LEMMA FromOne ==
  ASSUME NEW s, s \in Seq(Int)
  PROVE  From(s, 1) = s
  BY SubSeqFull DEF From

(* What is left of a sequence without its first d elements. *)
IsRest(t, s, d) ==
  /\ d \in Nat /\ d <= Len(s)
  /\ t \in Seq(Int) /\ Len(t) = Len(s) - d
  /\ \A i \in 1 .. Len(s) - d : t[i] = s[d + i]

(* From(s, d + 1) is such a rest. *)
LEMMA RestIs ==
  ASSUME NEW s, NEW d, s \in Seq(Int), d \in Nat, d <= Len(s)
  PROVE  IsRest(From(s, d + 1), s, d)
  BY DEF IsRest, From

(* So is the whole, of nothing. *)
LEMMA AllIsRest ==
  ASSUME NEW s, s \in Seq(Int)
  PROVE  IsRest(s, s, 0)
<1>1. /\ Len(s) \in Nat /\ 0 \in Nat /\ Len(s) - 0 = Len(s)
      /\ \A i \in 1 .. Len(s) : 0 + i = i
  OBVIOUS
<1>. QED
  BY <1>1 DEF IsRest

(* And the rest of a rest. *)
LEMMA RestOfRest ==
  ASSUME NEW s, NEW t, NEW u, NEW d, NEW e, s \in Seq(Int), IsRest(t, s, d), IsRest(u, t, e)
  PROVE  IsRest(u, s, d + e)
<1>1. /\ Len(s) \in Nat /\ d \in Nat /\ e \in Nat /\ d <= Len(s)
      /\ Len(t) = Len(s) - d /\ e <= Len(t) /\ Len(u) = Len(t) - e /\ u \in Seq(Int)
      /\ \A i \in 1 .. Len(s) - d : t[i] = s[d + i]
      /\ \A i \in 1 .. Len(t) - e : u[i] = t[e + i]
  BY DEF IsRest
<1>2. /\ d + e \in Nat /\ d + e <= Len(s) /\ Len(u) = Len(s) - (d + e)
      /\ Len(s) - (d + e) = Len(t) - e
  BY <1>1
<1>3. ASSUME NEW i, i \in 1 .. Len(s) - (d + e) PROVE u[i] = s[(d + e) + i]
  <2>1. i \in 1 .. Len(t) - e /\ e + i \in 1 .. Len(s) - d /\ d + (e + i) = (d + e) + i
    BY <1>1, <1>2, <1>3
  <2>2. u[i] = t[e + i]
    BY <1>1, <2>1
  <2>3. t[e + i] = s[d + (e + i)]
    BY <1>1, <2>1
  <2>. QED
    BY <2>1, <2>2, <2>3
<1>. QED
  BY <1>1, <1>2, <1>3 DEF IsRest

(* A set of numbers that is not empty has a least one. *)
LEMMA LeastExists ==
  ASSUME NEW S, S \subseteq Nat, S # {}
  PROVE  \E i \in S : \A j \in S : i <= j
<1>1. PICK i \in S : \A j \in S : ~(<<j, i>> \in OpToRel(<, Nat))
  BY NatLessThanWellFounded, WFMin
<1>2. ASSUME NEW j \in S PROVE i <= j
  <2>1. i \in Nat /\ j \in Nat
    OBVIOUS
  <2>2. ~(j < i)
    BY <1>1, <2>1 DEF OpToRel
  <2>. QED
    BY <2>1, <2>2
<1>. QED
  BY <1>2

(* Induction over the natural numbers, as a fact about a set of them. *)
LEMMA SetInduction ==
  ASSUME NEW S, 0 \in S, \A n \in Nat : n \in S => n + 1 \in S
  PROVE  Nat \subseteq S
<1> SUFFICES ASSUME Nat \ S # {} PROVE FALSE
  OBVIOUS
<1> DEFINE T == {b \in Nat : b \notin S}
<1>1. T # {}
  OBVIOUS
<1>2. PICK x \in T : \A y \in T : x <= y
  BY <1>1, LeastExists
<1>3. x # 0 /\ x - 1 \in Nat
  BY <1>2
<1>4. x - 1 \in S
  BY <1>2, <1>3
<1>. QED
  BY <1>2, <1>3, <1>4

(* What FirstHead finds. *)
LEMMA FirstHeadIs ==
  ASSUME NEW s, s \in Seq(Int), HeadsIn(s) # {}
  PROVE  /\ FirstHead(s) \in 1 .. Len(s) - 1
         /\ s[FirstHead(s)] = 126 /\ s[FirstHead(s) + 1] = 126
         /\ \A j \in HeadsIn(s) : FirstHead(s) <= j
<1>1. HeadsIn(s) \subseteq Nat
  BY DEF HeadsIn
<1>2. \E i \in HeadsIn(s) : \A j \in HeadsIn(s) : i <= j
  BY <1>1, LeastExists
<1>3. FirstHead(s) \in HeadsIn(s) /\ \A j \in HeadsIn(s) : FirstHead(s) <= j
  BY <1>2, Zenon DEF FirstHead
<1>. QED
  BY <1>3 DEF HeadsIn, HEAD

(* What a good stop is made of. *)
LEMMA StopIs ==
  ASSUME NEW b, NEW total, b \in Seq(Int), total \in Nat, 2 <= total, total <= Len(b),
         GoodStop(b, total)
  PROVE  b[total - 1] = 10 /\ b[total] = 13
<1>1. SubSeq(b, total - 1, total) = <<b[total - 1], b[total]>>
  BY LastTwo
<1>2. <<b[total - 1], b[total]>> = <<10, 13>>
  BY <1>1, Zenon DEF GoodStop, STOP
<1> DEFINE u == b[total - 1]
           v == b[total]
<1> HIDE DEF u, v
<1>3. <<u, v>> = <<10, 13>>
  BY <1>2 DEF u, v
<1>. QED
  BY <1>3, Zenon DEF u, v

(* And what is made of these is one. *)
LEMMA StopMakes ==
  ASSUME NEW b, NEW total, b \in Seq(Int), total \in Nat, 2 <= total, total <= Len(b),
         b[total - 1] = 10, b[total] = 13
  PROVE  GoodStop(b, total)
<1>1. SubSeq(b, total - 1, total) = <<b[total - 1], b[total]>>
  BY LastTwo
<1>. QED
  BY <1>1, Zenon DEF GoodStop, STOP

(* What is done with a buffer that begins with a head: the parser waits for  *)
(* more, gives up the head of a bad frame, or takes a good one.              *)
LEMMA AtHead ==
  ASSUME NEW b, b \in Seq(Int), \A i \in 1 .. Len(b) : b[i] >= 0
  PROVE  \E d \in Nat :
           /\ IsRest(FindAtHead(b).buf, b, d)
           /\ \/ /\ FindAtHead(b).frame = NoFrame
                 /\ d = 0
                 /\ Len(b) < 5 \/ Len(b) < b[5] + 7
              \/ /\ FindAtHead(b).frame = NoFrame
                 /\ d = 2
                 /\ Len(b) >= 5
                 /\ \E t \in Nat : /\ t = b[5] + 7 /\ t <= Len(b)
                                  /\ ~(b[t - 1] = 10 /\ b[t] = 13)
              \/ /\ d >= 7 /\ d = b[5] + 7
                 /\ b[d - 1] = 10 /\ b[d] = 13
                 /\ FindAtHead(b).frame = SubSeq(b, 1, d)
<1> DEFINE total == 5 + b[5] + 2
<1>1. CASE Len(b) < 5 \/ Len(b) < total
  <2>1. FindAtHead(b) = [buf |-> b, frame |-> NoFrame]
    BY <1>1, Zenon DEF FindAtHead
  <2>2. FindAtHead(b).buf = b /\ FindAtHead(b).frame = NoFrame
    BY <2>1
  <2>3. IsRest(b, b, 0)
    BY AllIsRest
  <2>4. 0 \in Nat
    OBVIOUS
  <2>5. Len(b) < 5 \/ Len(b) < b[5] + 7
    <3>1. CASE Len(b) < 5
      BY <3>1
    <3>2. CASE Len(b) >= 5 /\ Len(b) < total
      <4>1. 5 \in 1 .. Len(b) /\ b[5] \in Int
        BY <3>2
      <4>. QED
        BY <3>2, <4>1
    <3>. QED
      BY <1>1, <3>1, <3>2
  <2>. QED
    BY <2>2, <2>3, <2>4, <2>5, Zenon
<1>2. CASE ~(Len(b) < 5 \/ Len(b) < total)
  <2>1. Len(b) \in Nat /\ Len(b) >= 5 /\ total \in Nat /\ total >= 7 /\ total <= Len(b)
          /\ total = b[5] + 7
    BY <1>2
  <2> HIDE DEF total
  <2>2. CASE GoodStop(b, total)
    <3> DEFINE rest == From(b, total + 1)
               frame == SubSeq(b, 1, total)
    <3>1. FindAtHead(b) = [buf |-> rest, frame |-> frame]
      BY <1>2, <2>2, Zenon DEF FindAtHead, total
    <3>2. FindAtHead(b).buf = rest /\ FindAtHead(b).frame = frame
      <4> HIDE DEF rest, frame
      <4>. QED
        BY <3>1
    <3>3. b[total - 1] = 10 /\ b[total] = 13
      BY <2>1, <2>2, StopIs, SMTT(30)
    <3>4. IsRest(rest, b, total)
      BY <2>1, RestIs
    <3> HIDE DEF rest, frame
    <3>5. IsRest(FindAtHead(b).buf, b, total) /\ FindAtHead(b).frame = SubSeq(b, 1, total)
      BY <3>2, <3>4, Zenon DEF frame
    <3>. QED
      BY <2>1, <3>3, <3>5
  <2>3. CASE ~GoodStop(b, total)
    <3>1. FindAtHead(b) = [buf |-> PastBadFrame(b, total), frame |-> NoFrame]
      BY <1>2, <2>3, Zenon DEF FindAtHead, total
    <3>2. FindAtHead(b).buf = PastBadFrame(b, total) /\ FindAtHead(b).frame = NoFrame
      BY <3>1
    <3>3. 2 \in Nat /\ 2 <= Len(b) /\ 2 + 1 = 3
      BY <2>1
    <3>4. IsRest(PastBadFrame(b, total), b, 2)
      BY <3>3, RestIs DEF PastBadFrame
    <3>5. ~(b[total - 1] = 10 /\ b[total] = 13)
      <4>1. total \in Nat /\ 2 <= total /\ total <= Len(b)
        BY <2>1
      <4>. QED
        BY <2>3, <4>1, StopMakes, Zenon
    <3>. QED
      BY <2>1, <3>2, <3>3, <3>4, <3>5, Zenon
  <2>. QED
    BY <2>2, <2>3
<1>. QED
  BY <1>1, <1>2

(* What is a frame for the parser: bytes h to d of the buffer. *)
FrameAt(frame, buf, h, d) ==
  /\ h \in Nat /\ d \in Nat /\ 1 <= h /\ h + 6 <= d /\ d <= Len(buf)
  /\ d = h + buf[h + 4] + 6
  /\ buf[h] = 126 /\ buf[h + 1] = 126
  /\ buf[d - 1] = 10 /\ buf[d] = 13
  /\ frame \in Seq(Int) /\ Len(frame) = d - h + 1
  /\ \A i \in 1 .. d - h + 1 : frame[i] = buf[h + i - 1]

(* Before byte k no head begins. *)
Headless(buf, k) == \A j \in 1 .. k - 1 : buf[j] # 126 \/ buf[j + 1] # 126

(* The first head. *)
FirstAt(buf, h) ==
  /\ h \in Nat /\ 1 <= h /\ h + 1 <= Len(buf)
  /\ buf[h] = 126 /\ buf[h + 1] = 126
  /\ Headless(buf, h)

(* The frame that begins there has not come whole; or has no stop. *)
Unfinished(buf, h) == Len(buf) < h + 4 \/ Len(buf) < h + buf[h + 4] + 6

BadFrame(buf, h) ==
  /\ h + 4 <= Len(buf) /\ h + buf[h + 4] + 6 <= Len(buf)
  /\ ~(buf[h + buf[h + 4] + 5] = 10 /\ buf[h + buf[h + 4] + 6] = 13)

(* How the parser gives up the first d bytes of its buffer and no frame. *)
Skips(buf, d) ==
  \/ /\ Headless(buf, Len(buf))
     /\ d = IF Len(buf) > 1 THEN Len(buf) - 1 ELSE 0
  \/ \E h \in Nat : FirstAt(buf, h) /\ d = h - 1 /\ Unfinished(buf, h)
  \/ \E h \in Nat : FirstAt(buf, h) /\ d = h + 1 /\ BadFrame(buf, h)

(* The parser gives up bytes at the front of its buffer; with a frame, the   *)
(* bytes up to the end of that.                                              *)
LEMMA Extracted ==
  ASSUME NEW buf, buf \in Seq(Int), \A i \in 1 .. Len(buf) : buf[i] >= 0
  PROVE  \E d \in Nat :
           /\ IsRest(TryExtractOne(buf).buf, buf, d)
           /\ \/ TryExtractOne(buf).frame = NoFrame /\ Skips(buf, d)
              \/ \E h \in Nat : FirstAt(buf, h) /\ FrameAt(TryExtractOne(buf).frame, buf, h, d)
<1>1. Len(buf) \in Nat
  OBVIOUS
<1>2. CASE HeadsIn(buf) = {}
  <2>1. TryExtractOne(buf) = [buf |-> WithoutHead(buf), frame |-> NoFrame]
    BY <1>2, Zenon DEF TryExtractOne
  <2>2. TryExtractOne(buf).buf = WithoutHead(buf) /\ TryExtractOne(buf).frame = NoFrame
    BY <2>1
  <2>3. Headless(buf, Len(buf))
    BY <1>2, Zenon DEF Headless, HeadsIn, HEAD
  <2>4. CASE Len(buf) > 1
    <3> DEFINE d == Len(buf) - 1
    <3>1. d \in Nat /\ d <= Len(buf) /\ d + 1 = Len(buf)
      BY <1>1, <2>4
    <3>2. IsRest(From(buf, d + 1), buf, d)
      BY <3>1, RestIs, Zenon
    <3>3. WithoutHead(buf) = From(buf, d + 1)
      BY <2>4, <3>1, Zenon DEF WithoutHead
    <3>4. Skips(buf, d)
      BY <2>3, <2>4, Zenon DEF Skips
    <3>. QED
      BY <2>2, <3>1, <3>2, <3>3, <3>4, Zenon
  <2>5. CASE ~(Len(buf) > 1)
    <3>1. WithoutHead(buf) = buf
      BY <2>5, Zenon DEF WithoutHead
    <3>2. 0 \in Nat /\ IsRest(buf, buf, 0)
      BY AllIsRest
    <3>3. Skips(buf, 0)
      BY <2>3, <2>5, Zenon DEF Skips
    <3>. QED
      BY <2>2, <3>1, <3>2, <3>3, Zenon
  <2>. QED
    BY <2>4, <2>5
<1>3. CASE HeadsIn(buf) # {}
  <2> DEFINE h == FirstHead(buf)
             g == h - 1
             b == From(buf, h)
  <2>1. h \in Nat /\ 1 <= h /\ h + 1 <= Len(buf)
    BY <1>1, <1>3, FirstHeadIs
  <2>2. buf[h] = 126 /\ buf[h + 1] = 126
    BY <1>3, FirstHeadIs
  <2>3. TryExtractOne(buf) = FindAtHead(b)
    BY <1>3, Zenon DEF TryExtractOne
  <2>4. Headless(buf, h)
    <3> SUFFICES ASSUME NEW j, j \in 1 .. h - 1, buf[j] = 126, buf[j + 1] = 126 PROVE FALSE
      BY DEF Headless
    <3>1. \A i \in HeadsIn(buf) : h <= i
      BY <1>3, FirstHeadIs
    <3> HIDE DEF h
    <3>2. j \in 1 .. Len(buf) - 1 /\ ~(h <= j)
      BY <1>1, <2>1
    <3>3. j \in HeadsIn(buf)
      BY <3>2 DEF HeadsIn, HEAD
    <3>. QED
      BY <3>1, <3>2, <3>3
  <2> HIDE DEF h
  <2>5. FirstAt(buf, h)
    BY <2>1, <2>2, <2>4, Zenon DEF FirstAt
  <2>6. g \in Nat /\ g <= Len(buf) /\ g + 1 = h
    BY <1>1, <2>1
  <2> HIDE DEF g
  <2>7. IsRest(b, buf, g)
    <3>1. IsRest(From(buf, g + 1), buf, g)
      BY <2>6, RestIs, Zenon
    <3>. QED
      BY <2>6, <3>1, Zenon
  <2> HIDE DEF b
  <2>8. /\ b \in Seq(Int) /\ Len(b) = Len(buf) - g
        /\ \A i \in 1 .. Len(buf) - g : b[i] = buf[g + i]
    BY <2>7 DEF IsRest
  <2>9. ASSUME NEW i, i \in 1 .. Len(b) PROVE b[i] >= 0
    <3>1. g + i \in 1 .. Len(buf) /\ i \in 1 .. Len(buf) - g
      BY <1>1, <2>6, <2>8, <2>9
    <3>. QED
      BY <2>8, <3>1
  <2>10. PICK d \in Nat :
          /\ IsRest(FindAtHead(b).buf, b, d)
          /\ \/ /\ FindAtHead(b).frame = NoFrame
                /\ d = 0
                /\ Len(b) < 5 \/ Len(b) < b[5] + 7
             \/ /\ FindAtHead(b).frame = NoFrame
                /\ d = 2
                /\ Len(b) >= 5
                /\ \E t \in Nat : /\ t = b[5] + 7 /\ t <= Len(b)
                                 /\ ~(b[t - 1] = 10 /\ b[t] = 13)
             \/ /\ d >= 7 /\ d = b[5] + 7
                /\ b[d - 1] = 10 /\ b[d] = 13
                /\ FindAtHead(b).frame = SubSeq(b, 1, d)
    BY <2>8, <2>9, AtHead
  <2> DEFINE e == g + d
  <2>11. e \in Nat
    BY <2>6
  <2>12. IsRest(FindAtHead(b).buf, buf, e)
    BY <2>7, <2>10, RestOfRest, Zenon
  <2> DEFINE v == buf[h + 4]
             l == Len(buf)
             m == Len(b)
  <2>13. m = l - g /\ l \in Nat /\ m \in Nat
    BY <1>1, <2>8
  <2>14. ASSUME NEW i, i \in Int, 1 <= i, i <= m
         PROVE  b[i] = buf[h + i - 1] /\ buf[h + i - 1] \in Nat
    <3> HIDE DEF l, m
    <3>1. i \in 1 .. l - g /\ g + i = h + i - 1 /\ i \in 1 .. m
      BY <2>6, <2>13, <2>14
    <3>2. b[i] = buf[g + i] /\ b[i] >= 0 /\ b[i] \in Int
      BY <2>8, <2>9, <3>1 DEF l, m
    <3>. QED
      BY <3>1, <3>2
  <2>15. ASSUME m >= 5 PROVE b[5] = v /\ v \in Nat /\ h + 5 - 1 = h + 4
    <3> HIDE DEF m
    <3>1. h + 5 - 1 = h + 4
      BY <2>1
    <3>2. b[5] = buf[h + 5 - 1] /\ buf[h + 5 - 1] \in Nat
      BY <2>13, <2>14, <2>15
    <3>. QED
      BY <3>1, <3>2, Zenon
  <2> HIDE DEF v, l, m
  <2>16. CASE FindAtHead(b).frame = NoFrame /\ d = 0 /\ (Len(b) < 5 \/ Len(b) < b[5] + 7)
    <3>1. l < h + 4 \/ l < h + v + 6
      <4>1. CASE m < 5
        BY <2>1, <2>6, <2>13, <4>1
      <4>2. CASE m >= 5 /\ m < v + 7
        <5>1. v \in Nat
          BY <2>15, <4>2
        <5>. QED
          BY <2>1, <2>6, <2>13, <4>2, <5>1
      <4>3. m < 5 \/ (m >= 5 /\ m < v + 7)
        <5>1. m < 5 \/ m >= 5
          BY <2>13
        <5>. QED
          BY <2>15, <2>16, <5>1, Zenon DEF m
      <4>. QED
        BY <4>1, <4>2, <4>3
    <3>2. e = h - 1
      BY <2>6, <2>16
    <3>3. Unfinished(buf, h)
      BY <3>1, Zenon DEF Unfinished, l, v
    <3>4. Skips(buf, e)
      BY <2>1, <2>5, <3>2, <3>3, Zenon DEF Skips
    <3>. QED
      BY <2>3, <2>11, <2>12, <2>16, <3>4, Zenon
  <2>17. CASE /\ FindAtHead(b).frame = NoFrame /\ d = 2
              /\ Len(b) >= 5
              /\ \E t \in Nat : /\ t = b[5] + 7 /\ t <= Len(b)
                               /\ ~(b[t - 1] = 10 /\ b[t] = 13)
    <3>1. m >= 5
      BY <2>17, Zenon DEF m
    <3>2. b[5] = v /\ v \in Nat
      BY <2>15, <3>1
    <3>3. PICK t \in Nat : t = b[5] + 7 /\ t <= m /\ ~(b[t - 1] = 10 /\ b[t] = 13)
      BY <2>17, Zenon DEF m
    <3>4. t = v + 7
      BY <3>2, <3>3, Zenon
    <3>5. h + 4 <= l /\ h + v + 6 <= l
      BY <2>1, <2>6, <2>13, <3>1, <3>2, <3>3, <3>4
    <3>6. h + (t - 1) - 1 = h + v + 5 /\ h + t - 1 = h + v + 6
      BY <2>1, <3>2, <3>4
    <3>7. b[t - 1] = buf[h + (t - 1) - 1]
      <4>1. t - 1 \in Int /\ 1 <= t - 1 /\ t - 1 <= m
        BY <2>13, <3>2, <3>3, <3>4
      <4>. QED
        BY <2>14, <4>1, Zenon
    <3>8. b[t] = buf[h + t - 1]
      <4>1. t \in Int /\ 1 <= t
        BY <3>2, <3>4
      <4>. QED
        BY <2>14, <3>3, <4>1, Zenon
    <3>9. ~(buf[h + v + 5] = 10 /\ buf[h + v + 6] = 13)
      BY <3>3, <3>6, <3>7, <3>8, Zenon
    <3>10. BadFrame(buf, h)
      BY <3>5, <3>9, Zenon DEF BadFrame, l, v
    <3>11. e = h + 1
      BY <2>6, <2>17
    <3>12. Skips(buf, e)
      BY <2>1, <2>5, <3>10, <3>11, Zenon DEF Skips
    <3>. QED
      BY <2>3, <2>11, <2>12, <2>17, <3>12, Zenon
  <2>18. CASE /\ d >= 7 /\ d = b[5] + 7
              /\ b[d - 1] = 10 /\ b[d] = 13
              /\ FindAtHead(b).frame = SubSeq(b, 1, d)
    <3> DEFINE frame == SubSeq(b, 1, d)
    <3>1. d >= 7 /\ b[d - 1] = 10 /\ b[d] = 13
            /\ FindAtHead(b).frame = frame
      BY <2>18
    <3>2. d = b[5] + 7
      BY <2>18
    <3>3. d <= m
      BY <2>10 DEF IsRest, m
    <3>4. /\ frame \in Seq(Int) /\ Len(frame) = d
          /\ \A i \in 1 .. d : frame[i] = b[i]
      BY <2>8, <3>3, FrontIs DEF m
    <3> HIDE DEF frame
    <3>5. /\ h + 6 <= e /\ e <= l /\ e - h + 1 = d
      BY <2>1, <2>6, <2>13, <3>1, <3>3
    <3>6. ASSUME NEW i, i \in 1 .. d PROVE b[i] = buf[h + i - 1]
      <4>1. i \in Int /\ 1 <= i /\ i <= m
        BY <2>13, <3>3, <3>6
      <4>. QED
        BY <2>14, <4>1, Zenon
    <3>7. /\ buf[e - 1] = 10 /\ buf[e] = 13
      <4>1. d - 1 \in 1 .. d /\ d \in 1 .. d
        BY <3>1
      <4>2. h + (d - 1) - 1 = e - 1 /\ h + d - 1 = e
        BY <2>6
      <4>3. b[d - 1] = buf[h + (d - 1) - 1] /\ b[d] = buf[h + d - 1]
        BY <3>6, <4>1
      <4>. QED
        BY <3>1, <4>2, <4>3
    <3>8. e = h + v + 6
      <4>1. m >= 5
        BY <2>13, <3>1, <3>3
      <4>2. b[5] = v /\ v \in Nat
        BY <2>15, <4>1
      <4>3. d = v + 7
        BY <3>2, <4>2, Zenon
      <4>. QED
        BY <2>6, <4>2, <4>3
    <3>9. \A i \in 1 .. d : frame[i] = buf[h + i - 1]
      BY <3>4, <3>6
    <3> HIDE DEF e
    <3>10. FrameAt(frame, buf, h, e)
      <4>1. frame \in Seq(Int) /\ Len(frame) = e - h + 1
        BY <3>4, <3>5
      <4>2. \A i \in 1 .. e - h + 1 : frame[i] = buf[h + i - 1]
        BY <3>5, <3>9
      <4>. QED
        BY <2>1, <2>2, <2>11, <3>5, <3>7, <3>8, <4>1, <4>2, Zenon DEF FrameAt, l, v
    <3>11. FrameAt(TryExtractOne(buf).frame, buf, h, e)
      BY <2>3, <3>1, <3>10, Zenon
    <3>12. IsRest(TryExtractOne(buf).buf, buf, e)
      BY <2>3, <2>12, Zenon DEF e
    <3>. QED
      BY <2>1, <2>5, <2>11, <3>11, <3>12, Zenon
  <2>. QED
    BY <2>10, <2>16, <2>17, <2>18, Zenon
<1>. QED
  BY <1>2, <1>3

-----------------------------------------------------------------------------
(* A sequence of bytes is a stretch of the line: it begins behind place b. *)
Holds(P, n, b, s) ==
  /\ s \in Seq(Int)
  /\ b \in Nat /\ b + Len(s) <= n
  /\ \A i \in 1 .. Len(s) : s[i] = Byte(P[b + i])

(* A rest of a stretch is one, further on. *)
LEMMA HoldsRest ==
  ASSUME NEW P, NEW n, NEW b, NEW s, NEW t, NEW d, Holds(P, n, b, s), IsRest(t, s, d)
  PROVE  Holds(P, n, b + d, t)
<1>1. /\ s \in Seq(Int) /\ b \in Nat /\ b + Len(s) <= n
      /\ \A i \in 1 .. Len(s) : s[i] = Byte(P[b + i])
  BY DEF Holds
<1>2. /\ Len(s) \in Nat /\ d \in Nat /\ d <= Len(s)
      /\ t \in Seq(Int) /\ Len(t) = Len(s) - d
      /\ \A i \in 1 .. Len(s) - d : t[i] = s[d + i]
  BY <1>1 DEF IsRest
<1>3. ASSUME NEW i, i \in 1 .. Len(s) - d PROVE t[i] = Byte(P[(b + d) + i])
  <2> DEFINE l == Len(s)
  <2>1. l \in Nat /\ d \in Nat /\ d <= l /\ i \in 1 .. l - d /\ b \in Nat
    BY <1>1, <1>2, <1>3
  <2> HIDE DEF l
  <2>2. d + i \in 1 .. l /\ b + (d + i) = (b + d) + i
    BY <2>1
  <2>3. t[i] = s[d + i] /\ s[d + i] = Byte(P[b + (d + i)])
    BY <1>1, <1>2, <1>3, <2>2 DEF l
  <2>. QED
    BY <2>2, <2>3, Zenon
<1>4. b + d \in Nat /\ (b + d) + Len(t) = b + Len(s)
  BY <1>1, <1>2
<1>. QED
  BY <1>1, <1>2, <1>3, <1>4 DEF Holds

(* So is its front. *)
LEMMA HoldsFront ==
  ASSUME NEW P, NEW n, NEW b, NEW s, NEW d, n \in Nat, Holds(P, n, b, s), d \in Nat, d <= Len(s)
  PROVE  Holds(P, n, b, SubSeq(s, 1, d))
<1> DEFINE t == SubSeq(s, 1, d)
<1>1. /\ s \in Seq(Int) /\ b \in Nat /\ b + Len(s) <= n
      /\ \A i \in 1 .. Len(s) : s[i] = Byte(P[b + i])
  BY DEF Holds
<1>2. t \in Seq(Int) /\ Len(t) = d /\ \A i \in 1 .. d : t[i] = s[i]
  BY <1>1, FrontIs
<1> HIDE DEF t
<1>3. Len(s) \in Nat /\ b + Len(t) <= n
  BY <1>1, <1>2
<1>4. \A i \in 1 .. Len(t) : i \in 1 .. Len(s)
  BY <1>1, <1>2, <1>3
<1>5. \A i \in 1 .. Len(t) : t[i] = Byte(P[b + i])
  BY <1>1, <1>2, <1>4
<1>6. Holds(P, n, b, t)
  BY <1>1, <1>2, <1>3, <1>5 DEF Holds
<1>. QED
  BY <1>6 DEF t

(* Two stretches, one behind the other, are one. *)
LEMMA HoldsJoined ==
  ASSUME NEW P, NEW n, NEW b, NEW s, NEW t, Holds(P, n, b, s), Holds(P, n, b + Len(s), t)
  PROVE  Holds(P, n, b, s \o t) /\ Len(s \o t) = Len(s) + Len(t)
<1> DEFINE u == s \o t
<1>1. /\ s \in Seq(Int) /\ b \in Nat /\ Len(s) \in Nat
      /\ \A i \in 1 .. Len(s) : s[i] = Byte(P[b + i])
      /\ t \in Seq(Int) /\ b + Len(s) + Len(t) <= n /\ Len(t) \in Nat
      /\ \A i \in 1 .. Len(t) : t[i] = Byte(P[(b + Len(s)) + i])
  BY DEF Holds
<1>2. /\ u \in Seq(Int)
      /\ Len(u) = Len(s) + Len(t)
      /\ \A i \in 1 .. Len(s) : u[i] = s[i]
      /\ \A i \in 1 .. Len(t) : u[Len(s) + i] = t[i]
  BY <1>1, Joined
<1> HIDE DEF u
<1>3. ASSUME NEW i, i \in 1 .. Len(u) PROVE u[i] = Byte(P[b + i])
  <2>1. CASE i \in 1 .. Len(s)
    BY <1>1, <1>2, <2>1
  <2>2. CASE i \notin 1 .. Len(s)
    <3> DEFINE j == i - Len(s)
    <3>1. j \in 1 .. Len(t) /\ Len(s) + j = i /\ (b + Len(s)) + j = b + i
      BY <1>1, <1>2, <1>3, <2>2
    <3> HIDE DEF j
    <3>2. u[Len(s) + j] = t[j] /\ t[j] = Byte(P[(b + Len(s)) + j])
      BY <1>1, <1>2, <3>1
    <3>. QED
      BY <3>1, <3>2, Zenon
  <2>. QED
    BY <2>1, <2>2
<1>4. b + Len(u) = b + Len(s) + Len(t)
  BY <1>1, <1>2
<1>5. Holds(P, n, b, u)
  BY <1>1, <1>2, <1>3, <1>4 DEF Holds
<1>. QED
  BY <1>2, <1>5 DEF u

(* What a byte of a stretch is. *)
LEMMA HoldsByte ==
  ASSUME NEW P, NEW n, NEW b, NEW s, Marked(P, n), Holds(P, n, b, s), NEW i, i \in 1 .. Len(s)
  PROVE  b + i \in 1 .. n /\ s[i] = Byte(P[b + i]) /\ s[i] \in Nat
<1>1. n \in Nat
  BY DEF Marked
<1>2. b \in Nat /\ Len(s) \in Nat /\ b + Len(s) <= n /\ s[i] = Byte(P[b + i])
  BY DEF Holds
<1>3. b + i \in 1 .. n
  BY <1>1, <1>2
<1>4. Byte(P[b + i]) \in Nat
  BY <1>3, MarkedByte
<1>. QED
  BY <1>2, <1>3, <1>4

(* Here a piece begins that is a whole command. *)
Whole(P, x) == P[x].off = 1 /\ P[x].size = Size(P[x])

(* The bytes of a whole command are those of its frame. *)
LEMMA WholeBytes ==
  ASSUME NEW P, NEW n, Marked(P, n), NEW x, x \in 1 .. n, Whole(P, x)
  PROVE  \A i \in 1 .. Size(P[x]) : Byte(P[x + i - 1]) = Bytes(P[x].cmd)[i]
<1> SUFFICES ASSUME NEW i, i \in 1 .. Size(P[x])
             PROVE  Byte(P[x + i - 1]) = Bytes(P[x].cmd)[i]
  OBVIOUS
<1>1. P[x].off = 1 /\ P[x].size = Size(P[x]) /\ Size(P[x]) \in {8, 12}
  BY MarkedByte DEF Whole
<1> DEFINE d == i - 1
<1>2. /\ d \in Int /\ 1 <= P[x].off + d /\ P[x].off + d <= P[x].size
      /\ x + d = x + i - 1 /\ P[x].off + d = i
  BY <1>1
<1> HIDE DEF d
<1>3. x + d \in 1 .. n /\ P[x + d].off = P[x].off + d /\ P[x + d].cmd = P[x].cmd
  BY <1>2, InPiece
<1>. QED
  BY <1>2, <1>3, Zenon DEF Byte

(* A frame that the parser takes for a command is one that was sent. *)
LEMMA FoundWasSent ==
  ASSUME NEW P, NEW n, NEW b, NEW buf, NEW frame, NEW h, NEW d, Marked(P, n),
         Holds(P, n, b, buf), Len(buf) <= PARSE_BUF_SIZE, FrameAt(frame, buf, h, d), IsCommand(frame)
  PROVE  /\ b + h \in 1 .. n /\ Whole(P, b + h)
         /\ d = h + Size(P[b + h]) - 1
         /\ frame = Bytes(P[b + h].cmd)
<1> DEFINE x == b + h
<1>1. n \in Nat /\ b \in Nat /\ Len(buf) \in Nat /\ b + Len(buf) <= n /\ buf \in Seq(Int)
  BY DEF Marked, Holds
<1>2. h \in Nat /\ d \in Nat /\ 1 <= h /\ h + 6 <= d /\ d <= Len(buf)
  BY DEF FrameAt
<1>3. /\ buf[h] = 126 /\ buf[h + 1] = 126
      /\ buf[d - 1] = 10 /\ buf[d] = 13
      /\ frame \in Seq(Int) /\ Len(frame) = d - h + 1
      /\ \A i \in 1 .. d - h + 1 : frame[i] = buf[h + i - 1]
  BY DEF FrameAt
<1>4. d = h + buf[h + 4] + 6
  BY DEF FrameAt
<1>5. /\ x \in Nat /\ 1 <= x /\ x + 4 <= n /\ x + 2 <= n /\ x \in 1 .. n
      /\ h \in 1 .. Len(buf) /\ h + 1 \in 1 .. Len(buf) /\ h + 2 \in 1 .. Len(buf)
      /\ h + 4 \in 1 .. Len(buf) /\ d - 1 \in 1 .. Len(buf) /\ d \in 1 .. Len(buf)
  BY <1>1, <1>2
<1>6. b + h = x /\ b + (h + 1) = x + 1 /\ b + (h + 2) = x + 2 /\ b + (h + 4) = x + 4
  BY <1>1, <1>2
<1>7. \A i \in 1 .. Len(buf) : buf[i] = Byte(P[b + i])
  BY DEF Holds
<1>8. buf[h + 2] # 126
  <2>1. 3 \in 1 .. d - h + 1 /\ h + 3 - 1 = h + 2
    BY <1>2
  <2>2. frame[3] = buf[h + 3 - 1]
    BY <1>3, <2>1
  <2>3. frame[3] = 1 \/ frame[3] = 2
    BY DEF IsCommand, OUTPUT_SWITCH, SIGNAL_CONTROL
  <2>. QED
    BY <2>1, <2>2, <2>3
<1> HIDE DEF x
<1>9. /\ buf[h] = Byte(P[x]) /\ buf[h + 1] = Byte(P[x + 1]) /\ buf[h + 2] = Byte(P[x + 2])
      /\ buf[h + 4] = Byte(P[x + 4])
  <2>1. /\ buf[h] = Byte(P[b + h]) /\ buf[h + 1] = Byte(P[b + (h + 1)])
        /\ buf[h + 2] = Byte(P[b + (h + 2)]) /\ buf[h + 4] = Byte(P[b + (h + 4)])
    BY <1>5, <1>7, Zenon
  <2>. QED
    BY <1>6, <2>1, Zenon
<1>10. Byte(P[x]) = 126 /\ Byte(P[x + 1]) = 126 /\ Byte(P[x + 2]) # 126
  BY <1>3, <1>8, <1>9
<1>11. Begins(P, x, 3)
  BY <1>5, <1>10, HeadOfCommand
<1>12. \/ Begins(P, x, 5) /\ Byte(P[x + 4]) = Size(P[x]) - 7
      \/ Byte(P[x + 4]) = 126
  BY <1>5, <1>11, LengthOfCommand, SMTT(30)
<1>13. Begins(P, x, 5) /\ Byte(P[x + 4]) = Size(P[x]) - 7
  <2> SUFFICES ASSUME Byte(P[x + 4]) = 126 PROVE FALSE
    BY <1>12
  <2>1. buf[h + 4] = 126
    BY <1>9
  <2>2. PARSE_BUF_SIZE \in Nat /\ PARSE_BUF_SIZE <= 132
    BY FramesAssumption
  <2>3. d >= h + 132
    BY <1>2, <1>4, <2>1
  <2>. QED
    BY <1>1, <1>2, <2>2, <2>3
<1> DEFINE z == Size(P[x])
           t == x + z - 1
<1>14. z \in {8, 12} /\ P[x].size \in Nat
  BY <1>5, MarkedByte, SMTT(30)
<1>15. buf[h + 4] = z - 7
  BY <1>9, <1>13, Zenon
<1> HIDE DEF z
<1>16. d = h + z - 1
  BY <1>2, <1>4, <1>14, <1>15
<1>17. t \in 1 .. n /\ t <= n /\ b + d = t /\ b + (d - 1) = t - 1
  BY <1>1, <1>2, <1>14, <1>16 DEF x
<1>18. Byte(P[t - 1]) = 10 /\ Byte(P[t]) = 13
  <2>1. buf[d - 1] = Byte(P[b + (d - 1)]) /\ buf[d] = Byte(P[b + d])
    BY <1>5, <1>7, Zenon
  <2>. QED
    BY <1>3, <1>17, <2>1
<1>19. P[x].size = z
  <2>1. t = x + Size(P[x]) - 1
    BY DEF z
  <2> HIDE DEF t
  <2>2. P[x].size = Size(P[x])
    BY <1>5, <1>13, <1>17, <1>18, <2>1, StopOfCommand
  <2>. QED
    BY <2>2 DEF z
<1>20. Whole(P, x)
  BY <1>11, <1>19 DEF Whole, Begins, z
<1> DEFINE f == Bytes(P[x].cmd)
<1>21. f \in Seq(Int) /\ Len(f) = z
  <2>1. Command(f)
    BY <1>5, MarkedByte
  <2>. QED
    BY <2>1 DEF Command, Size, z
<1>22. ASSUME NEW i, i \in 1 .. z PROVE frame[i] = f[i]
  <2>1. /\ i \in 1 .. d - h + 1 /\ h + i - 1 \in 1 .. Len(buf)
        /\ b + (h + i - 1) = x + i - 1
    <3>1. z \in Nat /\ h + z - 1 = d
      BY <1>2, <1>14, <1>16
    <3>2. i \in Nat /\ 1 <= i /\ i <= z
      BY <1>22, <3>1
    <3>3. i <= d - h + 1 /\ h + i - 1 <= d
      BY <1>2, <3>1, <3>2
    <3>. QED
      BY <1>1, <1>2, <3>2, <3>3 DEF x
  <2>2. frame[i] = buf[h + i - 1]
    BY <1>3, <2>1
  <2>3. buf[h + i - 1] = Byte(P[b + (h + i - 1)])
    BY <2>1, <1>7, Zenon
  <2>4. Byte(P[x + i - 1]) = f[i]
    <3>1. \A j \in 1 .. Size(P[x]) : Byte(P[x + j - 1]) = Bytes(P[x].cmd)[j]
      BY <1>5, <1>20, WholeBytes
    <3>. QED
      BY <1>22, <3>1, Zenon DEF z
  <2>. QED
    BY <2>1, <2>2, <2>3, <2>4, Zenon
<1>23. frame = f
  <2>1. Len(frame) = z
    BY <1>3, <1>2, <1>16, <1>14
  <2> HIDE DEF f
  <2>. QED
    BY <1>3, <1>21, <1>22, <2>1, SameParts
<1>. QED
  BY <1>5, <1>16, <1>20, <1>23, Zenon DEF x, z, f

-----------------------------------------------------------------------------
(* A line on which nothing was ever cut off: every piece is a command, and   *)
(* they are numbered from one.  Count is how many there are up to a place.   *)
Count(P, x) == IF x = 0 THEN 0 ELSE P[x].no

AllSent(P, n) ==
  \A x \in 1 .. n : /\ P[x].size = Size(P[x])
                    /\ P[x].off = 1 => P[x].no = Count(P, x - 1) + 1

(* Behind this place a piece begins, if any. *)
Aligned(P, b) == b = 0 \/ P[b].off = P[b].size

(* Behind the end of a piece begins the next. *)
LEMMA NextBegins ==
  ASSUME NEW P, NEW n, Marked(P, n), NEW b, b \in Nat, b + 1 <= n, Aligned(P, b)
  PROVE  b + 1 \in 1 .. n /\ P[b + 1].off = 1
<1>1. n \in Nat /\ b + 1 \in 1 .. n
  BY DEF Marked
<1>2. CASE b = 0
  <2>1. 1 \in 1 .. n /\ P[1].off \in Nat /\ 1 <= P[1].off /\ P[1].off <= P[1].size /\ P[1].size \in Nat
    BY <1>1, <1>2, MarkedByte
  <2> DEFINE d == 1 - P[1].off
  <2>2. d \in Int /\ 1 <= P[1].off + d /\ P[1].off + d <= P[1].size /\ 1 + d = 2 - P[1].off
    BY <2>1
  <2> HIDE DEF d
  <2>3. 1 + d \in 1 .. n
    BY <2>1, <2>2, InPiece
  <2>4. P[1].off = 1
    BY <1>1, <2>1, <2>2, <2>3
  <2>. QED
    BY <1>1, <1>2, <2>4
<1>3. CASE b # 0
  <2>1. b \in 1 .. n /\ P[b].off = P[b].size
    BY <1>1, <1>3 DEF Aligned
  <2>. QED
    BY <1>1, <2>1 DEF Marked
<1>. QED
  BY <1>2, <1>3

(* On a line without a cut it is a whole command, numbered one higher. *)
LEMMA NextWhole ==
  ASSUME NEW P, NEW n, Marked(P, n), AllSent(P, n), NEW b, b \in Nat, b + 1 <= n, Aligned(P, b)
  PROVE  /\ b + 1 \in 1 .. n
         /\ Whole(P, b + 1)
         /\ b + Size(P[b + 1]) <= n
         /\ Aligned(P, b + Size(P[b + 1]))
         /\ P[b + 1].no = Count(P, b) + 1
         /\ Count(P, b + Size(P[b + 1])) = P[b + 1].no
<1> DEFINE x == b + 1
           z == Size(P[x])
<1>1. x \in 1 .. n /\ P[x].off = 1
  BY NextBegins
<1>2. P[x].size = z /\ P[x].no = Count(P, b) + 1
  <2>1. x - 1 = b
    OBVIOUS
  <2>2. P[x].size = z /\ P[x].no = Count(P, x - 1) + 1
    BY <1>1 DEF AllSent
  <2>. QED
    BY <2>1, <2>2, Zenon
<1>3. z \in {8, 12}
  BY <1>1, MarkedByte
<1> HIDE DEF x, z
<1> DEFINE d == z - 1
           y == x + d
<1>4. d \in Int /\ 1 <= P[x].off + d /\ P[x].off + d <= P[x].size /\ P[x].off + d = z
  BY <1>1, <1>2, <1>3
<1>5. y \in 1 .. n /\ P[y].off = P[x].off + d /\ P[y].size = P[x].size /\ P[y].no = P[x].no
  BY <1>1, <1>4, InPiece
<1>6. y = b + z /\ y # 0 /\ n \in Nat /\ y <= n
  BY <1>3, <1>5 DEF x, Marked
<1> HIDE DEF d, y
<1>7. Aligned(P, y)
  BY <1>2, <1>4, <1>5 DEF Aligned
<1>8. Count(P, y) = P[x].no
  BY <1>5, <1>6 DEF Count
<1>9. Whole(P, x)
  BY <1>1, <1>2 DEF Whole, z
<1>. QED
  BY <1>1, <1>2, <1>6, <1>7, <1>8, <1>9, Zenon DEF x, z

(* Less than a frame. *)
Short(P, b, buf) == Len(buf) = 0 \/ Len(buf) < Size(P[b + 1])

(* What the buffer holds of the next command. *)
LEMMA NextBytes ==
  ASSUME NEW P, NEW n, Marked(P, n), NEW b, NEW buf, Holds(P, n, b, buf),
         b + 1 \in 1 .. n, Whole(P, b + 1), NEW i, i \in 1 .. Len(buf), i <= Size(P[b + 1])
  PROVE  buf[i] = Bytes(P[b + 1].cmd)[i]
<1>1. Size(P[b + 1]) \in {8, 12}
  BY MarkedByte
<1>2. b \in Nat /\ i \in Nat /\ 1 <= i
  BY DEF Holds
<1>3. i \in 1 .. Size(P[b + 1]) /\ (b + 1) + i - 1 = b + i
  BY <1>1, <1>2
<1>4. Byte(P[(b + 1) + i - 1]) = Bytes(P[b + 1].cmd)[i]
  <2>1. \A j \in 1 .. Size(P[b + 1]) : Byte(P[(b + 1) + j - 1]) = Bytes(P[b + 1].cmd)[j]
    BY WholeBytes
  <2>. QED
    BY <1>3, <2>1, Zenon
<1>5. buf[i] = Byte(P[b + i])
  BY HoldsByte
<1>. QED
  BY <1>3, <1>4, <1>5, Zenon

(* A buffer that begins with a command has its first head there. *)
LEMMA HeadIsFirst ==
  ASSUME NEW P, NEW n, Marked(P, n), NEW b, NEW buf, Holds(P, n, b, buf),
         b + 1 \in 1 .. n, Whole(P, b + 1), Len(buf) >= 2
  PROVE  TryExtractOne(buf) = FindAtHead(buf)
<1> DEFINE f == Bytes(P[b + 1].cmd)
<1>1. Command(f) /\ Size(P[b + 1]) \in {8, 12}
  BY MarkedByte
<1>2. buf \in Seq(Int) /\ Len(buf) \in Nat
  BY DEF Holds
<1>3. 1 \in 1 .. Len(buf) /\ 2 \in 1 .. Len(buf) /\ 1 <= Size(P[b + 1]) /\ 2 <= Size(P[b + 1])
  BY <1>1, <1>2
<1>4. buf[1] = f[1] /\ buf[2] = f[2]
  BY <1>3, NextBytes
<1> HIDE DEF f
<1>5. f[1] = 126 /\ f[2] = 126
  BY <1>1 DEF Command
<1>6. 1 \in HeadsIn(buf)
  BY <1>2, <1>4, <1>5 DEF HeadsIn, HEAD
<1>7. FirstHead(buf) = 1
  <2>1. FirstHead(buf) \in 1 .. Len(buf) - 1 /\ FirstHead(buf) <= 1
    BY <1>2, <1>6, FirstHeadIs
  <2>. QED
    BY <1>2, <2>1
<1>8. From(buf, 1) = buf
  BY <1>2, FromOne
<1>. QED
  BY <1>6, <1>7, <1>8, Zenon DEF TryExtractOne

(* The parser waits for the rest of a frame. *)
LEMMA ShortWaits ==
  ASSUME NEW P, NEW n, Marked(P, n), AllSent(P, n), NEW b, NEW buf, Holds(P, n, b, buf),
         Aligned(P, b), Short(P, b, buf)
  PROVE  TryExtractOne(buf) = [buf |-> buf, frame |-> NoFrame]
<1>1. buf \in Seq(Int) /\ Len(buf) \in Nat /\ b \in Nat /\ n \in Nat /\ b + Len(buf) <= n
  BY DEF Holds, Marked
<1>2. CASE Len(buf) < 2
  <2>1. HeadsIn(buf) = {}
    BY <1>1, <1>2 DEF HeadsIn
  <2>2. WithoutHead(buf) = buf
    BY <1>1, <1>2 DEF WithoutHead
  <2>. QED
    BY <2>1, <2>2, Zenon DEF TryExtractOne
<1>3. CASE Len(buf) >= 2
  <2> DEFINE f == Bytes(P[b + 1].cmd)
  <2>1. b + 1 <= n
    BY <1>1, <1>3
  <2>2. b + 1 \in 1 .. n /\ Whole(P, b + 1)
    BY <1>1, <2>1, NextWhole
  <2>3. TryExtractOne(buf) = FindAtHead(buf)
    BY <1>3, <2>2, HeadIsFirst
  <2>4. Command(f) /\ Size(P[b + 1]) = Len(f)
    BY <2>2, MarkedByte DEF Size
  <2>5. Len(buf) < 5 \/ Len(buf) < 5 + buf[5] + 2
    <3> SUFFICES ASSUME Len(buf) >= 5 PROVE Len(buf) < 5 + buf[5] + 2
      BY <1>1
    <3>1. 5 \in 1 .. Len(buf) /\ Len(f) \in {8, 12} /\ f[5] = Len(f) - 7
      BY <1>1, <2>4, LengthByte
    <3>2. 5 <= Size(P[b + 1])
      BY <2>4, <3>1
    <3>3. buf[5] = f[5]
      BY <2>2, <3>1, <3>2, NextBytes
    <3>4. Len(buf) < Len(f)
      BY <1>3, <2>4 DEF Short
    <3> HIDE DEF f
    <3>. QED
      BY <1>1, <3>1, <3>3, <3>4
  <2>6. FindAtHead(buf) = [buf |-> buf, frame |-> NoFrame]
    BY <2>5, Zenon DEF FindAtHead
  <2>. QED
    BY <2>3, <2>6, Zenon
<1>. QED
  BY <1>1, <1>2, <1>3

(* A whole frame is found. *)
LEMMA WholeIsFound ==
  ASSUME NEW P, NEW n, Marked(P, n), AllSent(P, n), NEW b, NEW buf, Holds(P, n, b, buf),
         Aligned(P, b), ~Short(P, b, buf)
  PROVE  /\ b + 1 \in 1 .. n
         /\ TryExtractOne(buf).frame = Bytes(P[b + 1].cmd)
         /\ IsRest(TryExtractOne(buf).buf, buf, Size(P[b + 1]))
<1> DEFINE f == Bytes(P[b + 1].cmd)
           z == Size(P[b + 1])
<1>1. /\ buf \in Seq(Int) /\ Len(buf) \in Nat /\ b \in Nat /\ n \in Nat
      /\ b + Len(buf) <= n /\ Len(buf) # 0
  BY DEF Holds, Marked, Short
<1>2. b + 1 <= n
  BY <1>1
<1>3. b + 1 \in 1 .. n /\ Whole(P, b + 1)
  BY <1>1, <1>2, NextWhole
<1>4. Command(f) /\ Len(f) = z /\ z \in {8, 12}
  BY <1>3, MarkedByte DEF Size
<1>5. z \in Nat /\ z >= 8 /\ z <= Len(buf) /\ Len(buf) >= 2
  BY <1>1, <1>4 DEF Short
<1>6. TryExtractOne(buf) = FindAtHead(buf)
  BY <1>3, <1>5, HeadIsFirst
<1>7. ASSUME NEW i, i \in 1 .. z PROVE buf[i] = f[i]
  <2>1. i \in 1 .. Len(buf) /\ i <= z
    BY <1>1, <1>5, <1>7
  <2>. QED
    BY <1>3, <2>1, NextBytes
<1> HIDE DEF f, z
<1>8. f[5] = z - 7 /\ f[z - 1] = 10 /\ f[z] = 13 /\ f \in Seq(Int)
  <2>1. f[5] = Len(f) - 7
    BY <1>4, LengthByte
  <2>2. Len(f) - 1 \in 1 .. Len(f) - 1 /\ (Len(f) - 1) + 1 = Len(f) /\ Len(f) \in Nat
    BY <1>4, <1>5
  <2>3. f[Len(f) - 1] = 10 /\ f[Len(f)] = 13
    <3>1. \A i \in 1 .. Len(f) - 1 : f[i] = 10 /\ f[i + 1] = 13 <=> i = Len(f) - 1
      BY <1>4 DEF Command
    <3>2. f[Len(f) - 1] = 10 /\ f[(Len(f) - 1) + 1] = 13
      BY <2>2, <3>1, Zenon
    <3>. QED
      BY <2>2, <3>2, Zenon
  <2>4. f \in Seq(Int)
    BY <1>4 DEF Command
  <2>. QED
    BY <1>4, <2>1, <2>3, <2>4, Zenon
<1> DEFINE total == 5 + buf[5] + 2
<1>9. total = z
  <2>1. buf[5] = f[5]
    BY <1>5, <1>7
  <2>. QED
    BY <1>5, <1>8, <2>1
<1> HIDE DEF total
<1>10. GoodStop(buf, z)
  <2>1. z - 1 \in 1 .. z /\ z \in 1 .. z /\ 2 <= z
    BY <1>5
  <2>2. buf[z - 1] = 10 /\ buf[z] = 13
    BY <1>7, <1>8, <2>1
  <2>3. SubSeq(buf, z - 1, z) = <<buf[z - 1], buf[z]>>
    BY <1>1, <1>5, <2>1, LastTwo
  <2>. QED
    BY <2>2, <2>3, Zenon DEF GoodStop, STOP
<1> DEFINE rest == From(buf, z + 1)
           frame == SubSeq(buf, 1, z)
<1>11. FindAtHead(buf) = [buf |-> rest, frame |-> frame]
  <2>1. ~(Len(buf) < 5 \/ Len(buf) < z)
    BY <1>1, <1>5
  <2>. QED
    BY <1>9, <1>10, <2>1, Zenon DEF FindAtHead, total
<1>12. IsRest(rest, buf, z)
  BY <1>1, <1>5, RestIs
<1>13. frame = f
  <2>1. frame \in Seq(Int) /\ Len(frame) = z /\ \A i \in 1 .. z : frame[i] = buf[i]
    BY <1>1, <1>5, FrontIs
  <2> HIDE DEF frame
  <2>2. \A i \in 1 .. z : frame[i] = f[i]
    BY <1>7, <2>1
  <2>. QED
    BY <1>4, <1>8, <2>1, <2>2, SameParts
<1> HIDE DEF rest, frame
<1>14. FindAtHead(buf).buf = rest /\ FindAtHead(buf).frame = frame
  BY <1>11
<1>. QED
  BY <1>3, <1>6, <1>12, <1>13, <1>14, Zenon DEF f, z

-----------------------------------------------------------------------------
(* What a cut costs.  Every command counts eight bytes, the size of the      *)
(* shortest; every cut is allowed a buffer of bytes.                         *)

(* A byte of a piece that was cut off, and the last such byte. *)
InCut(P, x) == P[x].size # Size(P[x])
CutEnds(P, x) == InCut(P, x) /\ P[x].off = P[x].size

(* What the places up to one come to, at the rate of a for every command     *)
(* that begins there and of d for every cut piece that ends there.           *)
Rate(P, x, a, d) == IF Whole(P, x) THEN a ELSE IF CutEnds(P, x) THEN d ELSE 0
Tallies(f, P, n, a, d) ==
  f = [x \in 0 .. n |-> IF x = 0 THEN 0 ELSE f[x - 1] + Rate(P, x, a, d)]
Tally(P, n, a, d) == CHOOSE f : Tallies(f, P, n, a, d)

(* That sum exists. *)
LEMMA TallyExists ==
  ASSUME NEW P, NEW m, m \in Nat, NEW a, NEW d
  PROVE  Tallies(Tally(P, m, a, d), P, m, a, d)
<1> DEFINE S == {k \in Nat : \E f : Tallies(f, P, k, a, d)}
<1>1. 0 \in S
  <2> DEFINE g == [x \in 0 .. 0 |-> 0]
  <2>1. \A x \in 0 .. 0 : x = 0
    OBVIOUS
  <2>2. g = [x \in 0 .. 0 |-> IF x = 0 THEN 0 ELSE g[x - 1] + Rate(P, x, a, d)]
    BY <2>1, Zenon
  <2>. QED
    BY <2>2, Zenon DEF Tallies
<1>2. ASSUME NEW k \in Nat, k \in S PROVE k + 1 \in S
  <2>1. PICK f : Tallies(f, P, k, a, d)
    BY <1>2
  <2> DEFINE g == [x \in 0 .. k + 1 |->
                     IF x = k + 1 THEN f[k] + Rate(P, k + 1, a, d) ELSE f[x]]
             v(x) == IF x = 0 THEN 0 ELSE g[x - 1] + Rate(P, x, a, d)
  <2>2. \A x \in 0 .. k : f[x] = IF x = 0 THEN 0 ELSE f[x - 1] + Rate(P, x, a, d)
    BY <2>1, Zenon DEF Tallies
  <2>3. ASSUME NEW x, x \in 0 .. k + 1 PROVE g[x] = v(x)
    <3>1. CASE x = k + 1
      <4>1. k \in 0 .. k + 1 /\ k # k + 1 /\ x # 0 /\ x - 1 = k
        BY <3>1
      <4>2. g[k] = f[k] /\ g[x] = f[k] + Rate(P, k + 1, a, d)
        BY <2>3, <3>1, <4>1, Zenon
      <4>. QED
        BY <3>1, <4>1, <4>2, Zenon
    <3>2. CASE x # k + 1
      <4>1. x \in 0 .. k /\ g[x] = f[x]
        BY <2>3, <3>2
      <4>2. CASE x = 0
        BY <2>2, <4>1, <4>2, Zenon
      <4>3. CASE x # 0
        <5>1. x - 1 \in 0 .. k + 1 /\ x - 1 # k + 1
          BY <4>1, <4>3
        <5>2. g[x - 1] = f[x - 1]
          BY <5>1, Zenon
        <5>. QED
          BY <2>2, <4>1, <4>3, <5>2, Zenon
      <4>. QED
        BY <4>2, <4>3
    <3>. QED
      BY <3>1, <3>2
  <2>4. g = [x \in 0 .. k + 1 |-> g[x]]
    OBVIOUS
  <2> HIDE DEF g
  <2>5. g = [x \in 0 .. k + 1 |-> v(x)]
    BY <2>3, <2>4, Zenon
  <2>6. Tallies(g, P, k + 1, a, d)
    BY <2>5, Zenon DEF Tallies
  <2>7. k + 1 \in Nat
    OBVIOUS
  <2>. QED
    BY <2>6, <2>7, Zenon
<1> HIDE DEF S
<1>3. m \in S
  BY <1>1, <1>2, SetInduction
<1>4. \E f : Tallies(f, P, m, a, d)
  BY <1>3, Zenon DEF S
<1>. QED
  BY <1>4, Zenon DEF Tally

(* What it begins with and how it goes on. *)
LEMMA TallyStep ==
  ASSUME NEW P, NEW n, n \in Nat, NEW a, NEW d
  PROVE  /\ Tally(P, n, a, d)[0] = 0
         /\ \A x \in 1 .. n : Tally(P, n, a, d)[x] = Tally(P, n, a, d)[x - 1] + Rate(P, x, a, d)
<1> DEFINE f == Tally(P, n, a, d)
<1>1. Tallies(f, P, n, a, d)
  BY TallyExists
<1> HIDE DEF f
<1>2. \A x \in 0 .. n : f[x] = IF x = 0 THEN 0 ELSE f[x - 1] + Rate(P, x, a, d)
  BY <1>1, Zenon DEF Tallies
<1>3. 0 \in 0 .. n /\ \A x \in 1 .. n : x \in 0 .. n /\ x # 0
  OBVIOUS
<1>4. f[0] = 0 /\ \A x \in 1 .. n : f[x] = f[x - 1] + Rate(P, x, a, d)
  BY <1>2, <1>3, Zenon
<1>. QED
  BY <1>4, Zenon DEF f

(* It is a number. *)
LEMMA TallyNat ==
  ASSUME NEW P, NEW n, n \in Nat, NEW a, a \in Nat, NEW d, d \in Nat
  PROVE  \A x \in 0 .. n : Tally(P, n, a, d)[x] \in Nat
<1> DEFINE f == Tally(P, n, a, d)
           S == {x \in Nat : x <= n => f[x] \in Nat}
<1>1. f[0] = 0 /\ \A x \in 1 .. n : f[x] = f[x - 1] + Rate(P, x, a, d)
  BY TallyStep
<1> HIDE DEF f
<1>2. 0 \in S
  BY <1>1
<1>3. ASSUME NEW x \in Nat, x \in S PROVE x + 1 \in S
  <2> SUFFICES ASSUME x + 1 <= n PROVE f[x + 1] \in Nat
    OBVIOUS
  <2>1. x + 1 \in 1 .. n /\ (x + 1) - 1 = x /\ x <= n
    OBVIOUS
  <2>2. f[x] \in Nat
    BY <1>3, <2>1
  <2> DEFINE r == Rate(P, x + 1, a, d)
  <2>3. r \in Nat
    BY DEF Rate
  <2>4. f[x + 1] = f[x] + r
    BY <1>1, <2>1, Zenon
  <2> HIDE DEF r
  <2>. QED
    BY <2>2, <2>3, <2>4
<1> HIDE DEF S
<1>4. Nat \subseteq S
  BY <1>2, <1>3, SetInduction
<1>5. ASSUME NEW x, x \in 0 .. n PROVE f[x] \in Nat
  <2>1. x \in S /\ x <= n
    BY <1>4, <1>5
  <2>. QED
    BY <2>1 DEF S
<1>. QED
  BY <1>5, Zenon DEF f

(* What comes behind a place does not change what was before it. *)
LEMMA TallyFront ==
  ASSUME NEW P, NEW n, NEW L, NEW m, NEW a, NEW d, n \in Nat, m \in Nat, n <= m,
         \A x \in 1 .. n : L[x] = P[x]
  PROVE  \A x \in 0 .. n : Tally(L, m, a, d)[x] = Tally(P, n, a, d)[x]
<1> DEFINE f == Tally(P, n, a, d)
           g == Tally(L, m, a, d)
           S == {x \in Nat : x <= n => g[x] = f[x]}
<1>1. f[0] = 0 /\ \A x \in 1 .. n : f[x] = f[x - 1] + Rate(P, x, a, d)
  BY TallyStep
<1>2. g[0] = 0 /\ \A x \in 1 .. m : g[x] = g[x - 1] + Rate(L, x, a, d)
  BY TallyStep
<1> HIDE DEF f, g
<1>3. 0 \in S
  BY <1>1, <1>2
<1>4. ASSUME NEW x \in Nat, x \in S PROVE x + 1 \in S
  <2> SUFFICES ASSUME x + 1 <= n PROVE g[x + 1] = f[x + 1]
    OBVIOUS
  <2>1. x + 1 \in 1 .. n /\ x + 1 \in 1 .. m /\ (x + 1) - 1 = x /\ x <= n
    OBVIOUS
  <2>2. g[x] = f[x]
    BY <1>4, <2>1
  <2>3. Rate(L, x + 1, a, d) = Rate(P, x + 1, a, d)
    <3>1. L[x + 1] = P[x + 1]
      BY <2>1
    <3>. QED
      BY <3>1, Zenon DEF Rate, Whole, CutEnds, InCut
  <2>. QED
    BY <1>1, <1>2, <2>1, <2>2, <2>3, Zenon
<1> HIDE DEF S
<1>5. Nat \subseteq S
  BY <1>3, <1>4, SetInduction
<1>6. ASSUME NEW x, x \in 0 .. n PROVE g[x] = f[x]
  <2>1. x \in S /\ x <= n
    BY <1>5, <1>6
  <2>. QED
    BY <2>1 DEF S
<1>. QED
  BY <1>6, Zenon DEF f, g

(* In bytes: eight for every command begun, and a buffer for every cut.      *)
Begun(P, n, x) == Tally(P, n, 8, 0)[x]
Spent(P, n, x) == Tally(P, n, 0, PARSE_BUF_SIZE)[x]

(* They are numbers. *)
LEMMA Sums ==
  ASSUME NEW P, NEW n, Marked(P, n), NEW x, x \in 0 .. n
  PROVE  Begun(P, n, x) \in Nat /\ Spent(P, n, x) \in Nat
<1>1. n \in Nat /\ 8 \in Nat /\ 0 \in Nat /\ PARSE_BUF_SIZE \in Nat
  BY FramesAssumption DEF Marked
<1>2. \A y \in 0 .. n : Tally(P, n, 8, 0)[y] \in Nat
  BY <1>1, TallyNat
<1>3. \A y \in 0 .. n : Tally(P, n, 0, PARSE_BUF_SIZE)[y] \in Nat
  BY <1>1, TallyNat
<1>. QED
  BY <1>2, <1>3, Zenon DEF Begun, Spent

(* How they grow. *)
LEMMA SumsGrow ==
  ASSUME NEW P, NEW n, Marked(P, n), NEW x, x \in 1 .. n
  PROVE  /\ x - 1 \in 0 .. n /\ x \in 0 .. n
         /\ Begun(P, n, x - 1) \in Nat /\ Spent(P, n, x - 1) \in Nat
         /\ Begun(P, n, x) = Begun(P, n, x - 1) + (IF Whole(P, x) THEN 8 ELSE 0)
         /\ Spent(P, n, x) = Spent(P, n, x - 1) + (IF CutEnds(P, x) THEN PARSE_BUF_SIZE ELSE 0)
<1>1. n \in Nat /\ x - 1 \in 0 .. n /\ x \in 0 .. n
  BY DEF Marked
<1>2. Begun(P, n, x - 1) \in Nat /\ Spent(P, n, x - 1) \in Nat
  BY <1>1, Sums
<1>3. Begun(P, n, x) = Begun(P, n, x - 1) + Rate(P, x, 8, 0)
  BY <1>1, TallyStep DEF Begun
<1>4. Spent(P, n, x) = Spent(P, n, x - 1) + Rate(P, x, 0, PARSE_BUF_SIZE)
  BY <1>1, TallyStep DEF Spent
<1>5. Rate(P, x, 8, 0) = IF Whole(P, x) THEN 8 ELSE 0
  BY Zenon DEF Rate
<1>6. Rate(P, x, 0, PARSE_BUF_SIZE) = IF CutEnds(P, x) THEN PARSE_BUF_SIZE ELSE 0
  BY Zenon DEF Rate, Whole, CutEnds, InCut
<1>. QED
  BY <1>1, <1>2, <1>3, <1>4, <1>5, <1>6, Zenon

(* Where the piece of a byte ends, and where it begins. *)
EndOf(P, x) == x - P[x].off + P[x].size

(* Byte y, behind a byte x of a cut piece that ends at place e: in the same  *)
(* piece no command begins; behind it there is one in eight bytes at most,   *)
(* and the cut is paid for.                                                  *)
PastCut(P, n, x, e, y) ==
  \/ /\ y <= e /\ InCut(P, y) /\ EndOf(P, y) = e
     /\ Begun(P, n, y) = Begun(P, n, x - 1)
     /\ Spent(P, n, y) >= Spent(P, n, x - 1)
     /\ P[y].off = P[y].size => Spent(P, n, y) >= Spent(P, n, x - 1) + PARSE_BUF_SIZE
  \/ /\ e <= y - P[y].off
     /\ Begun(P, n, y) <= Begun(P, n, x - 1) + (y - P[y].off - e) + (IF InCut(P, y) THEN 0 ELSE 8)
     /\ Spent(P, n, y) >= Spent(P, n, x - 1) + PARSE_BUF_SIZE

(* It is so of the byte itself. *)
LEMMA PastCutStart ==
  ASSUME NEW P, NEW n, Marked(P, n), NEW x, x \in 1 .. n, InCut(P, x)
  PROVE  PastCut(P, n, x, EndOf(P, x), x)
<1> DEFINE B == Begun(P, n, x)   A == Begun(P, n, x - 1)
           T == Spent(P, n, x)   S == Spent(P, n, x - 1)
           o == P[x].off  z == P[x].size  K == PARSE_BUF_SIZE
           e == EndOf(P, x)
<1>1. ~Whole(P, x) /\ (CutEnds(P, x) <=> o = z)
  BY Zenon DEF Whole, CutEnds, InCut
<1>2. A \in Nat /\ S \in Nat
  BY SumsGrow
<1>3. B = A + (IF Whole(P, x) THEN 8 ELSE 0) /\ T = S + (IF CutEnds(P, x) THEN K ELSE 0)
  BY SumsGrow, Zenon
<1>4. x \in Nat /\ o \in Nat /\ z \in Nat /\ o <= z /\ K \in Nat
  BY MarkedByte, FramesAssumption
<1>5. e = x - o + z
  BY DEF EndOf
<1> HIDE DEF A, B, S, T, o, z, K, e
<1>6. B = A /\ T = S + (IF o = z THEN K ELSE 0)
  BY <1>1, <1>2, <1>3
<1>7. x <= e /\ T >= S /\ (o = z => T >= S + K)
  BY <1>2, <1>4, <1>5, <1>6
<1>. QED
  BY <1>6, <1>7, Zenon DEF PastCut, A, B, S, T, o, z, K, e

(* And of the next one, if it is so of one. *)
LEMMA PastCutNext ==
  ASSUME NEW P, NEW n, Marked(P, n), NEW x, x \in 1 .. n, NEW e, e \in Nat,
         NEW y, y \in 1 .. n, y + 1 <= n, PastCut(P, n, x, e, y)
  PROVE  PastCut(P, n, x, e, y + 1)
<1> DEFINE w == y + 1
           A == Begun(P, n, x - 1)   S == Spent(P, n, x - 1)
           B == Begun(P, n, y)       T == Spent(P, n, y)
           C == Begun(P, n, w)       U == Spent(P, n, w)
           o == P[y].off  z == P[y].size  K == PARSE_BUF_SIZE
           u == P[w].off  v == P[w].size
<1>1. w \in 1 .. n /\ w - 1 = y /\ y \in Nat
  BY DEF Marked
<1> HIDE DEF w
<1>2. A \in Nat /\ S \in Nat
  BY SumsGrow
<1>3. B \in Nat /\ T \in Nat
  BY <1>1, SumsGrow
<1>4. C = B + (IF Whole(P, w) THEN 8 ELSE 0) /\ U = T + (IF CutEnds(P, w) THEN K ELSE 0)
  BY <1>1, SumsGrow, Zenon
<1>5. o \in Nat /\ z \in Nat /\ 1 <= o /\ o <= z /\ K \in Nat
  BY MarkedByte, FramesAssumption
<1>6. u \in Nat /\ v \in Nat /\ 1 <= u /\ u <= v
  BY <1>1, MarkedByte
<1>7. Size(P[y]) \in {8, 12}
  BY MarkedByte
<1>8. IF o = z THEN u = 1 ELSE u = o + 1 /\ v = z /\ P[w].cmd = P[y].cmd
  BY <1>1, MarkedNext DEF w
<1>9. /\ Whole(P, w) <=> u = 1 /\ ~InCut(P, w)
      /\ CutEnds(P, w) <=> InCut(P, w) /\ u = v
  BY Zenon DEF Whole, CutEnds, InCut
<1>10. EndOf(P, y) = y - o + z /\ EndOf(P, w) = w - u + v
  BY DEF EndOf
<1>11. w = y + 1
  BY DEF w
<1>12. ASSUME o = z PROVE PastCut(P, n, x, e, w)
  <2>1. u = 1
    BY <1>8, <1>12
  <2>2. e <= y /\ T >= S + K /\ B <= A + (y - e)
    <3>1. CASE y <= e /\ InCut(P, y) /\ EndOf(P, y) = e /\ B = A /\ T >= S /\ (o = z => T >= S + K)
      <4> HIDE DEF A, B, S, T, o, z, K
      <4>. QED
        BY <1>1, <1>2, <1>3, <1>5, <1>10, <1>12, <3>1
    <3>2. CASE /\ e <= y - o /\ B <= A + (y - o - e) + (IF InCut(P, y) THEN 0 ELSE 8)
               /\ T >= S + K
      <4>1. InCut(P, y) \/ z = 8 \/ z = 12
        BY <1>7, Zenon DEF InCut
      <4> HIDE DEF A, B, S, T, o, z, K
      <4>2. B <= A + (y - e)
        BY <1>1, <1>2, <1>3, <1>5, <1>12, <3>2, <4>1
      <4>. QED
        BY <1>1, <1>5, <3>2, <4>2
    <3>. QED
      BY <3>1, <3>2, Zenon DEF PastCut
  <2> HIDE DEF A, B, S, T, C, U, o, z, K, u, v
  <2>3. C <= A + (w - u - e) + (IF InCut(P, w) THEN 0 ELSE 8)
    BY <1>1, <1>2, <1>3, <1>4, <1>9, <1>11, <2>1, <2>2
  <2>4. U >= S + K
    BY <1>2, <1>3, <1>4, <1>5, <2>2
  <2>5. e <= w - u
    BY <1>1, <1>11, <2>1, <2>2
  <2>. QED
    BY <2>3, <2>4, <2>5, Zenon DEF PastCut, A, S, C, U, K, u
<1>13. ASSUME o # z PROVE PastCut(P, n, x, e, w)
  <2>1. u = o + 1 /\ v = z /\ P[w].cmd = P[y].cmd
    BY <1>8, <1>13, Zenon
  <2>2. InCut(P, w) <=> InCut(P, y)
    BY <2>1, Zenon DEF InCut, Size
  <2> HIDE DEF A, B, S, T, C, U, o, z, K, u, v
  <2>3. C = B
    <3>1. ~Whole(P, w)
      BY <1>5, <1>9, <2>1
    <3>. QED
      BY <1>3, <1>4, <3>1
  <2>4. U >= T
    BY <1>3, <1>4, <1>5
  <2>5. CASE y <= e /\ InCut(P, y) /\ EndOf(P, y) = e /\ B = A /\ T >= S /\ (o = z => T >= S + K)
    <3>1. w <= e /\ EndOf(P, w) = e
      BY <1>1, <1>5, <1>10, <1>11, <1>13, <2>1, <2>5
    <3>2. C = A /\ U >= S
      BY <1>2, <1>3, <2>3, <2>4, <2>5, <1>4, <1>5
    <3>3. u = v => U >= S + K
      <4>1. u = v => CutEnds(P, w)
        BY <1>9, <2>2, <2>5, Zenon
      <4>. QED
        BY <1>2, <1>3, <1>4, <1>5, <2>5, <4>1
    <3>4. InCut(P, w)
      BY <2>2, <2>5, Zenon
    <3>. QED
      BY <3>1, <3>2, <3>3, <3>4, Zenon DEF PastCut, A, S, C, U, K, u, v
  <2>6. CASE /\ e <= y - o /\ B <= A + (y - o - e) + (IF InCut(P, y) THEN 0 ELSE 8)
             /\ T >= S + K
    <3>1. w - u = y - o
      BY <1>1, <1>5, <1>11, <2>1
    <3>2. C <= A + (w - u - e) + (IF InCut(P, w) THEN 0 ELSE 8)
      BY <2>2, <2>3, <2>6, <3>1
    <3>3. U >= S + K
      BY <1>2, <1>3, <1>4, <1>5, <2>4, <2>6
    <3>4. e <= w - u
      BY <2>6, <3>1
    <3>. QED
      BY <3>2, <3>3, <3>4, Zenon DEF PastCut, A, S, C, U, K, u
  <2>. QED
    BY <2>5, <2>6, Zenon DEF PastCut, A, B, S, T, o, z, K
<1>. QED
  BY <1>12, <1>13, Zenon DEF w

(* So it is of every byte behind it. *)
LEMMA PastCutAll ==
  ASSUME NEW P, NEW n, Marked(P, n), NEW x, x \in 1 .. n, InCut(P, x),
         NEW y, y \in 1 .. n, x <= y
  PROVE  EndOf(P, x) \in Nat /\ x <= EndOf(P, x) /\ PastCut(P, n, x, EndOf(P, x), y)
<1> DEFINE e == EndOf(P, x)
           S == {d \in Nat : x + d <= n => PastCut(P, n, x, e, x + d)}
<1>1. x \in Nat /\ n \in Nat /\ y \in Nat
  BY DEF Marked
<1>2. e \in Nat /\ x <= e
  BY <1>1, MarkedByte DEF EndOf
<1>3. PastCut(P, n, x, e, x)
  BY PastCutStart
<1> HIDE DEF e
<1>4. 0 \in S
  <2>1. x + 0 = x /\ 0 \in Nat
    BY <1>1
  <2>. QED
    BY <1>3, <2>1, Zenon
<1>5. ASSUME NEW d \in Nat, d \in S PROVE d + 1 \in S
  <2> SUFFICES ASSUME x + (d + 1) <= n PROVE PastCut(P, n, x, e, x + (d + 1))
    OBVIOUS
  <2> DEFINE u == x + d
  <2>1. u \in 1 .. n /\ u + 1 <= n /\ u + 1 = x + (d + 1) /\ x + d <= n
    BY <1>1
  <2>2. PastCut(P, n, x, e, u)
    BY <1>5, <2>1
  <2> HIDE DEF u
  <2>3. PastCut(P, n, x, e, u + 1)
    BY <1>2, <2>1, <2>2, PastCutNext
  <2>. QED
    BY <2>1, <2>3, Zenon
<1> HIDE DEF S
<1>6. Nat \subseteq S
  BY <1>4, <1>5, SetInduction
<1>7. PastCut(P, n, x, e, y)
  <2> DEFINE d == y - x
  <2>1. d \in Nat /\ x + d = y /\ x + d <= n
    BY <1>1
  <2> HIDE DEF d
  <2>2. d \in S
    BY <1>6, <2>1
  <2>3. PastCut(P, n, x, e, x + d)
    BY <2>1, <2>2 DEF S
  <2>. QED
    BY <2>1, <2>3, Zenon
<1>. QED
  BY <1>2, <1>7, Zenon DEF e

(* What the line up to a place costs: the commands begun, less what the cuts *)
(* may cost.                                                                 *)
Cost(P, n, x) == Begun(P, n, x) - Spent(P, n, x)

(* From a byte of a cut piece on, within a buffer of bytes, nothing is lost  *)
(* that the cut does not pay for: up to the end of a piece, or to any place  *)
(* that is six bytes less far.                                               *)
Within(P, x, y) ==
  \/ P[y].off = P[y].size /\ y - x + 1 <= PARSE_BUF_SIZE
  \/ y - x + 7 <= PARSE_BUF_SIZE

LEMMA CutPays ==
  ASSUME NEW P, NEW n, Marked(P, n), NEW x, x \in 1 .. n, InCut(P, x),
         NEW y, y \in 1 .. n, x <= y, Within(P, x, y)
  PROVE  Cost(P, n, y) <= Cost(P, n, x - 1)
<1> DEFINE A == Begun(P, n, x - 1)   S == Spent(P, n, x - 1)
           B == Begun(P, n, y)       T == Spent(P, n, y)
           o == P[y].off  z == P[y].size  K == PARSE_BUF_SIZE
           e == EndOf(P, x)
<1>1. A \in Nat /\ S \in Nat
  BY SumsGrow
<1>2. B \in Nat /\ T \in Nat
  BY SumsGrow, Sums
<1>3. o \in Nat /\ z \in Nat /\ 1 <= o /\ o <= z /\ K \in Nat
  BY MarkedByte, FramesAssumption
<1>4. InCut(P, y) \/ z = 8 \/ z = 12
  <2>1. Size(P[y]) \in {8, 12}
    BY MarkedByte
  <2>. QED
    BY <2>1, Zenon DEF InCut
<1>5. e \in Nat /\ x <= e /\ PastCut(P, n, x, e, y)
  BY PastCutAll
<1>6. (o = z /\ y - x + 1 <= K) \/ y - x + 7 <= K
  BY Zenon DEF Within
<1>7. x \in Nat /\ y \in Nat
  BY DEF Marked
<1>8. (B <= A /\ T >= S) \/ (B <= A + K /\ T >= S + K)
  <2>1. CASE B = A /\ T >= S
    <3> HIDE DEF A, B, S, T
    <3>1. B <= A
      BY <1>1, <2>1
    <3>. QED
      BY <2>1, <3>1, Zenon
  <2>2. CASE /\ e <= y - o /\ B <= A + (y - o - e) + (IF InCut(P, y) THEN 0 ELSE 8)
             /\ T >= S + K
    <3> HIDE DEF A, B, S, T, o, z, K, e
    <3>1. y - o - e + (IF InCut(P, y) THEN 0 ELSE 8) <= K
      <4>1. CASE InCut(P, y)
        BY <1>3, <1>5, <1>6, <1>7, <4>1
      <4>2. CASE ~InCut(P, y)
        BY <1>3, <1>4, <1>5, <1>6, <1>7, <4>2
      <4>. QED
        BY <4>1, <4>2
    <3>2. B <= A + K
      BY <1>1, <1>2, <1>3, <1>5, <1>7, <2>2, <3>1
    <3>. QED
      BY <2>2, <3>2
  <2>. QED
    BY <1>5, <2>1, <2>2, Zenon DEF PastCut
<1> HIDE DEF A, B, S, T, K
<1>9. B - T <= A - S
  BY <1>1, <1>2, <1>3, <1>8
<1>. QED
  BY <1>9, Zenon DEF Cost, A, B, S, T

(* How the cost grows. *)
LEMMA CostGrows ==
  ASSUME NEW P, NEW n, Marked(P, n)
  PROVE  /\ \A x \in 0 .. n : Cost(P, n, x) \in Int
         /\ \A x \in 1 .. n : Cost(P, n, x) <= Cost(P, n, x - 1) + 8
         /\ \A x \in 1 .. n : ~Whole(P, x) => Cost(P, n, x) <= Cost(P, n, x - 1)
<1>1. ASSUME NEW x, x \in 0 .. n PROVE Cost(P, n, x) \in Int
  BY <1>1, Sums DEF Cost
<1>2. ASSUME NEW x, x \in 1 .. n
      PROVE  /\ Cost(P, n, x) <= Cost(P, n, x - 1) + 8
             /\ ~Whole(P, x) => Cost(P, n, x) <= Cost(P, n, x - 1)
  <2> DEFINE A == Begun(P, n, x - 1)   S == Spent(P, n, x - 1)
             B == Begun(P, n, x)       T == Spent(P, n, x)   K == PARSE_BUF_SIZE
  <2>1. A \in Nat /\ S \in Nat /\ K \in Nat
    BY <1>2, SumsGrow, FramesAssumption
  <2>2. B = A + (IF Whole(P, x) THEN 8 ELSE 0) /\ T = S + (IF CutEnds(P, x) THEN K ELSE 0)
    BY <1>2, SumsGrow, Zenon
  <2> HIDE DEF A, B, S, T, K
  <2>3. B - T <= A - S + 8 /\ (~Whole(P, x) => B - T <= A - S)
    BY <2>1, <2>2
  <2>. QED
    BY <2>3, Zenon DEF Cost, A, B, S, T
<1>. QED
  BY <1>1, <1>2

(* Between two places no whole command begins. *)
NoneBegins(P, n, c, e) == \A x \in 1 .. n : c < x /\ x <= e => ~Whole(P, x)

(* Then nothing is lost between them. *)
LEMMA NoneCosts ==
  ASSUME NEW P, NEW n, Marked(P, n), NEW c, c \in Nat, NEW e, e \in Nat, c <= e, e <= n,
         NoneBegins(P, n, c, e)
  PROVE  Cost(P, n, e) <= Cost(P, n, c)
<1> DEFINE S == {d \in Nat : c + d <= e => Cost(P, n, c + d) <= Cost(P, n, c)}
<1>1. n \in Nat /\ c \in 0 .. n /\ Cost(P, n, c) \in Int
  <2>1. n \in Nat /\ c \in 0 .. n
    BY DEF Marked
  <2>. QED
    BY <2>1, CostGrows
<1>2. 0 \in S
  <2>1. c + 0 = c /\ 0 \in Nat
    OBVIOUS
  <2>2. Cost(P, n, c) <= Cost(P, n, c)
    BY <1>1
  <2>. QED
    BY <2>1, <2>2, Zenon
<1>3. ASSUME NEW d \in Nat, d \in S PROVE d + 1 \in S
  <2> SUFFICES ASSUME c + (d + 1) <= e PROVE Cost(P, n, c + (d + 1)) <= Cost(P, n, c)
    OBVIOUS
  <2> DEFINE x == c + (d + 1)
             C == Cost(P, n, c)  D == Cost(P, n, x - 1)  E == Cost(P, n, x)
  <2>1. x \in 1 .. n /\ x - 1 = c + d /\ c + d <= e /\ c < x /\ x <= e /\ x - 1 \in 0 .. n /\ x \in 0 .. n
    BY <1>1
  <2>2. D <= C
    BY <1>3, <2>1
  <2> HIDE DEF x
  <2>3. ~Whole(P, x)
    BY <2>1, Zenon DEF NoneBegins
  <2>4. E <= D /\ D \in Int /\ E \in Int
    BY <2>1, <2>3, CostGrows
  <2> HIDE DEF C, D, E
  <2>5. E <= C
    BY <1>1, <2>2, <2>4 DEF C
  <2>. QED
    BY <2>5, Zenon DEF C, E, x
<1> HIDE DEF S
<1>4. Nat \subseteq S
  BY <1>2, <1>3, SetInduction
<1> DEFINE d == e - c
<1>5. d \in Nat /\ c + d = e /\ c + d <= e
  OBVIOUS
<1> HIDE DEF d
<1>6. d \in S
  BY <1>4, <1>5
<1>7. Cost(P, n, c + d) <= Cost(P, n, c)
  BY <1>5, <1>6 DEF S
<1>. QED
  BY <1>5, <1>7, Zenon

(* A command costs eight bytes, wherever before it one stands. *)
LEMMA CommandCosts ==
  ASSUME NEW P, NEW n, Marked(P, n), NEW c, c \in Nat, NEW x, x \in 1 .. n, c < x,
         NoneBegins(P, n, c, x - 1), Whole(P, x)
  PROVE  /\ x + Size(P[x]) - 1 \in 1 .. n
         /\ P[x + Size(P[x]) - 1].off = P[x + Size(P[x]) - 1].size
         /\ Cost(P, n, x + Size(P[x]) - 1) <= Cost(P, n, c) + 8
<1> DEFINE z == Size(P[x])
           e == x + (z - 1)
<1>1. n \in Nat /\ x \in Nat /\ P[x].off = 1 /\ P[x].size = z
  BY DEF Marked, Whole
<1>2. z \in {8, 12}
  BY MarkedByte
<1> HIDE DEF z
<1>3. ASSUME NEW d, d \in Int, 0 <= d, d <= z - 1
      PROVE  x + d \in 1 .. n /\ P[x + d].off = 1 + d /\ P[x + d].size = z
  <2>1. 1 <= P[x].off + d /\ P[x].off + d <= P[x].size /\ P[x].off + d = 1 + d
    BY <1>1, <1>2, <1>3
  <2>2. x + d \in 1 .. n /\ P[x + d].off = P[x].off + d /\ P[x + d].size = P[x].size
    BY <1>3, <2>1, InPiece
  <2>. QED
    BY <1>1, <2>1, <2>2, Zenon
<1>4. e \in 1 .. n /\ P[e].off = 1 + (z - 1) /\ P[e].size = z
  BY <1>2, <1>3
<1>5. e \in 1 .. n /\ P[e].off = P[e].size
  <2>1. 1 + (z - 1) = z
    BY <1>2
  <2>. QED
    BY <1>4, <2>1, Zenon
<1>6. NoneBegins(P, n, x, e)
  <2> SUFFICES ASSUME NEW y, y \in 1 .. n, x < y, y <= e PROVE ~Whole(P, y)
    BY DEF NoneBegins
  <2> DEFINE d == y - x
  <2>1. d \in Int /\ 0 <= d /\ d <= z - 1 /\ x + d = y /\ 1 + d # 1
    BY <1>1, <1>2
  <2> HIDE DEF d, e
  <2>2. P[x + d].off = 1 + d
    BY <1>3, <2>1
  <2>. QED
    BY <2>1, <2>2, Zenon DEF Whole
<1>7. e \in Nat /\ x <= e /\ e <= n /\ x - 1 \in Nat /\ c <= x - 1 /\ x - 1 <= n
  BY <1>1, <1>2, <1>5
<1>8. e = x + z - 1
  BY <1>1, <1>2
<1> HIDE DEF e
<1> DEFINE C == Cost(P, n, c)  D == Cost(P, n, x - 1)  E == Cost(P, n, x)  F == Cost(P, n, e)
<1>9. F <= E
  BY <1>1, <1>6, <1>7, NoneCosts
<1>10. D <= C
  BY <1>7, NoneCosts
<1>11. E <= D + 8
  BY CostGrows
<1>12. C \in Int /\ D \in Int /\ E \in Int /\ F \in Int
  <2>1. c \in 0 .. n /\ x - 1 \in 0 .. n /\ x \in 0 .. n /\ e \in 0 .. n
    BY <1>1, <1>7
  <2>. QED
    BY <2>1, CostGrows
<1> HIDE DEF C, D, E, F
<1>13. F <= C + 8
  BY <1>9, <1>10, <1>11, <1>12
<1>. QED
  BY <1>5, <1>8, <1>13, Zenon DEF C, F, z

(* Before the first head no command begins.                                  *)
LEMMA HeadlessNone ==
  ASSUME NEW P, NEW n, Marked(P, n), NEW b, NEW buf, Holds(P, n, b, buf),
         NEW k, k \in Nat, k <= Len(buf), Headless(buf, k)
  PROVE  NoneBegins(P, n, b, b + k - 1)
<1> SUFFICES ASSUME NEW x, x \in 1 .. n, b < x, x <= b + k - 1, Whole(P, x) PROVE FALSE
  BY DEF NoneBegins
<1> DEFINE j == x - b
<1>1. b \in Nat /\ Len(buf) \in Nat /\ n \in Nat /\ b + Len(buf) <= n
  BY DEF Holds, Marked
<1>2. j \in 1 .. k - 1 /\ j \in 1 .. Len(buf) /\ j + 1 \in 1 .. Len(buf)
      /\ b + j = x /\ b + (j + 1) = x + 1 /\ x + 1 \in 1 .. n
  BY <1>1
<1> HIDE DEF j
<1>3. P[x].off = 1 /\ P[x].off # P[x].size
  <2>1. Size(P[x]) \in {8, 12}
    BY MarkedByte
  <2>. QED
    BY <2>1 DEF Whole
<1>4. P[x + 1].off = 2
  BY <1>2, <1>3, MarkedNext
<1>5. Byte(P[x]) = 126 /\ Byte(P[x + 1]) = 126
  BY <1>2, <1>3, <1>4, MarkedByte
<1>6. buf[j] = Byte(P[b + j]) /\ buf[j + 1] = Byte(P[b + (j + 1)])
  BY <1>2, HoldsByte
<1>7. buf[j] = 126 /\ buf[j + 1] = 126
  BY <1>2, <1>5, <1>6, Zenon
<1>. QED
  BY <1>2, <1>7, Zenon DEF Headless

(* The first head begins a whole command, or is of a cut piece. *)
LEMMA HeadOfPiece ==
  ASSUME NEW P, NEW n, Marked(P, n), NEW b, NEW buf, Holds(P, n, b, buf),
         NEW h, FirstAt(buf, h)
  PROVE  b + h \in 1 .. n /\ (Whole(P, b + h) \/ InCut(P, b + h))
<1> DEFINE x == b + h
<1>1. b \in Nat /\ Len(buf) \in Nat /\ n \in Nat /\ b + Len(buf) <= n
  BY DEF Holds, Marked
<1>2. h \in Nat /\ 1 <= h /\ h + 1 <= Len(buf) /\ buf[h] = 126 /\ buf[h + 1] = 126
  BY DEF FirstAt
<1>3. /\ x \in 1 .. n /\ x + 1 \in 1 .. n /\ b + (h + 1) = x + 1
      /\ h \in 1 .. Len(buf) /\ h + 1 \in 1 .. Len(buf)
  BY <1>1, <1>2
<1>4. buf[h] = Byte(P[b + h]) /\ buf[h + 1] = Byte(P[b + (h + 1)])
  BY <1>3, HoldsByte
<1>5. Byte(P[x]) = 126 /\ Byte(P[x + 1]) = 126
  BY <1>2, <1>3, <1>4, Zenon
<1> HIDE DEF x
<1>6. (P[x].off = 1 \/ P[x].off = 2) /\ (P[x + 1].off = 1 \/ P[x + 1].off = 2)
  BY <1>3, <1>5, MarkedByte
<1>7. ASSUME P[x].size = Size(P[x]) PROVE P[x].off = 1
  <2>1. Size(P[x]) \in {8, 12}
    BY <1>3, MarkedByte
  <2>2. P[x].off # P[x].size
    BY <1>6, <1>7, <2>1
  <2>3. P[x + 1].off = P[x].off + 1
    BY <1>3, <2>2, MarkedNext
  <2>. QED
    BY <1>6, <2>3
<1>8. Whole(P, x) \/ InCut(P, x)
  BY <1>7, Zenon DEF Whole, InCut
<1>. QED
  BY <1>3, <1>8, Zenon DEF x

(* The bytes of a whole command that the buffer holds. *)
LEMMA WholeInBuffer ==
  ASSUME NEW P, NEW n, Marked(P, n), NEW b, NEW buf, Holds(P, n, b, buf),
         NEW h, h \in Nat, 1 <= h, b + h \in 1 .. n, Whole(P, b + h)
  PROVE  \A i \in 1 .. Size(P[b + h]) :
           h + i - 1 <= Len(buf) => buf[h + i - 1] = Bytes(P[b + h].cmd)[i]
<1> SUFFICES ASSUME NEW i, i \in 1 .. Size(P[b + h]), h + i - 1 <= Len(buf)
             PROVE  buf[h + i - 1] = Bytes(P[b + h].cmd)[i]
  OBVIOUS
<1> DEFINE x == b + h
<1>1. Size(P[x]) \in {8, 12}
  BY MarkedByte
<1>2. b \in Nat /\ Len(buf) \in Nat
  BY DEF Holds
<1>3. i \in 1 .. Size(P[x]) /\ h + i - 1 \in 1 .. Len(buf) /\ b + (h + i - 1) = x + i - 1
  BY <1>1, <1>2
<1> HIDE DEF x
<1>4. x \in 1 .. n /\ Whole(P, x)
  BY DEF x
<1>5. \A j \in 1 .. Size(P[x]) : Byte(P[x + j - 1]) = Bytes(P[x].cmd)[j]
  BY <1>4, WholeBytes
<1>6. buf[h + i - 1] = Byte(P[b + (h + i - 1)])
  BY <1>3, HoldsByte
<1>7. buf[h + i - 1] = Bytes(P[x].cmd)[i]
  BY <1>3, <1>5, <1>6, Zenon
<1>. QED
  BY <1>7, Zenon DEF x

(* A whole command that has not come to its end is short of its size; it is  *)
(* never a bad frame.                                                        *)
LEMMA WholeUnfinished ==
  ASSUME NEW P, NEW n, Marked(P, n), NEW b, NEW buf, Holds(P, n, b, buf),
         NEW h, FirstAt(buf, h), b + h \in 1 .. n, Whole(P, b + h)
  PROVE  /\ Unfinished(buf, h) => Len(buf) - h + 1 < Size(P[b + h])
         /\ ~BadFrame(buf, h)
<1> DEFINE f == Bytes(P[b + h].cmd)
           l == Len(buf)
           z == Size(P[b + h])
           v == buf[h + 4]
<1>1. h \in Nat /\ 1 <= h /\ l \in Nat
  BY DEF FirstAt, Holds
<1>2. Command(f) /\ z = Len(f) /\ z \in {8, 12}
  BY MarkedByte DEF Size
<1>3. f[5] = Len(f) - 7
  <2> HIDE DEF f
  <2>. QED
    BY <1>2, LengthByte
<1>4. f[5] = z - 7
  BY <1>2, <1>3, Zenon
<1>5. \A i \in 1 .. z : h + i - 1 <= l => buf[h + i - 1] = f[i]
  BY <1>1, WholeInBuffer
<1> HIDE DEF f, l, z, v
<1>6. ASSUME h + 4 <= l PROVE v = z - 7 /\ h + v + 6 = h + z - 1 /\ h + v + 5 = h + (z - 1) - 1
  <2>1. h + 5 - 1 = h + 4 /\ 5 \in 1 .. z /\ h + 5 - 1 <= l
    BY <1>1, <1>2, <1>6
  <2>2. buf[h + 5 - 1] = f[5]
    BY <1>5, <2>1, Zenon
  <2>3. v = z - 7
    BY <1>4, <2>1, <2>2, Zenon DEF v
  <2>. QED
    BY <1>1, <1>2, <2>3
<1>7. ASSUME Unfinished(buf, h) PROVE l - h + 1 < z
  <2>1. l < h + 4 \/ l < h + v + 6
    BY <1>7, Zenon DEF Unfinished, l, v
  <2>2. CASE l < h + 4
    <3>1. z >= 8
      BY <1>2
    <3>2. l - h + 1 < 8
      BY <1>1, <2>2
    <3>3. z \in Nat
      BY <1>2
    <3>. QED
      BY <1>1, <3>1, <3>2, <3>3
  <2>3. CASE ~(l < h + 4)
    <3>1. h + 4 <= l
      BY <1>1, <2>3
    <3>2. h + v + 6 = h + z - 1
      BY <1>6, <3>1
    <3>3. l < h + z - 1
      BY <2>1, <2>3, <3>2, Zenon
    <3>. QED
      BY <1>1, <1>2, <3>3
  <2>. QED
    BY <2>2, <2>3
<1>8. ~BadFrame(buf, h)
  <2> SUFFICES ASSUME BadFrame(buf, h) PROVE FALSE
    OBVIOUS
  <2>1. h + 4 <= l /\ h + v + 6 <= l /\ ~(buf[h + v + 5] = 10 /\ buf[h + v + 6] = 13)
    BY Zenon DEF BadFrame, l, v
  <2>2. h + v + 6 = h + z - 1 /\ h + v + 5 = h + (z - 1) - 1
    BY <1>6, <2>1
  <2>3. h + z - 1 <= l
    BY <2>1, <2>2, Zenon
  <2>4. z \in 1 .. z /\ z - 1 \in 1 .. z /\ h + (z - 1) - 1 <= l
    BY <1>1, <1>2, <2>3
  <2>5. buf[h + z - 1] = f[z]
    BY <1>5, <2>3, <2>4, Zenon
  <2>6. buf[h + (z - 1) - 1] = f[z - 1]
    BY <1>5, <2>4, Zenon
  <2>7. f[z - 1] = 10 /\ f[z] = 13
    <3>1. \A i \in 1 .. Len(f) - 1 : f[i] = 10 /\ f[i + 1] = 13 <=> i = Len(f) - 1
      BY <1>2 DEF Command
    <3>2. Len(f) - 1 \in 1 .. Len(f) - 1 /\ (Len(f) - 1) + 1 = Len(f)
      BY <1>2
    <3>3. f[Len(f) - 1] = 10 /\ f[(Len(f) - 1) + 1] = 13
      BY <3>1, <3>2, Zenon
    <3>. QED
      BY <1>2, <3>2, <3>3, Zenon
  <2>. QED
    BY <2>1, <2>2, <2>5, <2>6, <2>7, Zenon
<1>. QED
  BY <1>7, <1>8, Zenon DEF l, z

(* A cut pays for what is lost from its head to the end of the buffer, if a  *)
(* piece ends there.                                                         *)
LEMMA CutPaysBuffer ==
  ASSUME NEW P, NEW n, Marked(P, n), NEW b, b \in Nat, NEW l, l \in Nat, b + l <= n,
         l <= PARSE_BUF_SIZE, NEW h, h \in Nat, 1 <= h, NEW d, d \in Nat, h <= d, d <= l,
         InCut(P, b + h),
         P[b + d].off = P[b + d].size \/ d - h + 7 <= PARSE_BUF_SIZE
  PROVE  Cost(P, n, b + d) <= Cost(P, n, b + h - 1)
<1> DEFINE x == b + h
           y == b + d
           K == PARSE_BUF_SIZE
<1>1. K \in Nat /\ n \in Nat
  BY FramesAssumption DEF Marked
<1>2. x \in 1 .. n /\ y \in 1 .. n /\ x <= y /\ y - x = d - h /\ d - h + 1 <= K
  BY <1>1
<1>3. y - x + 1 <= K /\ (d - h + 7 <= K => y - x + 7 <= K)
  BY <1>2, Zenon
<1> HIDE DEF x, y
<1>4. Within(P, x, y)
  <2>1. P[y].off = P[y].size \/ d - h + 7 <= K
    BY Zenon DEF y
  <2>. QED
    BY <1>3, <2>1, Zenon DEF Within, K
<1>5. InCut(P, x)
  BY Zenon DEF x
<1>6. Cost(P, n, y) <= Cost(P, n, x - 1)
  BY <1>2, <1>4, <1>5, CutPays
<1>. QED
  BY <1>6 DEF x, y

(* What the parser gives up without a frame is paid for: the bytes gone, and *)
(* all that are left, too, if a piece ends behind them.  A buffer that stays *)
(* full begins in a cut piece.                                               *)
Paid(P, n, b, l, d) ==
  /\ Cost(P, n, b + d) <= Cost(P, n, b)
  /\ l - d = PARSE_BUF_SIZE => InCut(P, b + d + 1)
  /\ Aligned(P, b + l) => Cost(P, n, b + l) <= Cost(P, n, b)

LEMMA SkipsHeadless ==
  ASSUME NEW P, NEW n, Marked(P, n), NEW b, NEW buf, Holds(P, n, b, buf),
         Headless(buf, Len(buf)),
         NEW d, d = IF Len(buf) > 1 THEN Len(buf) - 1 ELSE 0
  PROVE  Paid(P, n, b, Len(buf), d)
<1> DEFINE l == Len(buf)
           K == PARSE_BUF_SIZE
           A == Cost(P, n, b)
<1>1. b \in Nat /\ l \in Nat /\ n \in Nat /\ b + l <= n /\ b \in 0 .. n
  BY DEF Holds, Marked
<1>2. K \in Nat /\ 12 <= K
  BY FramesAssumption
<1>3. A \in Int
  BY <1>1, CostGrows
<1>4. CASE l = 0
  <2>1. d = 0 /\ b + d = b /\ b + l = b /\ l - d # K
    BY <1>1, <1>2, <1>4
  <2> HIDE DEF A, K, l
  <2>2. A <= A
    BY <1>3
  <2>. QED
    BY <2>1, <2>2, Zenon DEF Paid, A, K, l
<1>5. CASE l # 0
  <2> DEFINE c == b + l - 1
             B == Cost(P, n, c)
             y == b + l
             C == Cost(P, n, y)
  <2>1. d = l - 1 /\ b + d = c /\ l - d # K
    <3> HIDE DEF l
    <3>1. d = l - 1
      BY <1>1, <1>5 DEF l
    <3>. QED
      BY <1>1, <1>2, <3>1
  <2>2. NoneBegins(P, n, b, c)
    BY <1>1, HeadlessNone
  <2>3. c \in Nat /\ b <= c /\ c <= n /\ y - 1 = c /\ y \in 1 .. n /\ y # 0 /\ c \in 0 .. n /\ y \in 0 .. n
    BY <1>1, <1>5
  <2> HIDE DEF c, y
  <2>4. B <= A
    BY <1>1, <2>2, <2>3, NoneCosts
  <2>5. ASSUME Aligned(P, y) PROVE C <= A
    <3>1. P[y].off = P[y].size
      BY <2>3, <2>5, Zenon DEF Aligned
    <3>2. ~Whole(P, y)
      <4>1. Size(P[y]) \in {8, 12}
        BY <2>3, MarkedByte
      <4>. QED
        BY <3>1, <4>1 DEF Whole
    <3>3. C <= Cost(P, n, y - 1)
      BY <2>3, <3>2, CostGrows
    <3>4. C <= B
      BY <2>3, <3>3, Zenon
    <3>5. B \in Int /\ C \in Int
      BY <2>3, CostGrows
    <3> HIDE DEF A, B, C
    <3>. QED
      BY <1>3, <2>4, <3>4, <3>5
  <2>. QED
    BY <2>1, <2>4, <2>5, Zenon DEF Paid, c, y
<1>. QED
  BY <1>4, <1>5

LEMMA SkipsToHead ==
  ASSUME NEW P, NEW n, Marked(P, n), NEW b, NEW buf, Holds(P, n, b, buf),
         Len(buf) <= PARSE_BUF_SIZE, NEW h, FirstAt(buf, h), Unfinished(buf, h)
  PROVE  Paid(P, n, b, Len(buf), h - 1)
<1> DEFINE l == Len(buf)
           K == PARSE_BUF_SIZE
           x == b + h
           d == h - 1
           y == b + l
<1>1. b \in Nat /\ l \in Nat /\ n \in Nat /\ b + l <= n /\ b \in 0 .. n
  BY DEF Holds, Marked
<1>2. K \in Nat /\ 12 <= K /\ l <= K
  BY FramesAssumption
<1>3. h \in Nat /\ 1 <= h /\ h + 1 <= l /\ Headless(buf, h)
  BY DEF FirstAt
<1>4. x \in 1 .. n /\ (Whole(P, x) \/ InCut(P, x))
  BY HeadOfPiece
<1>5. b + d = x - 1 /\ b + h - 1 = x - 1 /\ b + d + 1 = x /\ b <= x - 1 /\ x - 1 \in Nat /\ x - 1 <= n
      /\ x - 1 \in 0 .. n /\ h \in Nat /\ h <= l
  BY <1>1, <1>3, <1>4
<1>6. NoneBegins(P, n, b, x - 1)
  <2>1. NoneBegins(P, n, b, b + h - 1)
    <3> HIDE DEF x
    <3>. QED
      BY <1>3, <1>5, HeadlessNone
  <2>. QED
    BY <1>5, <2>1, Zenon
<1>7. Cost(P, n, x - 1) <= Cost(P, n, b)
  BY <1>1, <1>5, <1>6, NoneCosts
<1>8. CASE InCut(P, x)
  <2>1. ASSUME Aligned(P, y) PROVE Cost(P, n, y) <= Cost(P, n, b)
    <3>1. y # 0 /\ y \in 0 .. n
      BY <1>1, <1>3
    <3>2. P[y].off = P[y].size
      BY <2>1, <3>1, Zenon DEF Aligned
    <3>3. Cost(P, n, b + l) <= Cost(P, n, b + h - 1)
      <4>1. l <= l
        BY <1>1
      <4> HIDE DEF l
      <4>2. P[b + l].off = P[b + l].size
        BY <3>2, Zenon
      <4>. QED
        BY <1>1, <1>2, <1>3, <1>5, <1>8, <4>1, <4>2, CutPaysBuffer
    <3> DEFINE A == Cost(P, n, b)  B == Cost(P, n, x - 1)  C == Cost(P, n, y)
    <3>4. A \in Int /\ B \in Int /\ C \in Int
      BY <1>1, <1>5, <3>1, CostGrows
    <3>5. C <= B
      BY <1>5, <3>3, Zenon
    <3>6. B <= A
      BY <1>7
    <3> HIDE DEF A, B, C
    <3>7. C <= A
      BY <3>4, <3>5, <3>6
    <3>. QED
      BY <3>7, Zenon DEF A, C
  <2>. QED
    BY <1>5, <1>7, <1>8, <2>1, Zenon DEF Paid
<1>9. CASE Whole(P, x)
  <2> DEFINE z == Size(P[x])
             i == l - h
  <2>1. l - h + 1 < z
    BY <1>4, <1>9, WholeUnfinished
  <2>2. z \in {8, 12} /\ P[x].off = 1 /\ P[x].size = z
    BY <1>4, <1>9, MarkedByte DEF Whole
  <2> HIDE DEF z
  <2>3. l - d # K
    BY <1>1, <1>2, <1>3, <2>1, <2>2
  <2>4. i \in Int /\ 1 <= P[x].off + i /\ P[x].off + i <= P[x].size /\ x + i = y
        /\ P[x].off + i # P[x].size
    BY <1>1, <1>3, <2>1, <2>2
  <2> HIDE DEF i, x, y
  <2>5. P[x + i].off = P[x].off + i /\ P[x + i].size = P[x].size
    BY <1>4, <2>4, InPiece
  <2>6. P[y].off # P[y].size
    BY <2>4, <2>5, Zenon
  <2>7. y # 0
    BY <1>1, <1>3 DEF y
  <2>8. ~Aligned(P, y)
    BY <2>6, <2>7, Zenon DEF Aligned
  <2>. QED
    BY <1>5, <1>7, <2>3, <2>8, Zenon DEF Paid, y
<1>. QED
  BY <1>4, <1>8, <1>9

LEMMA SkipsBadFrame ==
  ASSUME NEW P, NEW n, Marked(P, n), NEW b, NEW buf, Holds(P, n, b, buf),
         Len(buf) <= PARSE_BUF_SIZE, NEW h, FirstAt(buf, h), BadFrame(buf, h)
  PROVE  Paid(P, n, b, Len(buf), h + 1)
<1> DEFINE l == Len(buf)
           K == PARSE_BUF_SIZE
           x == b + h
           y == b + l
           w == b + (h + 1)
           A == Cost(P, n, b)  B == Cost(P, n, x - 1)  C == Cost(P, n, y)  D == Cost(P, n, w)
<1>1. b \in Nat /\ l \in Nat /\ n \in Nat /\ b + l <= n /\ b \in 0 .. n
  BY DEF Holds, Marked
<1>2. K \in Nat /\ 12 <= K /\ l <= K
  BY FramesAssumption
<1>3. h \in Nat /\ 1 <= h /\ h + 1 <= l /\ Headless(buf, h)
  BY DEF FirstAt
<1>4. x \in 1 .. n /\ InCut(P, x)
  <2>1. x \in 1 .. n /\ (Whole(P, x) \/ InCut(P, x))
    BY HeadOfPiece
  <2>2. ~Whole(P, x)
    BY <2>1, WholeUnfinished
  <2>. QED
    BY <2>1, <2>2, Zenon
<1>5. /\ b + h - 1 = x - 1 /\ b <= x - 1 /\ x - 1 \in Nat /\ x - 1 <= n
      /\ x - 1 \in 0 .. n /\ h <= l /\ y \in 0 .. n /\ y # 0 /\ w \in 0 .. n
      /\ h + 1 \in Nat /\ h <= h + 1 /\ (h + 1) - h + 7 <= K /\ l - (h + 1) # K /\ l <= l
  BY <1>1, <1>2, <1>3, <1>4
<1>6. B <= A
  <2>1. NoneBegins(P, n, b, b + h - 1)
    <3> HIDE DEF x
    <3>. QED
      BY <1>3, <1>5, HeadlessNone
  <2>2. NoneBegins(P, n, b, x - 1)
    BY <1>5, <2>1, Zenon
  <2>. QED
    BY <1>1, <1>5, <2>2, NoneCosts
<1>7. A \in Int /\ B \in Int /\ C \in Int /\ D \in Int
  BY <1>1, <1>5, CostGrows
<1> HIDE DEF l, A, B, C, D, K
<1>8. D <= A
  <2>1. Cost(P, n, b + (h + 1)) <= Cost(P, n, b + h - 1)
    BY <1>1, <1>2, <1>3, <1>4, <1>5, CutPaysBuffer DEF K
  <2>2. D <= B
    BY <1>5, <2>1, Zenon DEF B, D
  <2>. QED
    BY <1>6, <1>7, <2>2
<1>9. ASSUME Aligned(P, y) PROVE C <= A
  <2>1. P[b + l].off = P[b + l].size
    BY <1>5, <1>9, Zenon DEF Aligned
  <2>2. Cost(P, n, b + l) <= Cost(P, n, b + h - 1)
    BY <1>1, <1>2, <1>3, <1>4, <1>5, <2>1, CutPaysBuffer DEF K
  <2>3. C <= B
    BY <1>5, <2>2, Zenon DEF B, C
  <2>. QED
    BY <1>6, <1>7, <2>3
<1>. QED
  BY <1>5, <1>8, <1>9, Zenon DEF Paid, l, A, C, D, K

LEMMA SkipsPaid ==
  ASSUME NEW P, NEW n, Marked(P, n), NEW b, NEW buf, Holds(P, n, b, buf),
         Len(buf) <= PARSE_BUF_SIZE, NEW d, Skips(buf, d)
  PROVE  Paid(P, n, b, Len(buf), d)
<1>1. CASE Headless(buf, Len(buf)) /\ d = IF Len(buf) > 1 THEN Len(buf) - 1 ELSE 0
  <2> DEFINE e == IF Len(buf) > 1 THEN Len(buf) - 1 ELSE 0
  <2>1. e = IF Len(buf) > 1 THEN Len(buf) - 1 ELSE 0
    OBVIOUS
  <2> HIDE DEF e
  <2>2. Paid(P, n, b, Len(buf), e)
    BY <1>1, <2>1, SkipsHeadless, Zenon
  <2>. QED
    BY <1>1, <2>1, <2>2, Zenon
<1>2. CASE \E h \in Nat : FirstAt(buf, h) /\ d = h - 1 /\ Unfinished(buf, h)
  BY <1>2, SkipsToHead, Zenon
<1>3. CASE \E h \in Nat : FirstAt(buf, h) /\ d = h + 1 /\ BadFrame(buf, h)
  BY <1>3, SkipsBadFrame, Zenon
<1>. QED
  BY <1>1, <1>2, <1>3, Zenon DEF Skips

(* A command found costs eight bytes, a frame that is no command nothing: it *)
(* began in a cut piece.                                                     *)
LEMMA FoundCosts ==
  ASSUME NEW P, NEW n, Marked(P, n), NEW b, NEW buf, Holds(P, n, b, buf),
         Len(buf) <= PARSE_BUF_SIZE, NEW frame, NEW h, NEW d,
         FirstAt(buf, h), FrameAt(frame, buf, h, d)
  PROVE  /\ IsCommand(frame) => Cost(P, n, b + d) <= Cost(P, n, b) + 8
         /\ ~IsCommand(frame) => Cost(P, n, b + d) <= Cost(P, n, b)
<1> DEFINE l == Len(buf)
           K == PARSE_BUF_SIZE
           x == b + h
           e == b + d
           A == Cost(P, n, b)  B == Cost(P, n, x - 1)  C == Cost(P, n, e)
<1>1. b \in Nat /\ l \in Nat /\ n \in Nat /\ b + l <= n /\ b \in 0 .. n
  BY DEF Holds, Marked
<1>2. h \in Nat /\ 1 <= h /\ h + 1 <= l /\ Headless(buf, h)
  BY DEF FirstAt
<1>3. /\ d \in Nat /\ h + 6 <= d /\ d <= l
      /\ buf[d - 1] = 10 /\ buf[d] = 13
      /\ \A i \in 1 .. d - h + 1 : frame[i] = buf[h + i - 1]
  BY DEF FrameAt
<1>4. x \in 1 .. n /\ (Whole(P, x) \/ InCut(P, x))
  BY HeadOfPiece
<1>5. /\ b + h - 1 = x - 1 /\ b <= x - 1 /\ x - 1 \in Nat /\ x - 1 <= n
      /\ x - 1 \in 0 .. n /\ h <= l /\ e \in 0 .. n /\ h <= d /\ b < x
  BY <1>1, <1>2, <1>3, <1>4
<1>6. NoneBegins(P, n, b, x - 1)
  <2>1. NoneBegins(P, n, b, b + h - 1)
    <3> HIDE DEF x
    <3>. QED
      BY <1>2, <1>5, HeadlessNone
  <2>. QED
    BY <1>5, <2>1, Zenon
<1>7. B <= A
  BY <1>1, <1>5, <1>6, NoneCosts
<1>8. A \in Int /\ B \in Int /\ C \in Int
  BY <1>1, <1>5, CostGrows
<1>9. ASSUME IsCommand(frame) PROVE C <= A + 8
  <2>1. Whole(P, x) /\ d = h + Size(P[x]) - 1
    BY <1>9, FoundWasSent
  <2>2. Size(P[x]) \in {8, 12}
    BY <1>4, MarkedByte
  <2> DEFINE z == Size(P[x])
             u == x + z - 1
  <2> HIDE DEF z
  <2>3. u = e
    BY <1>1, <1>2, <2>1, <2>2 DEF z
  <2>4. Cost(P, n, u) <= A + 8
    <3> HIDE DEF x
    <3>. QED
      BY <1>1, <1>4, <1>5, <1>6, <2>1, CommandCosts DEF z
  <2> HIDE DEF u
  <2>. QED
    BY <2>3, <2>4, Zenon
<1>10. ASSUME ~IsCommand(frame) PROVE C <= A
  <2>1. ~Whole(P, x)
    <3> SUFFICES ASSUME Whole(P, x) PROVE IsCommand(frame)
      BY <1>10
    <3> DEFINE f == Bytes(P[x].cmd)
    <3>1. Command(f) /\ Size(P[x]) \in {8, 12}
      BY <1>4, MarkedByte
    <3>2. \A i \in 1 .. Size(P[x]) : h + i - 1 <= l => buf[h + i - 1] = f[i]
      BY <1>2, <1>4, WholeInBuffer
    <3> HIDE DEF f, l, x
    <3>3. 3 \in 1 .. Size(P[x]) /\ h + 3 - 1 <= l /\ 3 \in 1 .. d - h + 1
      BY <1>1, <1>2, <1>3, <3>1
    <3>4. frame[3] = buf[h + 3 - 1] /\ buf[h + 3 - 1] = f[3]
      BY <1>3, <3>2, <3>3, Zenon
    <3>5. f[3] = 1 \/ f[3] = 2
      BY <3>1 DEF Command
    <3>. QED
      BY <3>4, <3>5 DEF IsCommand, OUTPUT_SWITCH, SIGNAL_CONTROL
  <2>2. InCut(P, x)
    BY <1>4, <2>1, Zenon
  <2>3. P[e].off = P[e].size
    <3> DEFINE y == b + (d - 1)
    <3>1. d - 1 \in 1 .. l /\ d \in 1 .. l /\ y + 1 = e /\ y \in Nat /\ 1 <= y /\ y + 1 <= n
          /\ y \in 1 .. n /\ y + 1 \in 1 .. n
      BY <1>1, <1>2, <1>3
    <3>2. buf[d - 1] = Byte(P[y]) /\ buf[d] = Byte(P[e])
      BY <3>1, HoldsByte
    <3> HIDE DEF y, e
    <3>3. Byte(P[y]) = 10 /\ Byte(P[y + 1]) = 13
      BY <1>3, <3>1, <3>2, Zenon
    <3>4. P[y].off = P[y].size - 1
      BY <3>1, <3>3, StopEndsCommand
    <3>5. P[y].off # P[y].size /\ P[y].size \in Nat
      BY <3>1, <3>4, MarkedByte
    <3>6. P[y + 1].off = P[y].off + 1 /\ P[y + 1].size = P[y].size
      BY <3>1, <3>5, MarkedNext
    <3>7. P[y + 1].off = P[y + 1].size
      BY <3>4, <3>5, <3>6
    <3>. QED
      BY <3>1, <3>7, Zenon
  <2> HIDE DEF A, B, C, l
  <2>4. l <= K
    BY DEF l
  <2>5. Cost(P, n, b + d) <= Cost(P, n, b + h - 1)
    BY <1>1, <1>2, <1>3, <1>5, <2>2, <2>3, <2>4, CutPaysBuffer
  <2>6. C <= B
    BY <1>5, <2>5, Zenon DEF B, C
  <2>. QED
    BY <1>7, <1>8, <2>6
<1>. QED
  BY <1>9, <1>10, Zenon

-----------------------------------------------------------------------------
(* What is owed. *)
Intents == {Intent(q) : q \in Requests}

Ledger == [owed : Seq(Intents), lost : Nat, ok : BOOLEAN]

(* What was sent whole and not found: what is owed and what was passed over. *)
Missing(h) == h.lost + Len(h.owed)

(* A count. *)
LEMMA MissingNat ==
  ASSUME NEW h, h \in Ledger
  PROVE  Missing(h) \in Nat
  BY DEF Missing, Ledger

(* The commands that begin behind place c are owed, in their order; number o *)
(* is the last that is not.  On a line without a cut nothing else is owed.   *)
Owes(P, n, o, list, c) ==
  /\ \A x \in 1 .. n : c < x /\ Whole(P, x) =>
       /\ o < P[x].no /\ P[x].no <= o + Len(list)
       /\ list[P[x].no - o] = Intent(P[x].cmd)
  /\ \A x, y \in 1 .. n : c < x /\ x < y /\ Whole(P, x) /\ Whole(P, y) => P[x].no < P[y].no
  /\ AllSent(P, n) => Aligned(P, c) /\ o = Count(P, c) /\ o + Len(list) = Count(P, n)

(* The balance: the m commands missing, eight bytes for each, and what the   *)
(* line up to place c costs come to no more than all the commands begun.     *)
Budget(P, n, m, c) == 8 * m + Cost(P, n, c) <= Begun(P, n, n)

Right(P, n, h, c) ==
  /\ h \in Ledger
  /\ h.ok
  /\ c \in Nat
  /\ Budget(P, n, Missing(h), c)
  /\ \E o \in Nat : Owes(P, n, o, h.owed, c)

(* The rest of a list of what is owed. *)
LEMMA IntentsRest ==
  ASSUME NEW list, NEW i, list \in Seq(Intents), i \in Nat, i <= Len(list)
  PROVE  /\ From(list, i + 1) \in Seq(Intents) /\ Len(From(list, i + 1)) = Len(list) - i
         /\ \A j \in 1 .. Len(list) - i : From(list, i + 1)[j] = list[i + j]
  BY DEF From

(* The balance is kept when what is passed over is paid for, by a cut or by  *)
(* a command that is no longer missing.                                      *)
LEMMA BudgetKept ==
  ASSUME NEW P, NEW n, Marked(P, n), NEW c, c \in 0 .. n, NEW e, e \in 0 .. n,
         NEW l, NEW r, l \in Nat, r \in Nat, Budget(P, n, l, c),
         \/ r <= l /\ Cost(P, n, e) <= Cost(P, n, c)
         \/ r + 1 <= l /\ Cost(P, n, e) <= Cost(P, n, c) + 8
  PROVE  Budget(P, n, r, e)
<1> DEFINE C == Cost(P, n, c)  E == Cost(P, n, e)  B == Begun(P, n, n)
<1>1. C \in Int /\ E \in Int
  BY CostGrows
<1>2. n \in 0 .. n
  BY DEF Marked
<1>3. B \in Nat
  BY <1>2, Sums
<1>4. 8 * l + C <= B
  BY Zenon DEF Budget
<1>5. (r <= l /\ E <= C) \/ (r + 1 <= l /\ E <= C + 8)
  OBVIOUS
<1>6. l \in Nat /\ r \in Nat
  OBVIOUS
<1> HIDE DEF C, E, B
<1>7. 8 * r + E <= B
  BY <1>1, <1>3, <1>4, <1>5, <1>6
<1>. QED
  BY <1>7, Zenon DEF Budget, B, E

(* Nothing changes when bytes that are no command are passed over, if they   *)
(* are paid for.                                                             *)
LEMMA PassOver ==
  ASSUME NEW P, NEW n, Marked(P, n), NEW h, NEW c, NEW e, Right(P, n, h, c),
         e \in Nat, c <= e, e <= n, Cost(P, n, e) <= Cost(P, n, c),
         AllSent(P, n) => e = c
  PROVE  Right(P, n, h, e)
<1>1. h \in Ledger /\ h.ok /\ c \in Nat /\ Budget(P, n, Missing(h), c)
  BY DEF Right
<1>2. PICK o \in Nat : Owes(P, n, o, h.owed, c)
  BY DEF Right
<1> DEFINE list == h.owed
<1> HIDE DEF list
<1>3. \A x \in 1 .. n : e < x => c < x
  BY <1>1
<1>4. Owes(P, n, o, list, e)
  <2>1. ASSUME NEW x, x \in 1 .. n, e < x, Whole(P, x)
        PROVE  /\ o < P[x].no /\ P[x].no <= o + Len(list)
               /\ list[P[x].no - o] = Intent(P[x].cmd)
    BY <1>2, <1>3, <2>1, Zenon DEF Owes, list
  <2>2. ASSUME NEW x, NEW y, x \in 1 .. n, y \in 1 .. n, e < x, x < y, Whole(P, x), Whole(P, y)
        PROVE  P[x].no < P[y].no
    BY <1>2, <1>3, <2>2, Zenon DEF Owes, list
  <2>3. ASSUME AllSent(P, n)
        PROVE  Aligned(P, e) /\ o = Count(P, e) /\ o + Len(list) = Count(P, n)
    BY <1>2, <2>3, Zenon DEF Owes, list
  <2>. QED
    BY <2>1, <2>2, <2>3, Zenon DEF Owes
<1>5. Budget(P, n, Missing(h), e)
  <2> DEFINE m == Missing(h)
  <2>1. m \in Nat
    BY <1>1, MissingNat
  <2>2. c \in 0 .. n /\ e \in 0 .. n
    BY <1>1 DEF Marked
  <2>3. Budget(P, n, m, c)
    BY <1>1, Zenon
  <2> HIDE DEF m
  <2>4. m <= m
    BY <2>1
  <2>5. Budget(P, n, m, e)
    BY <2>1, <2>2, <2>3, <2>4, BudgetKept
  <2>. QED
    BY <2>5, Zenon DEF m
<1>. QED
  BY <1>1, <1>4, <1>5, Zenon DEF Right, list

(* The first place of a meaning in a list that has it. *)
LEMMA FirstPlace ==
  ASSUME NEW list, NEW m, list \in Seq(Intents), NEW k, k \in 1 .. Len(list), list[k] = m
  PROVE  /\ FirstOf(m, list) # {}
         /\ \A i \in FirstOf(m, list) : i \in Nat /\ 1 <= i /\ i <= k
<1> DEFINE S == {i \in 1 .. Len(list) : list[i] = m}
<1>1. DOMAIN list = 1 .. Len(list) /\ Len(list) \in Nat
  OBVIOUS
<1>2. S \subseteq Nat /\ S # {}
  OBVIOUS
<1>3. PICK i \in S : \A j \in S : i <= j
  BY <1>2, LeastExists
<1>4. i \in FirstOf(m, list)
  <2>1. i \in DOMAIN list /\ list[i] = m
    BY <1>1, <1>3
  <2>2. ASSUME NEW j, j \in 1 .. i - 1 PROVE list[j] # m
    <3> SUFFICES ASSUME list[j] = m PROVE FALSE
      OBVIOUS
    <3>1. i \in Nat /\ i <= Len(list)
      BY <1>1, <2>1
    <3>2. j \in S /\ j < i
      BY <1>1, <2>2, <3>1
    <3>. QED
      BY <1>3, <3>2, <3>1
  <2>. QED
    BY <2>1, <2>2 DEF FirstOf
<1>5. ASSUME NEW j, j \in FirstOf(m, list) PROVE j \in Nat /\ 1 <= j /\ j <= k
  <2>1. j \in 1 .. Len(list) /\ \A l \in 1 .. j - 1 : list[l] # m
    BY <1>1, <1>5, Zenon DEF FirstOf
  <2>2. ~(k \in 1 .. j - 1)
    BY <2>1
  <2>. QED
    BY <1>1, <2>1, <2>2
<1>. QED
  BY <1>4, <1>5

(* What taking a frame off does, when its command is owed. *)
LEMMA TakesFirst ==
  ASSUME NEW h, NEW frame, h \in Ledger, IsCommand(frame),
         NEW k, k \in 1 .. Len(h.owed), h.owed[k] = Meaning(frame)
  PROVE  \E i \in Nat : /\ 1 <= i /\ i <= k
                        /\ TakeOff(h, frame).owed = From(h.owed, i + 1)
                        /\ TakeOff(h, frame).lost = h.lost + (i - 1)
                        /\ TakeOff(h, frame).ok = h.ok
                        /\ TakeOff(h, frame) \in Ledger
<1> DEFINE list == h.owed
           at == FirstOf(Meaning(frame), list)
           i == CHOOSE j \in at : TRUE
           g == [h EXCEPT !.owed = From(@, i + 1), !.lost = @ + (i - 1)]
<1>1. list \in Seq(Intents)
  BY DEF Ledger
<1>2. at # {} /\ \A j \in at : j \in Nat /\ 1 <= j /\ j <= k
  <2> HIDE DEF list
  <2>. QED
    BY <1>1, FirstPlace DEF list
<1>3. i \in at
  BY <1>2
<1>4. TakeOff(h, frame) = g
  BY <1>2, Zenon DEF TakeOff
<1>5. i \in Nat /\ 1 <= i /\ i <= k
  BY <1>2, <1>3
<1> HIDE DEF i
<1>6. From(list, i + 1) \in Seq(Intents)
  <2>1. i <= Len(list)
    BY <1>1, <1>5
  <2> HIDE DEF list
  <2>. QED
    BY <1>1, <1>5, <2>1, IntentsRest
<1>7. /\ g.owed = From(list, i + 1) /\ g.lost = h.lost + (i - 1)
      /\ g.ok = h.ok /\ g \in Ledger
  <2>1. h.lost + (i - 1) \in Nat
    BY <1>5 DEF Ledger
  <2>. QED
    BY <1>6, <2>1 DEF Ledger
<1>. QED
  BY <1>4, <1>5, <1>7, Zenon

(* What is found no later than a place of a list lies in the list. *)
LEMMA NoFurther == \A l, k, i \in Nat : k \in 1 .. l /\ i <= k => i <= l
OBVIOUS

(* A command found is taken off what is owed. *)
LEMMA TakeOffKeeps ==
  ASSUME NEW P, NEW n, Marked(P, n), NEW h, NEW c, NEW x, NEW e, Right(P, n, h, c),
         x \in 1 .. n, c < x, e \in Nat, x <= e, e <= n, Whole(P, x),
         Cost(P, n, e) <= Cost(P, n, c) + 8,
         AllSent(P, n) => x = c + 1 /\ e = c + Size(P[x])
  PROVE  Right(P, n, TakeOff(h, Bytes(P[x].cmd)), e)
<1> DEFINE frame == Bytes(P[x].cmd)
           m == Intent(P[x].cmd)
           list == h.owed
           g == TakeOff(h, frame)
<1>1. h \in Ledger /\ h.ok /\ c \in Nat /\ list \in Seq(Intents) /\ n \in Nat
  BY DEF Right, Ledger, Marked
<1>2. PICK o \in Nat : Owes(P, n, o, list, c)
  BY DEF Right
<1>3. P[x].cmd \in Requests /\ P[x].no \in Nat
  BY DEF Marked, Mark
<1>4. Command(frame) /\ Meaning(frame) = m
  BY <1>3, RequestsAreCommands
<1>5. IsCommand(frame)
  <2> HIDE DEF frame
  <2>. QED
    BY <1>4 DEF Command, IsCommand, OUTPUT_SWITCH, SIGNAL_CONTROL
<1> DEFINE k == P[x].no - o
<1> HIDE DEF frame, m, list
<1>6. o < P[x].no /\ P[x].no <= o + Len(list) /\ list[k] = m
  BY <1>2, Zenon DEF Owes, m
<1>7. k \in 1 .. Len(list) /\ P[x].no = o + k /\ k \in Nat
  BY <1>1, <1>3, <1>6, SMTT(30)
<1> HIDE DEF k
<1>8. list[k] = Meaning(frame)
  BY <1>4, <1>6, Zenon
<1>9. PICK i \in Nat : /\ 1 <= i /\ i <= k /\ g.owed = From(list, i + 1)
                       /\ g.lost = h.lost + (i - 1)
                       /\ g.ok = h.ok /\ g \in Ledger
  BY <1>1, <1>5, <1>7, <1>8, TakesFirst, Zenon DEF list
<1> DEFINE rest == g.owed
<1> HIDE DEF g
<1>10. /\ Len(list) \in Nat /\ i <= Len(list)
       /\ Len(rest) = Len(list) - i
       /\ \A j \in 1 .. Len(list) - i : rest[j] = list[i + j]
  <2>1. Len(list) \in Nat /\ i <= Len(list)
    <3> DEFINE l == Len(list)
    <3>1. l \in Nat /\ k \in 1 .. l /\ k \in Nat /\ i <= k
      <4>1. l \in Nat
        BY <1>1
      <4>. QED
        BY <1>7, <1>9, <4>1, Zenon
    <3> HIDE DEF l
    <3>. QED
      BY <3>1, NoFurther, Zenon DEF l
  <2>2. /\ Len(From(list, i + 1)) = Len(list) - i
        /\ \A j \in 1 .. Len(list) - i : From(list, i + 1)[j] = list[i + j]
    BY <1>1, <2>1, IntentsRest, ZenonT(30)
  <2>3. rest = From(list, i + 1)
    BY <1>9, Zenon
  <2>. QED
    BY <2>1, <2>2, <2>3, Zenon
<1> HIDE DEF rest
<1>11. /\ o + i \in Nat /\ (o + i) + Len(rest) = o + Len(list) /\ o + i <= P[x].no
  BY <1>7, <1>9, <1>10
<1>12. ASSUME NEW y, y \in 1 .. n, e < y, Whole(P, y)
       PROVE  /\ o + i < P[y].no /\ P[y].no <= (o + i) + Len(rest)
              /\ rest[P[y].no - (o + i)] = Intent(P[y].cmd)
  <2>1. c < y /\ x < y /\ P[y].no \in Nat
    <3>1. P[y].no \in Nat
      BY <1>12 DEF Marked, Mark
    <3>. QED
      BY <1>1, <1>12, <3>1
  <2>2. P[y].no <= o + Len(list) /\ list[P[y].no - o] = Intent(P[y].cmd)
    BY <1>2, <1>12, <2>1, Zenon DEF Owes
  <2>3. P[x].no < P[y].no
    BY <1>2, <1>12, <2>1, Zenon DEF Owes
  <2>4. o + i < P[y].no
    BY <1>3, <1>11, <2>1, <2>3
  <2> DEFINE j == P[y].no - (o + i)
  <2>5. j \in 1 .. Len(list) - i /\ i + j = P[y].no - o
    BY <1>10, <2>1, <2>2, <2>4, SMTT(30)
  <2>6. rest[j] = list[i + j]
    BY <1>10, <2>5
  <2>. QED
    BY <1>11, <2>2, <2>4, <2>5, <2>6, Zenon
<1>13. ASSUME NEW y, NEW z, y \in 1 .. n, z \in 1 .. n, e < y, y < z, Whole(P, y), Whole(P, z)
       PROVE  P[y].no < P[z].no
  <2>1. c < y
    BY <1>1, <1>13
  <2>. QED
    BY <1>2, <1>13, <2>1, Zenon DEF Owes
<1>14. ASSUME AllSent(P, n)
       PROVE  Aligned(P, e) /\ o + i = Count(P, e) /\ (o + i) + Len(rest) = Count(P, n)
  <2>1. Aligned(P, c) /\ o = Count(P, c) /\ o + Len(list) = Count(P, n)
    BY <1>2, <1>14, Zenon DEF Owes
  <2>2. c + 1 <= n /\ x = c + 1 /\ e = c + Size(P[x])
    BY <1>1, <1>14
  <2>3. Aligned(P, e) /\ P[x].no = Count(P, c) + 1 /\ Count(P, e) = P[x].no
    <3>1. /\ Aligned(P, c + Size(P[c + 1])) /\ P[c + 1].no = Count(P, c) + 1
          /\ Count(P, c + Size(P[c + 1])) = P[c + 1].no
      BY <1>1, <1>14, <2>1, <2>2, NextWhole
    <3>. QED
      BY <2>2, <3>1, Zenon
  <2>4. P[x].no = o + 1
    BY <2>1, <2>3, Zenon
  <2>5. k = 1
    BY <1>7, <2>4
  <2>6. i = 1
    BY <1>9, <2>5
  <2>7. o + i = Count(P, e)
    BY <2>3, <2>4, <2>6, Zenon
  <2>. QED
    BY <1>11, <2>1, <2>3, <2>7, Zenon
<1>15. Owes(P, n, o + i, rest, e)
  BY <1>12, <1>13, <1>14, Zenon DEF Owes
<1>16. Budget(P, n, Missing(g), e)
  <2> DEFINE l == Missing(h)
             r == Missing(g)
             a == h.lost
             w == Len(list)
  <2>1. a \in Nat
    BY <1>1 DEF Ledger
  <2>2. w \in Nat /\ 1 <= i /\ i <= w
    BY <1>9, <1>10, Zenon
  <2>3. l = a + w
    BY Zenon DEF Missing, list
  <2>4. r = (a + (i - 1)) + (w - i)
    BY <1>9, <1>10, Zenon DEF Missing, rest
  <2>5. c \in 0 .. n /\ e \in 0 .. n
    BY <1>1
  <2>6. Budget(P, n, l, c)
    BY Zenon DEF Right
  <2> HIDE DEF l, r, a, w
  <2>7. l \in Nat /\ r \in Nat /\ r + 1 <= l
    BY <2>1, <2>2, <2>3, <2>4
  <2>8. Budget(P, n, r, e)
    BY <2>5, <2>6, <2>7, BudgetKept
  <2>. QED
    BY <2>8, Zenon DEF r
<1>. QED
  BY <1>1, <1>9, <1>11, <1>15, <1>16, Zenon DEF Right, rest, g, frame

-----------------------------------------------------------------------------
(* Every frame found is looked at in turn. *)
TakingOff(f, h, frames) ==
  f = [n \in 0 .. Len(frames) |->
         IF n = 0 THEN h ELSE TakeOff(f[n - 1], frames[n])]

(* The function that TakeAllOff speaks of exists. *)
LEMMA TakingOffExists ==
  ASSUME NEW h, NEW frames, frames \in Seq(Seq(Int))
  PROVE  \E f : TakingOff(f, h, frames) /\ TakeAllOff(h, frames) = f[Len(frames)]
<1> DEFINE R(f, k) == f = [n \in 0 .. k |-> IF n = 0 THEN h
                                            ELSE TakeOff(f[n - 1], frames[n])]
           S == {k \in Nat : \E f : R(f, k)}
<1>1. 0 \in S
  <2> DEFINE g == [n \in 0 .. 0 |-> h]
  <2>1. \A n \in 0 .. 0 : n = 0
    OBVIOUS
  <2>2. R(g, 0)
    BY <2>1, Zenon
  <2>. QED
    BY <2>2
<1>2. ASSUME NEW k \in Nat, k \in S PROVE k + 1 \in S
  <2>1. PICK f : R(f, k)
    BY <1>2
  <2> DEFINE g == [n \in 0 .. k + 1 |-> IF n = k + 1 THEN TakeOff(f[k], frames[k + 1]) ELSE f[n]]
             v(n) == IF n = 0 THEN h ELSE TakeOff(g[n - 1], frames[n])
  <2>2. \A n \in 0 .. k : f[n] = IF n = 0 THEN h
                                 ELSE TakeOff(f[n - 1], frames[n])
    BY <2>1, Zenon
  <2>3. ASSUME NEW n, n \in 0 .. k + 1 PROVE g[n] = v(n)
    <3>1. CASE n = k + 1
      <4>1. k \in 0 .. k + 1 /\ k # k + 1 /\ n # 0 /\ n - 1 = k
        BY <3>1
      <4>2. g[k] = f[k] /\ g[n] = TakeOff(f[k], frames[k + 1])
        BY <2>3, <3>1, <4>1, Zenon
      <4>. QED
        BY <3>1, <4>1, <4>2, Zenon
    <3>2. CASE n # k + 1
      <4>1. n \in 0 .. k /\ g[n] = f[n]
        BY <2>3, <3>2
      <4>2. CASE n = 0
        BY <2>2, <4>1, <4>2, Zenon
      <4>3. CASE n # 0
        <5>1. n - 1 \in 0 .. k + 1 /\ n - 1 # k + 1
          BY <4>1, <4>3
        <5>2. g[n - 1] = f[n - 1]
          BY <5>1, Zenon
        <5>. QED
          BY <2>2, <4>1, <4>3, <5>2, Zenon
      <4>. QED
        BY <4>2, <4>3
    <3>. QED
      BY <3>1, <3>2
  <2>4. g = [n \in 0 .. k + 1 |-> g[n]]
    OBVIOUS
  <2> HIDE DEF g
  <2>5. g = [n \in 0 .. k + 1 |-> v(n)]
    BY <2>3, <2>4, Zenon
  <2>6. k + 1 \in Nat
    OBVIOUS
  <2>. QED
    BY <2>5, <2>6, Zenon
<1>3. Len(frames) \in S
  <2>1. Len(frames) \in Nat
    OBVIOUS
  <2> HIDE DEF S
  <2>. QED
    BY <1>1, <1>2, <2>1, SetInduction
<1>4. PICK g : R(g, Len(frames))
  BY <1>3
<1>. QED
  BY <1>4, Zenon DEF TakeAllOff, TakingOff

(* No frame takes nothing off. *)
LEMMA TakeAllOffNone ==
  ASSUME NEW h
  PROVE  TakeAllOff(h, <<>>) = h
<1>1. <<>> \in Seq(Seq(Int)) /\ Len(<<>>) = 0 /\ 0 \in 0 .. 0
  OBVIOUS
<1>2. PICK f : TakingOff(f, h, <<>>) /\ TakeAllOff(h, <<>>) = f[Len(<<>>)]
  BY <1>1, TakingOffExists, Zenon
<1>. QED
  BY <1>1, <1>2, Zenon DEF TakingOff

(* A frame found last is taken off last. *)
LEMMA TakeAllOffNext ==
  ASSUME NEW h, NEW frames, NEW frame, frames \in Seq(Seq(Int)), frame \in Seq(Int)
  PROVE  TakeAllOff(h, Append(frames, frame)) = TakeOff(TakeAllOff(h, frames), frame)
<1> DEFINE k == Len(frames)
           all == Append(frames, frame)
<1>1. /\ k \in Nat /\ all \in Seq(Seq(Int)) /\ Len(all) = k + 1
      /\ all[k + 1] = frame /\ \A n \in 1 .. k : all[n] = frames[n]
  OBVIOUS
<1> HIDE DEF all
<1>2. PICK f : TakingOff(f, h, frames) /\ TakeAllOff(h, frames) = f[k]
  BY TakingOffExists, Zenon
<1>3. PICK g : TakingOff(g, h, all) /\ TakeAllOff(h, all) = g[Len(all)]
  BY <1>1, TakingOffExists, Zenon
<1> HIDE DEF k
<1>4. \A n \in 0 .. k : f[n] = IF n = 0 THEN h
                               ELSE TakeOff(f[n - 1], frames[n])
  BY <1>2, Zenon DEF TakingOff, k
<1>5. \A n \in 0 .. k + 1 : g[n] = IF n = 0 THEN h
                                   ELSE TakeOff(g[n - 1], all[n])
  BY <1>1, <1>3, Zenon DEF TakingOff
<1> DEFINE S == {n \in Nat : n <= k => f[n] = g[n]}
<1>6. 0 \in S
  <2>1. 0 \in 0 .. k /\ 0 \in 0 .. k + 1
    BY <1>1
  <2>. QED
    BY <1>4, <1>5, <2>1, Zenon
<1>7. ASSUME NEW n \in Nat, n \in S PROVE n + 1 \in S
  <2> SUFFICES ASSUME n + 1 <= k PROVE f[n + 1] = g[n + 1]
    OBVIOUS
  <2>1. /\ n + 1 \in 0 .. k /\ n + 1 \in 0 .. k + 1 /\ n + 1 \in 1 .. k
        /\ n + 1 # 0 /\ (n + 1) - 1 = n /\ n <= k
    BY <1>1
  <2>2. f[n] = g[n]
    BY <1>7, <2>1
  <2>3. f[n + 1] = TakeOff(f[n], frames[n + 1])
    BY <1>4, <2>1, Zenon
  <2>4. g[n + 1] = TakeOff(g[n], all[n + 1])
    BY <1>5, <2>1, Zenon
  <2>. QED
    BY <1>1, <2>1, <2>2, <2>3, <2>4, Zenon
<1>8. f[k] = g[k]
  <2>1. k \in S
    <3> HIDE DEF S
    <3>. QED
      BY <1>1, <1>6, <1>7, SetInduction
  <2>. QED
    BY <1>1, <2>1
<1>9. g[k + 1] = TakeOff(g[k], frame)
  <2>1. k \in Nat
    BY <1>1
  <2>2. k + 1 \in 0 .. k + 1 /\ k + 1 # 0 /\ (k + 1) - 1 = k
    BY <2>1
  <2>. QED
    BY <1>1, <1>5, <2>2, Zenon
<1>. QED
  BY <1>1, <1>2, <1>3, <1>8, <1>9, Zenon DEF all

-----------------------------------------------------------------------------
(* The parser at work. *)

(* The parser rests: nothing whole is left in the buffer of a line without a *)
(* cut, a full one begins in a cut piece, and what is left will not cost     *)
(* more.                                                                     *)
Still(P, n, m, b, buf) ==
  /\ Len(buf) = PARSE_BUF_SIZE => InCut(P, b + 1)
  /\ Aligned(P, b + Len(buf)) => Budget(P, n, m, b + Len(buf))

Quiet(P, n, m, b, buf) ==
  /\ AllSent(P, n) => Short(P, b, buf)
  /\ Still(P, n, m, b, buf)

(* An empty buffer rests. *)
LEMMA EmptyRests ==
  ASSUME NEW P, NEW n, NEW h, NEW b, NEW buf, Right(P, n, h, b), Len(buf) = 0
  PROVE  Quiet(P, n, Missing(h), b, buf)
<1>1. Short(P, b, buf)
  BY Zenon DEF Short
<1>2. b \in Nat /\ Budget(P, n, Missing(h), b)
  BY Zenon DEF Right
<1>3. Len(buf) # PARSE_BUF_SIZE /\ b + Len(buf) = b
  BY <1>2, FramesAssumption
<1>. QED
  BY <1>1, <1>2, <1>3, Zenon DEF Quiet, Still

(* So does one from which the parser gave up what it could. *)
LEMMA PaidIsStill ==
  ASSUME NEW P, NEW n, Marked(P, n), NEW b, NEW buf, Holds(P, n, b, buf),
         NEW h, Right(P, n, h, b), NEW rest, NEW d, IsRest(rest, buf, d),
         Paid(P, n, b, Len(buf), d)
  PROVE  Still(P, n, Missing(h), b + d, rest)
<1> DEFINE l == Len(buf)
           r == Len(rest)
<1>1. b \in Nat /\ l \in Nat /\ b + l <= n /\ n \in Nat
  BY DEF Holds, Marked
<1>2. r = l - d /\ d \in Nat /\ d <= l
  BY DEF IsRest
<1>3. h \in Ledger /\ Budget(P, n, Missing(h), b)
  BY Zenon DEF Right
<1>4. Missing(h) \in Nat /\ Missing(h) <= Missing(h)
  <2> DEFINE m == Missing(h)
  <2>1. m \in Nat
    BY <1>3, MissingNat
  <2> HIDE DEF m
  <2>2. m <= m
    BY <2>1
  <2>. QED
    BY <2>1, <2>2, Zenon DEF m
<1>5. (b + d) + r = b + l /\ b \in 0 .. n /\ b + l \in 0 .. n
  BY <1>1, <1>2
<1> HIDE DEF l, r
<1>6. ASSUME r = PARSE_BUF_SIZE PROVE InCut(P, (b + d) + 1)
  BY <1>2, <1>6, Zenon DEF Paid, l
<1>7. ASSUME Aligned(P, b + l) PROVE Budget(P, n, Missing(h), b + l)
  <2>1. Cost(P, n, b + l) <= Cost(P, n, b)
    BY <1>7, Zenon DEF Paid, l
  <2>. QED
    BY <1>3, <1>4, <1>5, <2>1, BudgetKept
<1>. QED
  BY <1>5, <1>6, <1>7, Zenon DEF Still, r

(* What one look at the buffer takes off it is taken off what is owed, too.  *)
LEMMA OneExtracted ==
  ASSUME NEW P, NEW n, Marked(P, n), NEW b, NEW buf, Holds(P, n, b, buf),
         Len(buf) <= PARSE_BUF_SIZE, NEW h, Right(P, n, h, b)
  PROVE  \E d \in Nat :
           /\ IsRest(TryExtractOne(buf).buf, buf, d)
           /\ \/ /\ TryExtractOne(buf).frame = NoFrame
                 /\ Right(P, n, h, b + d)
                 /\ Quiet(P, n, Missing(h), b + d, TryExtractOne(buf).buf)
              \/ /\ TryExtractOne(buf).frame # NoFrame
                 /\ TryExtractOne(buf).frame \in Seq(Int)
                 /\ d >= 1
                 /\ Right(P, n, TakeOff(h, TryExtractOne(buf).frame), b + d)
<1> DEFINE rest == TryExtractOne(buf).buf
           frame == TryExtractOne(buf).frame
<1>1. /\ n \in Nat /\ b \in Nat /\ Len(buf) \in Nat /\ buf \in Seq(Int) /\ b + Len(buf) <= n
  BY DEF Marked, Holds
<1>2. \A i \in 1 .. Len(buf) : buf[i] >= 0
  <2>1. \A i \in 1 .. Len(buf) : buf[i] \in Nat
    BY HoldsByte
  <2>. QED
    BY <2>1
<1>3. PICK d \in Nat :
        /\ IsRest(rest, buf, d)
        /\ \/ frame = NoFrame /\ Skips(buf, d)
           \/ \E k \in Nat : FirstAt(buf, k) /\ FrameAt(frame, buf, k, d)
  BY <1>1, <1>2, Extracted, Zenon
<1>4. Len(rest) = Len(buf) - d /\ d <= Len(buf)
  BY <1>3, Zenon DEF IsRest
<1>5. b + d \in Nat /\ b <= b + d /\ b + d <= n
  BY <1>1, <1>4
<1>6. AllSent(P, n) => Aligned(P, b)
  BY Zenon DEF Right, Owes
<1>7. ASSUME AllSent(P, n), Short(P, b, buf) PROVE frame = NoFrame /\ d = 0
  <2>1. TryExtractOne(buf) = [buf |-> buf, frame |-> NoFrame]
    BY <1>6, <1>7, ShortWaits
  <2>2. rest = buf /\ frame = NoFrame
    BY <2>1
  <2> HIDE DEF rest, frame
  <2> DEFINE l == Len(buf)
  <2>3. l \in Nat /\ l - d = l
    BY <1>1, <1>4, <2>2, Zenon
  <2> HIDE DEF l
  <2>4. d = 0
    BY <2>3
  <2>. QED
    BY <2>2, <2>4, Zenon
<1>8. ASSUME AllSent(P, n), ~Short(P, b, buf)
      PROVE  /\ frame = Bytes(P[b + 1].cmd) /\ Command(frame) /\ Len(frame) = d
             /\ d = Size(P[b + 1])
  <2> DEFINE z == Size(P[b + 1])
  <2>1. b + 1 \in 1 .. n /\ frame = Bytes(P[b + 1].cmd) /\ IsRest(rest, buf, z)
    BY <1>6, <1>8, WholeIsFound
  <2>2. Command(Bytes(P[b + 1].cmd)) /\ z \in {8, 12}
    BY <2>1, MarkedByte
  <2>3. Len(rest) = Len(buf) - z
    BY <2>1, Zenon DEF IsRest
  <2>4. Len(frame) = z
    BY <2>1, Zenon DEF Size
  <2> DEFINE l == Len(buf)
             r == Len(rest)
  <2>5. l \in Nat /\ r = l - z /\ r = l - d
    BY <1>1, <1>4, <2>3, Zenon
  <2> HIDE DEF l, r, z, rest, frame
  <2>6. z = d
    BY <2>2, <2>5
  <2>. QED
    BY <2>1, <2>2, <2>4, <2>6, Zenon DEF z
<1> HIDE DEF rest, frame
<1>9. CASE frame = NoFrame /\ Skips(buf, d)
  <2>1. AllSent(P, n) => Short(P, b, buf) /\ d = 0
    <3>1. ASSUME Command(frame) PROVE FALSE
      <4>1. Len(frame) \in {8, 12}
        BY <3>1 DEF Command
      <4>2. \A m \in {8, 12} : m # Len(NoFrame)
        BY DEF NoFrame
      <4>. QED
        BY <1>9, <4>1, <4>2, Zenon
    <3>. QED
      BY <1>7, <1>8, <3>1, Zenon
  <2>2. Paid(P, n, b, Len(buf), d)
    BY <1>9, SkipsPaid, Zenon
  <2>3. Cost(P, n, b + d) <= Cost(P, n, b)
    BY <2>2, Zenon DEF Paid
  <2>4. AllSent(P, n) => b + d = b
    BY <1>1, <2>1
  <2>5. Right(P, n, h, b + d)
    BY <1>5, <2>3, <2>4, PassOver, Zenon
  <2>6. Still(P, n, Missing(h), b + d, rest)
    BY <1>3, <2>2, PaidIsStill, Zenon
  <2>7. AllSent(P, n) => Short(P, b + d, rest)
    <3>1. d = 0 => Len(rest) = Len(buf)
      BY <1>1, <1>4
    <3>. QED
      BY <2>1, <2>4, <3>1, Zenon DEF Short
  <2>8. Quiet(P, n, Missing(h), b + d, rest)
    BY <2>6, <2>7, Zenon DEF Quiet
  <2>. QED
    BY <1>3, <1>9, <2>5, <2>8, Zenon DEF rest, frame
<1>10. CASE \E k \in Nat : FirstAt(buf, k) /\ FrameAt(frame, buf, k, d)
  <2>1. PICK k \in Nat : FirstAt(buf, k) /\ FrameAt(frame, buf, k, d)
    BY <1>10
  <2>2. /\ 1 <= k /\ k + 6 <= d /\ frame \in Seq(Int) /\ Len(frame) = d - k + 1
    BY <2>1 DEF FrameAt
  <2>3. d >= 1 /\ frame # NoFrame
    <3>1. Len(frame) # 0
      BY <2>2
    <3>2. Len(NoFrame) = 0
      BY DEF NoFrame
    <3>3. d >= 1
      BY <2>2
    <3>. QED
      BY <3>1, <3>2, <3>3, Zenon
  <2>4. ASSUME AllSent(P, n)
        PROVE  IsCommand(frame) /\ k = 1 /\ d = Size(P[b + 1])
    <3>1. ~Short(P, b, buf)
      BY <1>7, <2>3, <2>4, Zenon
    <3>2. Command(frame) /\ Len(frame) = d /\ d = Size(P[b + 1])
      BY <1>8, <2>4, <3>1, Zenon
    <3>3. IsCommand(frame)
      BY <3>2 DEF Command, IsCommand, OUTPUT_SWITCH, SIGNAL_CONTROL
    <3>4. d = d - k + 1
      BY <2>2, <3>2, Zenon
    <3>5. k = 1
      BY <3>4
    <3>. QED
      BY <3>2, <3>3, <3>5, Zenon
  <2>5. /\ IsCommand(frame) => Cost(P, n, b + d) <= Cost(P, n, b) + 8
        /\ ~IsCommand(frame) => Cost(P, n, b + d) <= Cost(P, n, b)
    BY <2>1, FoundCosts
  <2>6. CASE IsCommand(frame)
    <3> DEFINE x == b + k
    <3>1. x \in 1 .. n /\ Whole(P, x) /\ frame = Bytes(P[x].cmd)
      BY <2>1, <2>6, FoundWasSent
    <3>2. b < x /\ x <= b + d
      BY <1>1, <2>2
    <3>3. AllSent(P, n) => x = b + 1 /\ b + d = b + Size(P[x])
      BY <2>4, Zenon
    <3> HIDE DEF x
    <3>4. Right(P, n, TakeOff(h, Bytes(P[x].cmd)), b + d)
      BY <1>5, <2>5, <2>6, <3>1, <3>2, <3>3, TakeOffKeeps
    <3>5. Right(P, n, TakeOff(h, frame), b + d)
      BY <3>1, <3>4, Zenon
    <3>. QED
      BY <1>3, <2>2, <2>3, <3>5, Zenon DEF rest, frame
  <2>7. CASE ~IsCommand(frame)
    <3>1. TakeOff(h, frame) = h
      BY <2>7, Zenon DEF TakeOff
    <3>2. Right(P, n, h, b + d)
      BY <1>5, <2>4, <2>5, <2>7, PassOver, Zenon
    <3>3. Right(P, n, TakeOff(h, frame), b + d)
      BY <3>1, <3>2, Zenon
    <3>. QED
      BY <1>3, <2>2, <2>3, <3>3, Zenon DEF rest, frame
  <2>. QED
    BY <2>6, <2>7
<1>. QED
  BY <1>3, <1>9, <1>10, Zenon

Parsers == [buf : Seq(Int), rest : Seq(Int), frames : Seq(Seq(Int)), found : BOOLEAN]

(* The buffer begins behind place b and the bytes to come follow it, up to   *)
(* place N; the frames found are taken off the book led.                     *)
Parsed(P, n, N, led, p, b) ==
  /\ p \in Parsers
  /\ Len(p.buf) <= PARSE_BUF_SIZE
  /\ Holds(P, n, b, p.buf)
  /\ Holds(P, n, b + Len(p.buf), p.rest)
  /\ b + Len(p.buf) + Len(p.rest) = N
  /\ Right(P, n, TakeAllOff(led, p.frames), b)

(* When no frame was found the parser rests. *)
Rested(P, n, led, p, b) == Quiet(P, n, Missing(TakeAllOff(led, p.frames)), b, p.buf)

Rests(P, n, led, p, b) == p.found \/ Rested(P, n, led, p, b)

(* One step of the parser keeps the buffer in its place on the line. *)
LEMMA ExtractNextKeeps ==
  ASSUME NEW P, NEW n, Marked(P, n), NEW N, NEW led, NEW p, NEW b,
         Parsed(P, n, N, led, p, b), Rests(P, n, led, p, b)
  PROVE  \E c \in Nat : /\ Parsed(P, n, N, led, ExtractNext(p), c)
                        /\ Rests(P, n, led, ExtractNext(p), c)
                        /\ ExtractNext(p).rest = p.rest
                        /\ ExtractNext(p).found => p.found /\ Len(ExtractNext(p).buf) < Len(p.buf)
<1> DEFINE one == TryExtractOne(p.buf)
           q == ExtractNext(p)
<1>1. /\ p \in Parsers /\ Len(p.buf) <= PARSE_BUF_SIZE
      /\ Holds(P, n, b, p.buf) /\ Holds(P, n, b + Len(p.buf), p.rest)
      /\ b + Len(p.buf) + Len(p.rest) = N
      /\ Right(P, n, TakeAllOff(led, p.frames), b)
  BY DEF Parsed
<1>2. /\ p.buf \in Seq(Int) /\ p.rest \in Seq(Int) /\ p.frames \in Seq(Seq(Int))
      /\ p.found \in BOOLEAN /\ b \in Nat
  BY <1>1 DEF Parsers, Holds
<1>3. CASE ~p.found
  <2>1. q = p
    BY <1>3, Zenon DEF ExtractNext
  <2>. QED
    BY <1>2, <1>3, <2>1, Zenon
<1>4. CASE p.found
  <2>1. PICK d \in Nat :
          /\ IsRest(one.buf, p.buf, d)
          /\ \/ /\ one.frame = NoFrame
                /\ Right(P, n, TakeAllOff(led, p.frames), b + d)
                /\ Quiet(P, n, Missing(TakeAllOff(led, p.frames)), b + d, one.buf)
             \/ /\ one.frame # NoFrame
                /\ one.frame \in Seq(Int)
                /\ d >= 1
                /\ Right(P, n, TakeOff(TakeAllOff(led, p.frames), one.frame), b + d)
    BY <1>1, OneExtracted, Zenon
  <2> HIDE DEF one
  <2>2. /\ one.buf \in Seq(Int) /\ Len(one.buf) = Len(p.buf) - d
        /\ d <= Len(p.buf) /\ Len(p.buf) \in Nat
    BY <1>2, <2>1 DEF IsRest
  <2>3. /\ Len(one.buf) <= PARSE_BUF_SIZE
        /\ Holds(P, n, b + d, one.buf)
        /\ Holds(P, n, (b + d) + Len(one.buf), p.rest)
        /\ (b + d) + Len(one.buf) + Len(p.rest) = N
        /\ b + d \in Nat
    <3>1. Holds(P, n, b + d, one.buf)
      BY <1>1, <2>1, HoldsRest, Zenon
    <3>2. (b + d) + Len(one.buf) = b + Len(p.buf) /\ b + d \in Nat
      <4> DEFINE l == Len(p.buf)
                 m == Len(one.buf)
      <4>1. l \in Nat /\ m = l - d
        BY <2>2
      <4> HIDE DEF l, m
      <4>2. (b + d) + m = b + l
        BY <1>2, <4>1
      <4>3. b + d \in Nat
        BY <1>2
      <4>. QED
        BY <4>2, <4>3, Zenon DEF l, m
    <3>3. Len(one.buf) <= PARSE_BUF_SIZE
      <4> DEFINE l == Len(p.buf)
                 m == Len(one.buf)
                 K == PARSE_BUF_SIZE
      <4>1. l \in Nat /\ m = l - d /\ l <= K /\ K \in Nat
        <5>1. K \in Nat
          BY FramesAssumption
        <5>. QED
          BY <1>1, <2>2, <5>1, Zenon
      <4> HIDE DEF l, m, K
      <4>2. m <= K
        BY <4>1
      <4>. QED
        BY <4>2, Zenon DEF m, K
    <3>. QED
      BY <1>1, <3>1, <3>2, <3>3, Zenon
  <2>4. CASE one.frame = NoFrame
    <3>1. q = [p EXCEPT !.buf = one.buf, !.found = FALSE]
      BY <1>4, <2>4, Zenon DEF ExtractNext, one
    <3>2. /\ q \in Parsers /\ q.buf = one.buf /\ q.rest = p.rest /\ q.frames = p.frames
          /\ q.found = FALSE
      BY <1>1, <2>2, <3>1 DEF Parsers
    <3>3. Right(P, n, TakeAllOff(led, p.frames), b + d)
      BY <2>1, <2>4, Zenon
    <3> HIDE DEF q
    <3>4. Parsed(P, n, N, led, q, b + d)
      BY <2>3, <3>2, <3>3, Zenon DEF Parsed
    <3>5. Rests(P, n, led, q, b + d)
      BY <2>1, <2>4, <3>2, Zenon DEF Rests, Rested
    <3>. QED
      BY <2>3, <3>2, <3>4, <3>5, Zenon DEF q
  <2>5. CASE one.frame # NoFrame
    <3>1. /\ one.frame \in Seq(Int) /\ d >= 1
          /\ Right(P, n, TakeOff(TakeAllOff(led, p.frames), one.frame), b + d)
      BY <2>1, <2>5
    <3>2. q = [p EXCEPT !.buf = one.buf, !.frames = Append(@, one.frame)]
      BY <1>4, <2>5, Zenon DEF ExtractNext, one
    <3>3. Append(p.frames, one.frame) \in Seq(Seq(Int))
      BY <1>2, <3>1
    <3>4. /\ q \in Parsers /\ q.buf = one.buf /\ q.rest = p.rest
          /\ q.frames = Append(p.frames, one.frame) /\ q.found = p.found
      BY <1>1, <2>2, <3>2, <3>3 DEF Parsers
    <3>5. TakeAllOff(led, Append(p.frames, one.frame))
            = TakeOff(TakeAllOff(led, p.frames), one.frame)
      BY <1>2, <3>1, TakeAllOffNext
    <3> HIDE DEF q
    <3>6. Parsed(P, n, N, led, q, b + d)
      BY <2>3, <3>1, <3>4, <3>5, Zenon DEF Parsed
    <3>7. Rests(P, n, led, q, b + d)
      BY <1>4, <3>4, Zenon DEF Rests
    <3>8. Len(one.buf) < Len(p.buf)
      <4>1. d >= 1
        BY <3>1
      <4>. QED
        BY <2>2, <4>1
    <3>. QED
      BY <1>4, <2>3, <3>4, <3>6, <3>7, <3>8, Zenon DEF q
  <2>. QED
    BY <2>4, <2>5
<1>. QED
  BY <1>2, <1>3, <1>4

(* The parser's steps one after another. *)
Extracting(f, p, k) ==
  f = [n \in 0 .. k |-> IF n = 0 THEN [p EXCEPT !.found = TRUE] ELSE ExtractNext(f[n - 1])]

(* The function that ExtractAll speaks of exists. *)
LEMMA ExtractingExists ==
  ASSUME NEW p, NEW m, m \in Nat
  PROVE  \E f : Extracting(f, p, m)
<1> DEFINE S == {k \in Nat : \E f : Extracting(f, p, k)}
           q == [p EXCEPT !.found = TRUE]
<1> HIDE DEF q
<1>1. 0 \in S
  <2> DEFINE g == [n \in 0 .. 0 |-> q]
  <2>1. \A n \in 0 .. 0 : n = 0
    OBVIOUS
  <2>2. g = [n \in 0 .. 0 |-> IF n = 0 THEN q ELSE ExtractNext(g[n - 1])]
    BY <2>1, Zenon
  <2>. QED
    BY <2>2, Zenon DEF Extracting, q
<1>2. ASSUME NEW k \in Nat, k \in S PROVE k + 1 \in S
  <2>1. PICK f : Extracting(f, p, k)
    BY <1>2
  <2> DEFINE g == [n \in 0 .. k + 1 |-> IF n = k + 1 THEN ExtractNext(f[k]) ELSE f[n]]
             v(n) == IF n = 0 THEN q ELSE ExtractNext(g[n - 1])
  <2>2. \A n \in 0 .. k : f[n] = IF n = 0 THEN q ELSE ExtractNext(f[n - 1])
    BY <2>1, Zenon DEF Extracting, q
  <2>3. ASSUME NEW n, n \in 0 .. k + 1 PROVE g[n] = v(n)
    <3>1. CASE n = k + 1
      <4>1. k \in 0 .. k + 1 /\ k # k + 1 /\ n # 0 /\ n - 1 = k
        BY <3>1
      <4>2. g[k] = f[k] /\ g[n] = ExtractNext(f[k])
        BY <2>3, <3>1, <4>1, Zenon
      <4>. QED
        BY <3>1, <4>1, <4>2, Zenon
    <3>2. CASE n # k + 1
      <4>1. n \in 0 .. k /\ g[n] = f[n]
        BY <2>3, <3>2
      <4>2. CASE n = 0
        BY <2>2, <4>1, <4>2, Zenon
      <4>3. CASE n # 0
        <5>1. n - 1 \in 0 .. k + 1 /\ n - 1 # k + 1
          BY <4>1, <4>3
        <5>2. g[n - 1] = f[n - 1]
          BY <5>1, Zenon
        <5>. QED
          BY <2>2, <4>1, <4>3, <5>2, Zenon
      <4>. QED
        BY <4>2, <4>3
    <3>. QED
      BY <3>1, <3>2
  <2>4. g = [n \in 0 .. k + 1 |-> g[n]]
    OBVIOUS
  <2> HIDE DEF g
  <2>5. g = [n \in 0 .. k + 1 |-> v(n)]
    BY <2>3, <2>4, Zenon
  <2>6. Extracting(g, p, k + 1)
    BY <2>5, Zenon DEF Extracting, q
  <2>7. k + 1 \in Nat
    OBVIOUS
  <2>. QED
    BY <2>6, <2>7, Zenon
<1> HIDE DEF S
<1>3. m \in S
  BY <1>1, <1>2, SetInduction
<1>. QED
  BY <1>3, Zenon DEF S

(* Every whole frame in the buffer is found. *)
LEMMA ExtractAllKeeps ==
  ASSUME NEW P, NEW n, Marked(P, n), NEW N, NEW led, NEW p, NEW b,
         Parsed(P, n, N, led, p, b)
  PROVE  \E c \in Nat : /\ Parsed(P, n, N, led, ExtractAll(p), c)
                        /\ Rested(P, n, led, ExtractAll(p), c)
                        /\ ExtractAll(p).rest = p.rest
<1> DEFINE K == Len(p.buf)
<1>1. p \in Parsers /\ p.buf \in Seq(Int) /\ K \in Nat /\ b \in Nat
  BY DEF Parsed, Parsers, Holds
<1>2. PICK f : Extracting(f, p, K) /\ ExtractAll(p) = f[K]
  <2>1. \E f : Extracting(f, p, K)
    BY <1>1, ExtractingExists
  <2>. QED
    BY <2>1, Zenon DEF ExtractAll, Extracting
<1> DEFINE Good(q, k) == \E c \in Nat : /\ Parsed(P, n, N, led, q, c)
                                        /\ Rests(P, n, led, q, c)
                                        /\ q.rest = p.rest
                                        /\ q.found => Len(q.buf) + k <= K
           S == {k \in Nat : k <= K => Good(f[k], k)}
<1> HIDE DEF K, Good
<1>3. \A k \in 0 .. K : f[k] = IF k = 0 THEN [p EXCEPT !.found = TRUE] ELSE ExtractNext(f[k - 1])
  BY <1>2, Zenon DEF Extracting
<1>4. 0 \in S
  <2> DEFINE q == f[0]
  <2>1. q = [p EXCEPT !.found = TRUE]
    <3>1. 0 \in 0 .. K
      BY <1>1
    <3>. QED
      BY <1>3, <3>1, Zenon
  <2>2. q \in Parsers /\ q.found = TRUE /\ q.buf = p.buf /\ q.rest = p.rest /\ q.frames = p.frames
    BY <1>1, <2>1 DEF Parsers
  <2> HIDE DEF q
  <2>3. Parsed(P, n, N, led, q, b)
    BY <2>2, Zenon DEF Parsed
  <2>4. Rests(P, n, led, q, b)
    BY <2>2, Zenon DEF Rests
  <2>5. Len(q.buf) + 0 <= K
    BY <1>1, <2>2 DEF K
  <2>6. Good(q, 0)
    BY <1>1, <2>2, <2>3, <2>4, <2>5, Zenon DEF Good
  <2>. QED
    BY <2>6, Zenon DEF q
<1>5. ASSUME NEW k \in Nat, k \in S PROVE k + 1 \in S
  <2> SUFFICES ASSUME k + 1 <= K PROVE Good(f[k + 1], k + 1)
    OBVIOUS
  <2>1. k <= K /\ k + 1 \in 0 .. K /\ k + 1 # 0 /\ (k + 1) - 1 = k
    BY <1>1
  <2> DEFINE q == f[k]
  <2>2. Good(q, k)
    BY <1>5, <2>1, Zenon
  <2>3. f[k + 1] = ExtractNext(q)
    BY <1>3, <2>1, Zenon
  <2> HIDE DEF q
  <2>4. PICK c \in Nat : /\ Parsed(P, n, N, led, q, c) /\ Rests(P, n, led, q, c)
                         /\ q.rest = p.rest
                         /\ q.found => Len(q.buf) + k <= K
    BY <2>2, Zenon DEF Good
  <2> DEFINE t == ExtractNext(q)
  <2>5. PICK d \in Nat : /\ Parsed(P, n, N, led, t, d) /\ Rests(P, n, led, t, d)
                         /\ t.rest = q.rest
                         /\ t.found => q.found /\ Len(t.buf) < Len(q.buf)
    BY <2>4, ExtractNextKeeps, Zenon
  <2> HIDE DEF t
  <2>6. Len(t.buf) \in Nat /\ Len(q.buf) \in Nat
    BY <2>4, <2>5 DEF Parsed, Parsers
  <2>7. ASSUME t.found PROVE Len(t.buf) + (k + 1) <= K
    <3>1. Len(t.buf) < Len(q.buf) /\ Len(q.buf) + k <= K
      BY <2>4, <2>5, <2>7, Zenon
    <3> DEFINE x == Len(t.buf)
               y == Len(q.buf)
    <3>2. x \in Nat /\ y \in Nat /\ x < y /\ y + k <= K
      BY <2>6, <3>1, Zenon
    <3> HIDE DEF x, y
    <3>3. x + (k + 1) <= K
      BY <1>1, <3>2
    <3>. QED
      BY <3>3, Zenon DEF x
  <2>8. t.rest = p.rest
    BY <2>4, <2>5, Zenon
  <2>9. Good(t, k + 1)
    BY <2>5, <2>7, <2>8, Zenon DEF Good
  <2>. QED
    BY <2>3, <2>9, Zenon DEF t
<1>6. Good(f[K], K)
  <2>1. K \in S
    <3> HIDE DEF S
    <3>. QED
      BY <1>1, <1>4, <1>5, SetInduction
  <2>. QED
    BY <1>1, <2>1
<1> DEFINE q == f[K]
<1>7. PICK c \in Nat : /\ Parsed(P, n, N, led, q, c) /\ Rests(P, n, led, q, c)
                       /\ q.rest = p.rest
                       /\ q.found => Len(q.buf) + K <= K
  BY <1>6, Zenon DEF Good
<1> HIDE DEF q
<1>8. Rested(P, n, led, q, c)
  <2>1. CASE q.found
    <3>1. Len(q.buf) \in Nat
      BY <1>7 DEF Parsed, Parsers
    <3>2. Len(q.buf) + K <= K
      BY <1>7, <2>1, Zenon
    <3> DEFINE y == Len(q.buf)
    <3>3. y \in Nat /\ y + K <= K
      BY <3>1, <3>2, Zenon
    <3> HIDE DEF y
    <3>4. y = 0
      BY <1>1, <3>3
    <3>5. Right(P, n, TakeAllOff(led, q.frames), c)
      BY <1>7, Zenon DEF Parsed
    <3>6. Len(q.buf) = 0
      BY <3>4, Zenon DEF y
    <3>. QED
      BY <3>5, <3>6, EmptyRests, Zenon DEF Rested
  <2>2. CASE ~q.found
    BY <1>7, <2>2, Zenon DEF Rests
  <2>. QED
    BY <2>1, <2>2
<1>. QED
  BY <1>2, <1>7, <1>8, Zenon DEF q

(* The oldest half goes only where something was cut off: a buffer without   *)
(* a whole frame is never full otherwise.  The cut pays for it.              *)
LEMMA MakeRoomKeeps ==
  ASSUME NEW P, NEW n, Marked(P, n), NEW b, NEW buf, NEW h, Holds(P, n, b, buf),
         Len(buf) <= PARSE_BUF_SIZE, Right(P, n, h, b), Quiet(P, n, Missing(h), b, buf)
  PROVE  \E d \in Nat : /\ IsRest(MakeRoom(buf), buf, d)
                        /\ Len(MakeRoom(buf)) < PARSE_BUF_SIZE
                        /\ Right(P, n, h, b + d)
<1> DEFINE K == PARSE_BUF_SIZE
           L == Len(buf)
<1>1. /\ K \in Int /\ 12 <= K
  BY FramesAssumption
<1>2. /\ n \in Nat /\ b \in Nat /\ L \in Nat /\ L <= K /\ buf \in Seq(Int) /\ b + L <= n
  BY DEF Marked, Holds
<1> HIDE DEF K, L
<1>3. CASE L = K
  <2> DEFINE d == K \div 2
  <2>1. d \in Nat /\ 1 <= d /\ d <= L
    BY <1>1, <1>3
  <2> HIDE DEF d
  <2>2. MakeRoom(buf) = From(buf, d + 1)
    BY <1>3, Zenon DEF MakeRoom, d, K, L
  <2>3. IsRest(From(buf, d + 1), buf, d)
    BY <1>2, <2>1, RestIs DEF L
  <2> DEFINE room == From(buf, d + 1)
  <2>4. Len(room) = L - d
    BY <2>3, Zenon DEF IsRest, L
  <2> HIDE DEF room
  <2> DEFINE m == Len(room)
  <2>5. m = L - d /\ L \in Nat /\ L <= K /\ d \in Nat /\ 1 <= d
    BY <1>2, <2>1, <2>4, Zenon
  <2> HIDE DEF m
  <2>6. m < K
    BY <1>1, <2>5
  <2>7. Len(room) < K
    BY <2>6, Zenon DEF m
  <2>8. ~AllSent(P, n)
    <3> SUFFICES ASSUME AllSent(P, n) PROVE FALSE
      OBVIOUS
    <3>1. L = 0 \/ L < Size(P[b + 1])
      BY Zenon DEF Quiet, Short, L
    <3>2. b + 1 \in 1 .. n
      BY <1>1, <1>2, <1>3
    <3>3. Size(P[b + 1]) \in {8, 12}
      BY <3>2, MarkedByte
    <3>. QED
      BY <1>1, <1>2, <1>3, <3>1, <3>3
  <2>9. b + d \in Nat /\ b <= b + d
    BY <1>2, <2>1
  <2>10. Cost(P, n, b + d) <= Cost(P, n, b)
    <3>1. InCut(P, b + 1)
      BY <1>3, Zenon DEF Quiet, Still, K, L
    <3>2. /\ b + L <= n /\ L <= PARSE_BUF_SIZE /\ 1 \in Nat /\ 1 <= 1
          /\ d - 1 + 7 <= PARSE_BUF_SIZE
      BY <1>1, <1>2 DEF K, d
    <3>3. Cost(P, n, b + d) <= Cost(P, n, b + 1 - 1)
      BY <1>2, <2>1, <3>1, <3>2, CutPaysBuffer
    <3>4. b + 1 - 1 = b
      BY <1>2
    <3>. QED
      BY <3>3, <3>4, Zenon
  <2>11. b + d <= n
    BY <1>2, <2>1
  <2>12. Right(P, n, h, b + d)
    BY <1>2, <2>8, <2>9, <2>10, <2>11, PassOver, Zenon
  <2>. QED
    BY <2>1, <2>2, <2>3, <2>7, <2>12, Zenon DEF room, K
<1>4. CASE L # K
  <2>1. MakeRoom(buf) = buf
    BY <1>4, Zenon DEF MakeRoom, K, L
  <2>2. IsRest(buf, buf, 0) /\ b + 0 = b /\ 0 \in Nat
    BY <1>2, AllIsRest
  <2>3. L < K
    BY <1>1, <1>2, <1>4
  <2>. QED
    BY <2>1, <2>2, <2>3, Zenon DEF K, L
<1>. QED
  BY <1>3, <1>4

(* One filling of the buffer and all that is found in it. *)
LEMMA FeedOnceKeeps ==
  ASSUME NEW P, NEW n, Marked(P, n), NEW N, NEW led, NEW p, NEW b,
         Parsed(P, n, N, led, p, b), Rested(P, n, led, p, b)
  PROVE  \E c \in Nat :
           /\ Parsed(P, n, N, led, FeedOnce(p), c)
           /\ Rested(P, n, led, FeedOnce(p), c)
           /\ p.rest # <<>> => Len(FeedOnce(p).rest) < Len(p.rest)
           /\ p.rest = <<>> => FeedOnce(p) = p
<1> DEFINE h == TakeAllOff(led, p.frames)
           room == MakeRoom(p.buf)
           space == PARSE_BUF_SIZE - Len(room)
           take == IF Len(p.rest) <= space THEN Len(p.rest) ELSE space
           front == SubSeq(p.rest, 1, take)
           left == From(p.rest, take + 1)
           put == room \o front
           q == [p EXCEPT !.buf = room \o SubSeq(p.rest, 1, take), !.rest = From(@, take + 1)]
<1>1. /\ p \in Parsers /\ Len(p.buf) <= PARSE_BUF_SIZE
      /\ Holds(P, n, b, p.buf) /\ Holds(P, n, b + Len(p.buf), p.rest)
      /\ b + Len(p.buf) + Len(p.rest) = N
      /\ Right(P, n, h, b)
  BY DEF Parsed
<1>2. /\ p.buf \in Seq(Int) /\ p.rest \in Seq(Int) /\ b \in Nat /\ n \in Nat
      /\ Len(p.buf) \in Nat /\ Len(p.rest) \in Nat /\ PARSE_BUF_SIZE \in Nat
  BY <1>1, FramesAssumption DEF Parsers, Holds, Marked
<1>3. CASE p.rest = <<>>
  <2>1. FeedOnce(p) = p
    BY <1>3, Zenon DEF FeedOnce
  <2>. QED
    BY <1>2, <1>3, <2>1, Zenon
<1>4. CASE p.rest # <<>>
  <2> HIDE DEF h
  <2>1. PICK d \in Nat : /\ IsRest(room, p.buf, d)
                         /\ Len(room) < PARSE_BUF_SIZE
                         /\ Right(P, n, h, b + d)
    <3>1. Quiet(P, n, Missing(h), b, p.buf)
      BY Zenon DEF Rested, h
    <3>. QED
      BY <1>1, <3>1, MakeRoomKeeps, Zenon
  <2>2. FeedOnce(p) = ExtractAll(q)
    BY <1>4, Zenon DEF FeedOnce
  <2> HIDE DEF room
  <2>3. /\ room \in Seq(Int) /\ Len(room) = Len(p.buf) - d /\ d <= Len(p.buf)
    BY <2>1 DEF IsRest
  <2>4. Len(p.rest) # 0
    BY <1>2, <1>4
  <2>5. /\ take \in Nat /\ 1 <= take /\ take <= Len(p.rest)
        /\ Len(room) + take <= PARSE_BUF_SIZE
    <3> DEFINE l == Len(p.rest)
               m == Len(room)
               K == PARSE_BUF_SIZE
    <3>1. l \in Nat /\ l # 0 /\ m \in Nat /\ m < K /\ K \in Nat
      BY <1>2, <2>1, <2>3, <2>4
    <3>2. take = IF l <= K - m THEN l ELSE K - m
      BY Zenon
    <3> HIDE DEF l, m, K, take
    <3>3. take \in Nat /\ 1 <= take /\ take <= l /\ m + take <= K
      BY <3>1, <3>2
    <3>. QED
      BY <3>3, Zenon DEF l, m, K
  <2> HIDE DEF take
  <2>6. front \in Seq(Int) /\ Len(front) = take
    BY <1>2, <2>5, FrontIs
  <2>7. IsRest(left, p.rest, take)
    BY <1>2, <2>5, RestIs
  <2> HIDE DEF left, front
  <2>8. left \in Seq(Int) /\ Len(left) = Len(p.rest) - take
    BY <2>7 DEF IsRest
  <2>9. Holds(P, n, b + d, room)
    BY <1>1, <2>1, HoldsRest, Zenon
  <2>10. (b + d) + Len(room) = b + Len(p.buf) /\ b + d \in Nat
    <3> DEFINE l == Len(p.buf)
               m == Len(room)
    <3>1. l \in Nat /\ m = l - d /\ b \in Nat /\ d \in Nat
      BY <1>2, <2>3
    <3> HIDE DEF l, m
    <3>2. (b + d) + m = b + l /\ b + d \in Nat
      BY <3>1
    <3>. QED
      BY <3>2, Zenon DEF l, m
  <2>11. Holds(P, n, (b + d) + Len(room), front)
    <3>1. Holds(P, n, b + Len(p.buf), front)
      BY <1>1, <1>2, <2>5, HoldsFront, Zenon DEF front
    <3>. QED
      BY <2>10, <3>1, Zenon
  <2>12. Holds(P, n, b + d, put) /\ Len(put) = Len(room) + Len(front)
    <3>1. Holds(P, n, b + d, room \o front) /\ Len(room \o front) = Len(room) + Len(front)
      BY <2>9, <2>11, HoldsJoined
    <3>. QED
      BY <3>1, Zenon
  <2>13. Holds(P, n, (b + Len(p.buf)) + take, left)
    BY <1>1, <2>7, HoldsRest, Zenon
  <2>14. /\ put \in Seq(Int) /\ Len(put) <= PARSE_BUF_SIZE
         /\ (b + d) + Len(put) = (b + Len(p.buf)) + take
         /\ (b + d) + Len(put) + Len(left) = N
    <3>1. put \in Seq(Int)
      BY <2>12 DEF Holds
    <3> DEFINE l == Len(p.buf)
               m == Len(room)
               r == Len(p.rest)
               s == Len(left)
               t == Len(put)
               K == PARSE_BUF_SIZE
    <3>2. /\ l \in Nat /\ m \in Nat /\ r \in Nat /\ m + take <= K /\ take \in Nat
          /\ b \in Nat /\ d \in Nat /\ K \in Nat
      BY <1>2, <2>3, <2>5
    <3>3. (b + d) + m = b + l
      BY <2>10
    <3>4. t = m + take
      BY <2>6, <2>12
    <3>5. s = r - take
      BY <2>8
    <3>6. b + l + r = N
      BY <1>1
    <3> HIDE DEF l, m, r, s, t, K
    <3>7. t <= K /\ (b + d) + t = (b + l) + take /\ (b + d) + t + s = N
      BY <3>2, <3>3, <3>4, <3>5, <3>6
    <3>. QED
      BY <3>1, <3>7, Zenon DEF l, s, t, K
  <2>15. /\ q \in Parsers /\ q.buf = put /\ q.rest = left /\ q.frames = p.frames
    <3>1. q = [p EXCEPT !.buf = put, !.rest = left]
      BY Zenon DEF left, front
    <3> HIDE DEF q, put
    <3>. QED
      BY <1>1, <2>8, <2>14, <3>1 DEF Parsers
  <2> HIDE DEF q, put
  <2>16. Parsed(P, n, N, led, q, b + d)
    BY <2>1, <2>12, <2>13, <2>14, <2>15, Zenon DEF Parsed, h
  <2>17. PICK c \in Nat : /\ Parsed(P, n, N, led, ExtractAll(q), c)
                          /\ Rested(P, n, led, ExtractAll(q), c)
                          /\ ExtractAll(q).rest = q.rest
    BY <2>16, ExtractAllKeeps, Zenon
  <2>18. Len(left) < Len(p.rest)
    <3> DEFINE s == Len(left)
               r == Len(p.rest)
    <3>1. s = r - take /\ r \in Nat /\ take \in Nat /\ 1 <= take
      BY <1>2, <2>5, <2>8
    <3> HIDE DEF s, r
    <3>2. s < r
      BY <3>1
    <3>. QED
      BY <3>2, Zenon DEF s, r
  <2>. QED
    BY <1>4, <2>2, <2>15, <2>17, <2>18, Zenon
<1>. QED
  BY <1>3, <1>4

Feeding(f, z, k) == f = [n \in 0 .. k |-> IF n = 0 THEN z ELSE FeedOnce(f[n - 1])]

(* The function that ParserFeed speaks of exists. *)
LEMMA FeedingExists ==
  ASSUME NEW z, NEW m, m \in Nat
  PROVE  \E f : Feeding(f, z, m)
<1> DEFINE S == {k \in Nat : \E f : Feeding(f, z, k)}
<1>1. 0 \in S
  <2> DEFINE g == [n \in 0 .. 0 |-> z]
  <2>1. \A n \in 0 .. 0 : n = 0
    OBVIOUS
  <2>2. g = [n \in 0 .. 0 |-> IF n = 0 THEN z ELSE FeedOnce(g[n - 1])]
    BY <2>1, Zenon
  <2>. QED
    BY <2>2, Zenon DEF Feeding
<1>2. ASSUME NEW k \in Nat, k \in S PROVE k + 1 \in S
  <2>1. PICK f : Feeding(f, z, k)
    BY <1>2
  <2> DEFINE g == [n \in 0 .. k + 1 |-> IF n = k + 1 THEN FeedOnce(f[k]) ELSE f[n]]
             v(n) == IF n = 0 THEN z ELSE FeedOnce(g[n - 1])
  <2>2. \A n \in 0 .. k : f[n] = IF n = 0 THEN z ELSE FeedOnce(f[n - 1])
    BY <2>1, Zenon DEF Feeding
  <2>3. ASSUME NEW n, n \in 0 .. k + 1 PROVE g[n] = v(n)
    <3>1. CASE n = k + 1
      <4>1. k \in 0 .. k + 1 /\ k # k + 1 /\ n # 0 /\ n - 1 = k
        BY <3>1
      <4>2. g[k] = f[k] /\ g[n] = FeedOnce(f[k])
        BY <2>3, <3>1, <4>1, Zenon
      <4>. QED
        BY <3>1, <4>1, <4>2, Zenon
    <3>2. CASE n # k + 1
      <4>1. n \in 0 .. k /\ g[n] = f[n]
        BY <2>3, <3>2
      <4>2. CASE n = 0
        BY <2>2, <4>1, <4>2, Zenon
      <4>3. CASE n # 0
        <5>1. n - 1 \in 0 .. k + 1 /\ n - 1 # k + 1
          BY <4>1, <4>3
        <5>2. g[n - 1] = f[n - 1]
          BY <5>1, Zenon
        <5>. QED
          BY <2>2, <4>1, <4>3, <5>2, Zenon
      <4>. QED
        BY <4>2, <4>3
    <3>. QED
      BY <3>1, <3>2
  <2>4. g = [n \in 0 .. k + 1 |-> g[n]]
    OBVIOUS
  <2> HIDE DEF g
  <2>5. g = [n \in 0 .. k + 1 |-> v(n)]
    BY <2>3, <2>4, Zenon
  <2>6. Feeding(g, z, k + 1)
    BY <2>5, Zenon DEF Feeding
  <2>7. k + 1 \in Nat
    OBVIOUS
  <2>. QED
    BY <2>6, <2>7, Zenon
<1> HIDE DEF S
<1>3. m \in S
  BY <1>1, <1>2, SetInduction
<1>. QED
  BY <1>3, Zenon DEF S


(* What the parser finds in bytes of the line, in whatever pieces they come, *)
(* is what was sent.                                                         *)
LEMMA Fed ==
  ASSUME NEW P, NEW n, Marked(P, n), NEW b, NEW buf, NEW data, NEW led,
         Holds(P, n, b, buf), Len(buf) <= PARSE_BUF_SIZE,
         Holds(P, n, b + Len(buf), data),
         Right(P, n, led, b),
         Quiet(P, n, Missing(led), b, buf)
  PROVE  \E c \in Nat :
           /\ Holds(P, n, c, ParserFeed(buf, data).buf)
           /\ c + Len(ParserFeed(buf, data).buf) = b + Len(buf) + Len(data)
           /\ Len(ParserFeed(buf, data).buf) <= PARSE_BUF_SIZE
           /\ Right(P, n, TakeAllOff(led, ParserFeed(buf, data).frames), c)
           /\ Quiet(P, n, Missing(TakeAllOff(led, ParserFeed(buf, data).frames)), c,
                    ParserFeed(buf, data).buf)
<1> DEFINE K == Len(data)
           N == b + Len(buf) + K
           z == [buf |-> buf, rest |-> data, frames |-> <<>>, found |-> FALSE]
<1>1. buf \in Seq(Int) /\ data \in Seq(Int) /\ K \in Nat /\ b \in Nat /\ Len(buf) \in Nat
  BY DEF Holds
<1>2. PICK f : Feeding(f, z, K) /\ ParserFeed(buf, data) = f[K]
  <2>1. \E f : Feeding(f, z, K)
    BY <1>1, FeedingExists
  <2>. QED
    BY <2>1, Zenon DEF ParserFeed, Feeding
<1>3. /\ z \in Parsers /\ z.buf = buf /\ z.rest = data /\ z.frames = <<>>
  BY <1>1 DEF Parsers
<1> DEFINE Good(q, k) == \E c \in Nat : /\ Parsed(P, n, N, led, q, c)
                                        /\ Rested(P, n, led, q, c)
                                        /\ Len(q.rest) + k <= K \/ q.rest = <<>>
           S == {k \in Nat : k <= K => Good(f[k], k)}
<1>4. Parsed(P, n, N, led, z, b) /\ Rested(P, n, led, z, b)
  <2> HIDE DEF z
  <2>1. TakeAllOff(led, z.frames) = led
    BY <1>3, TakeAllOffNone, Zenon
  <2>. QED
    BY <1>3, <2>1, Zenon DEF Parsed, Rested
<1> HIDE DEF K, N, z, Good
<1>6. \A k \in 0 .. K : f[k] = IF k = 0 THEN z ELSE FeedOnce(f[k - 1])
  BY <1>2, Zenon DEF Feeding
<1>7. 0 \in S
  <2>1. 0 \in 0 .. K /\ K + 0 <= K /\ 0 \in Nat
    BY <1>1
  <2>2. f[0] = z
    BY <1>6, <2>1, Zenon
  <2>3. Good(z, 0)
    BY <1>1, <1>3, <1>4, <2>1, Zenon DEF Good, K
  <2>. QED
    BY <2>1, <2>2, <2>3, Zenon
<1>8. ASSUME NEW k \in Nat, k \in S PROVE k + 1 \in S
  <2> SUFFICES ASSUME k + 1 <= K PROVE Good(f[k + 1], k + 1)
    OBVIOUS
  <2>1. k <= K /\ k + 1 \in 0 .. K /\ k + 1 # 0 /\ (k + 1) - 1 = k
    BY <1>1
  <2> DEFINE q == f[k]
  <2>2. Good(q, k)
    BY <1>8, <2>1, Zenon
  <2>3. f[k + 1] = FeedOnce(q)
    BY <1>6, <2>1, Zenon
  <2> HIDE DEF q
  <2>4. PICK c \in Nat : /\ Parsed(P, n, N, led, q, c)
                         /\ Rested(P, n, led, q, c)
                         /\ Len(q.rest) + k <= K \/ q.rest = <<>>
    BY <2>2, Zenon DEF Good
  <2> DEFINE t == FeedOnce(q)
  <2>5. PICK d \in Nat : /\ Parsed(P, n, N, led, t, d)
                         /\ Rested(P, n, led, t, d)
                         /\ q.rest # <<>> => Len(t.rest) < Len(q.rest)
                         /\ q.rest = <<>> => t = q
    BY <2>4, FeedOnceKeeps, Zenon
  <2> HIDE DEF t
  <2>6. Len(t.rest) \in Nat /\ Len(q.rest) \in Nat
    BY <2>4, <2>5, SMTT(30) DEF Parsed, Parsers
  <2>7. Len(t.rest) + (k + 1) <= K \/ t.rest = <<>>
    <3>1. CASE q.rest = <<>>
      BY <2>5, <3>1, Zenon
    <3>2. CASE q.rest # <<>>
      <4> DEFINE x == Len(t.rest)
                 y == Len(q.rest)
      <4>1. x \in Nat /\ y \in Nat /\ x < y /\ y + k <= K
        BY <2>4, <2>5, <2>6, <3>2, Zenon
      <4> HIDE DEF x, y
      <4>2. x + (k + 1) <= K
        BY <1>1, <4>1
      <4>. QED
        BY <4>2, Zenon DEF x
    <3>. QED
      BY <3>1, <3>2
  <2>8. Good(t, k + 1)
    BY <2>5, <2>7, Zenon DEF Good
  <2>. QED
    BY <2>3, <2>8, Zenon DEF t
<1>9. Good(f[K], K)
  <2>1. K \in S
    <3> HIDE DEF S
    <3>. QED
      BY <1>1, <1>7, <1>8, SetInduction
  <2>. QED
    BY <1>1, <2>1
<1> DEFINE q == f[K]
<1>10. PICK c \in Nat : /\ Parsed(P, n, N, led, q, c)
                        /\ Rested(P, n, led, q, c)
                        /\ Len(q.rest) + K <= K \/ q.rest = <<>>
  BY <1>9, Zenon DEF Good
<1> HIDE DEF q
<1>11. /\ q.rest \in Seq(Int) /\ q.buf \in Seq(Int)
       /\ Len(q.buf) <= PARSE_BUF_SIZE /\ Holds(P, n, c, q.buf)
       /\ c + Len(q.buf) + Len(q.rest) = N
       /\ Right(P, n, TakeAllOff(led, q.frames), c)
  BY <1>10 DEF Parsed, Parsers
<1>12. Len(q.rest) = 0
  <2> DEFINE y == Len(q.rest)
  <2>1. y \in Nat
    BY <1>11
  <2>2. q.rest = <<>> => y = 0
    OBVIOUS
  <2>3. y + K <= K \/ y = 0
    BY <1>10, <2>2, Zenon
  <2> HIDE DEF y
  <2>4. y = 0
    BY <1>1, <2>1, <2>3
  <2>. QED
    BY <2>4, Zenon DEF y
<1>13. c + Len(q.buf) = N
  <2> DEFINE l == Len(q.buf)
             y == Len(q.rest)
  <2>1. l \in Nat /\ c + l + y = N /\ y = 0
    BY <1>11, <1>12
  <2> HIDE DEF l, y
  <2>2. c + l = N
    BY <2>1
  <2>. QED
    BY <2>2, Zenon DEF l
<1>. QED
  BY <1>2, <1>10, <1>11, <1>13, Zenon DEF Rested, q, N, K

-----------------------------------------------------------------------------
(* Another piece on the line. *)
Longer(P, n, q, k, number) ==
  [x \in 1 .. n + k |->
     IF x <= n THEN P[x] ELSE [cmd |-> q, off |-> x - n, size |-> k, no |-> number]]

IsLonger(L, P, n, q, k, number) ==
  /\ \A x \in 1 .. n : x \in 1 .. n + k /\ L[x] = P[x]
  /\ \A x \in 1 .. n + k : x \notin 1 .. n =>
       /\ x - n \in 1 .. k
       /\ L[x] = [cmd |-> q, off |-> x - n, size |-> k, no |-> number]

(* What the longer line holds: the line before, and the piece. *)
LEMMA LongerIs ==
  ASSUME NEW P, NEW n, n \in Nat, NEW q, NEW k, k \in Nat, NEW number
  PROVE  IsLonger(Longer(P, n, q, k, number), P, n, q, k, number)
<1> DEFINE L == Longer(P, n, q, k, number)
           v(x) == IF x <= n THEN P[x] ELSE [cmd |-> q, off |-> x - n, size |-> k, no |-> number]
<1>1. L = [x \in 1 .. n + k |-> v(x)]
  BY Zenon DEF Longer
<1> HIDE DEF L
<1>2. \A x \in 1 .. n + k : L[x] = v(x)
  BY <1>1, Zenon
<1>3. ASSUME NEW x, x \in 1 .. n PROVE x \in 1 .. n + k /\ L[x] = P[x]
  <2>1. x \in 1 .. n + k /\ x <= n
    BY <1>3
  <2>. QED
    BY <1>2, <2>1, Zenon
<1>4. ASSUME NEW x, x \in 1 .. n + k, x \notin 1 .. n
      PROVE  /\ x - n \in 1 .. k
             /\ L[x] = [cmd |-> q, off |-> x - n, size |-> k, no |-> number]
  <2>1. x - n \in 1 .. k /\ ~(x <= n)
    BY <1>4
  <2>. QED
    BY <1>2, <1>4, <2>1, Zenon
<1>. QED
  BY <1>3, <1>4, Zenon DEF L, IsLonger

(* The longer line is made of pieces, too. *)
LEMMA LongerMarked ==
  ASSUME NEW P, NEW n, Marked(P, n), NEW q, q \in Requests, NEW k, k \in Nat,
         1 <= k, k <= Len(Bytes(q)), NEW number, number \in Nat
  PROVE  Marked(Longer(P, n, q, k, number), n + k)
<1> DEFINE L == Longer(P, n, q, k, number)
           N == n + k
           m(x) == [cmd |-> q, off |-> x - n, size |-> k, no |-> number]
<1>1. n \in Nat /\ N \in Nat
  BY DEF Marked
<1>2. IsLonger(L, P, n, q, k, number)
  BY <1>1, LongerIs
<1>3. \A x \in 1 .. n : x \in 1 .. N /\ L[x] = P[x]
  BY <1>2, Zenon DEF IsLonger
<1>4. \A x \in 1 .. N : x \notin 1 .. n => x - n \in 1 .. k /\ L[x] = m(x)
  BY <1>2, Zenon DEF IsLonger
<1>5. \A x : /\ m(x).cmd = q /\ m(x).off = x - n /\ m(x).size = k /\ m(x).no = number
  OBVIOUS
<1>6. L = [x \in 1 .. N |-> L[x]]
  BY Zenon DEF Longer
<1> HIDE DEF L, N
<1>7. ASSUME NEW x, x \in 1 .. N
      PROVE  /\ L[x] \in Mark
             /\ 1 <= L[x].off /\ L[x].off <= L[x].size /\ L[x].size <= Size(L[x])
  <2>1. CASE x \in 1 .. n
    BY <1>3, <2>1 DEF Marked
  <2>2. CASE x \notin 1 .. n
    <3>1. x - n \in 1 .. k /\ L[x] = m(x)
      BY <1>4, <1>7, <2>2, Zenon
    <3>2. m(x) \in Mark
      BY <3>1 DEF Mark
    <3> HIDE DEF m
    <3>3. Size(L[x]) = Len(Bytes(q))
      BY <1>5, <3>1, Zenon DEF Size
    <3>4. L[x].off = x - n /\ L[x].size = k
      BY <1>5, <3>1, Zenon
    <3> DEFINE u == L[x].off
               v == L[x].size
    <3>5. u \in 1 .. k /\ v = k
      BY <3>1, <3>4, Zenon
    <3> HIDE DEF u, v
    <3>6. 1 <= u /\ u <= v
      BY <3>5
    <3>7. v <= Size(L[x])
      BY <3>3, <3>5, Zenon
    <3>. QED
      BY <3>1, <3>2, <3>6, <3>7, Zenon DEF u, v
  <2>. QED
    BY <2>1, <2>2
<1>8. ASSUME NEW x, x \in 1 .. N, NEW d, d \in Int,
             1 <= L[x].off + d, L[x].off + d <= L[x].size
      PROVE  /\ x + d \in 1 .. N
             /\ L[x + d].off = L[x].off + d
             /\ L[x + d].cmd = L[x].cmd
             /\ L[x + d].size = L[x].size
             /\ L[x + d].no = L[x].no
  <2>1. CASE x \in 1 .. n
    <3>1. L[x] = P[x]
      BY <1>3, <2>1
    <3>2. 1 <= P[x].off + d /\ P[x].off + d <= P[x].size
      BY <1>8, <3>1, Zenon
    <3>3. /\ x + d \in 1 .. n
          /\ P[x + d].off = P[x].off + d
          /\ P[x + d].cmd = P[x].cmd
          /\ P[x + d].size = P[x].size
          /\ P[x + d].no = P[x].no
      BY <1>8, <2>1, <3>2, InPiece
    <3>4. x + d \in 1 .. N /\ L[x + d] = P[x + d]
      BY <1>3, <3>3, Zenon
    <3>. QED
      BY <3>1, <3>3, <3>4, Zenon
  <2>2. CASE x \notin 1 .. n
    <3>1. x - n \in 1 .. k /\ L[x] = m(x)
      BY <1>4, <1>8, <2>2, Zenon
    <3> DEFINE y == x + d
    <3> HIDE DEF m
    <3>2. L[x].off = x - n /\ L[x].size = k
      BY <1>5, <3>1, Zenon
    <3>3. 1 <= (x - n) + d /\ (x - n) + d <= k
      BY <1>8, <3>2, Zenon
    <3>4. y \in 1 .. N /\ y \notin 1 .. n /\ y - n = (x - n) + d
      BY <1>1, <1>8, <3>3 DEF N
    <3> HIDE DEF y
    <3>5. L[y] = m(y)
      BY <1>4, <3>4, Zenon
    <3>6. /\ L[y].off = (x - n) + d /\ L[y].cmd = q /\ L[y].size = k /\ L[y].no = number
      BY <1>5, <3>4, <3>5, Zenon
    <3>7. L[x].cmd = q /\ L[x].no = number
      BY <1>5, <3>1, Zenon
    <3>. QED
      BY <3>2, <3>4, <3>6, <3>7, Zenon DEF y
  <2>. QED
    BY <2>1, <2>2
<1>9. ASSUME NEW x, x \in 1 .. N, L[x].off = L[x].size, x + 1 <= N
      PROVE  L[x + 1].off = 1
  <2>1. x + 1 \in 1 .. N
    BY <1>1, <1>9
  <2>2. CASE x + 1 \in 1 .. n
    <3>1. x \in 1 .. n
      BY <1>1, <1>9, <2>2
    <3>2. L[x] = P[x] /\ L[x + 1] = P[x + 1]
      BY <1>3, <2>2, <3>1, Zenon
    <3>3. P[x].off = P[x].size
      BY <1>9, <3>2, Zenon
    <3>4. x + 1 <= n
      BY <1>1, <2>2
    <3>5. P[x + 1].off = 1
      BY <3>1, <3>3, <3>4 DEF Marked
    <3>. QED
      BY <3>2, <3>5, Zenon
  <2>3. CASE x + 1 \notin 1 .. n
    <3> DEFINE y == x + 1
    <3> HIDE DEF y
    <3>1. L[y] = m(y) /\ m(y).off = y - n
      BY <1>4, <1>5, <2>1, <2>3, Zenon DEF y
    <3>2. CASE x = n
      <4>1. y - n = 1
        BY <1>1, <3>2 DEF y
      <4>. QED
        BY <3>1, <4>1, Zenon DEF y
    <3>3. CASE x # n
      <4>1. x \notin 1 .. n
        BY <1>1, <1>9, <2>3, <3>3
      <4>2. x - n \in 1 .. k /\ L[x] = m(x)
        BY <1>4, <1>9, <4>1, Zenon
      <4> HIDE DEF m
      <4>3. L[x].off = x - n /\ L[x].size = k
        BY <1>5, <4>2, Zenon
      <4>4. x - n = k
        BY <1>9, <4>3, Zenon
      <4>. QED
        BY <1>1, <1>9, <4>4 DEF N
    <3>. QED
      BY <3>2, <3>3
  <2>. QED
    BY <2>2, <2>3
<1>10. L \in [1 .. N -> Mark]
  BY <1>6, <1>7, Zenon
<1>. QED
  BY <1>1, <1>7, <1>8, <1>9, <1>10, Zenon DEF Marked, L, N

(* Every stretch of the line is where it was. *)
LEMMA LongerHolds ==
  ASSUME NEW P, NEW n, n \in Nat, NEW q, NEW k, k \in Nat, NEW number,
         NEW b, NEW s, Holds(P, n, b, s)
  PROVE  Holds(Longer(P, n, q, k, number), n + k, b, s)
<1> DEFINE L == Longer(P, n, q, k, number)
<1>1. /\ s \in Seq(Int) /\ b \in Nat /\ Len(s) \in Nat /\ b + Len(s) <= n
      /\ \A i \in 1 .. Len(s) : s[i] = Byte(P[b + i])
  BY DEF Holds
<1>2. \A x \in 1 .. n : L[x] = P[x]
  <2>1. IsLonger(L, P, n, q, k, number)
    BY LongerIs
  <2>. QED
    BY <2>1, Zenon DEF IsLonger
<1> HIDE DEF L
<1>3. \A i \in 1 .. Len(s) : b + i \in 1 .. n
  BY <1>1
<1>4. \A i \in 1 .. Len(s) : s[i] = Byte(L[b + i])
  BY <1>1, <1>2, <1>3, Zenon
<1>5. b + Len(s) <= n + k
  BY <1>1
<1>. QED
  BY <1>1, <1>4, <1>5, Zenon DEF Holds, L

(* The piece is the stretch behind it. *)
LEMMA LongerHoldsPiece ==
  ASSUME NEW P, NEW n, n \in Nat, NEW q, q \in Requests, NEW k, k \in Nat, 1 <= k,
         k <= Len(Bytes(q)), NEW number, NEW s, s \in Seq(Int), Len(s) = k,
         \A i \in 1 .. k : s[i] = Bytes(q)[i]
  PROVE  Holds(Longer(P, n, q, k, number), n + k, n, s)
<1> DEFINE L == Longer(P, n, q, k, number)
           m(x) == [cmd |-> q, off |-> x - n, size |-> k, no |-> number]
<1>1. \A x \in 1 .. n + k : x \notin 1 .. n => x - n \in 1 .. k /\ L[x] = m(x)
  <2>1. IsLonger(L, P, n, q, k, number)
    BY LongerIs
  <2>. QED
    BY <2>1, Zenon DEF IsLonger
<1> HIDE DEF L
<1>2. ASSUME NEW i, i \in 1 .. Len(s) PROVE s[i] = Byte(L[n + i])
  <2> DEFINE x == n + i
  <2>1. x \in 1 .. n + k /\ x \notin 1 .. n /\ x - n = i
    BY <1>2
  <2> HIDE DEF x
  <2>2. L[x] = m(x)
    BY <1>1, <2>1, Zenon
  <2>3. m(x).cmd = q /\ m(x).off = x - n
    OBVIOUS
  <2> HIDE DEF m
  <2>4. Byte(L[x]) = Bytes(q)[i]
    BY <2>1, <2>2, <2>3, Zenon DEF Byte
  <2>5. s[i] = Bytes(q)[i]
    BY <1>2, Zenon
  <2>. QED
    BY <2>4, <2>5, Zenon DEF x
<1>3. n + Len(s) <= n + k
  OBVIOUS
<1>. QED
  BY <1>2, <1>3, Zenon DEF Holds, L

(* The whole commands of the longer line. *)
LEMMA LongerWhole ==
  ASSUME NEW P, NEW n, n \in Nat, NEW q, NEW k, k \in Nat, 1 <= k, NEW number,
         NEW x, x \in 1 .. n + k
  PROVE  IF x \in 1 .. n THEN Whole(Longer(P, n, q, k, number), x) <=> Whole(P, x)
         ELSE /\ Whole(Longer(P, n, q, k, number), x) <=> x = n + 1 /\ k = Len(Bytes(q))
              /\ Longer(P, n, q, k, number)[x].no = number
              /\ Longer(P, n, q, k, number)[x].cmd = q
<1> DEFINE L == Longer(P, n, q, k, number)
           m == [cmd |-> q, off |-> x - n, size |-> k, no |-> number]
<1>1. IsLonger(L, P, n, q, k, number)
  BY LongerIs
<1> HIDE DEF L
<1>2. CASE x \in 1 .. n
  <2>1. L[x] = P[x]
    BY <1>1, <1>2, Zenon DEF IsLonger
  <2>. QED
    BY <1>2, <2>1, Zenon DEF Whole, L
<1>3. CASE x \notin 1 .. n
  <2>1. L[x] = m /\ x - n \in 1 .. k
    BY <1>1, <1>3, Zenon DEF IsLonger
  <2>2. m.cmd = q /\ m.off = x - n /\ m.size = k /\ m.no = number
    OBVIOUS
  <2> HIDE DEF m
  <2>3. x - n = 1 <=> x = n + 1
    OBVIOUS
  <2>4. Size(L[x]) = Len(Bytes(q))
    BY <2>1, <2>2, Zenon DEF Size
  <2>5. L[x].off = x - n /\ L[x].size = k /\ L[x].no = number /\ L[x].cmd = q
    BY <2>1, <2>2, Zenon
  <2>6. Whole(L, x) <=> x = n + 1 /\ k = Len(Bytes(q))
    BY <2>3, <2>4, <2>5, Zenon DEF Whole
  <2>. QED
    BY <1>3, <2>5, <2>6, Zenon DEF L
<1>. QED
  BY <1>2, <1>3

(* What was never cut off before was not cut off in its beginning. *)
LEMMA LongerAllSent ==
  ASSUME NEW P, NEW n, Marked(P, n), NEW q, NEW k, k \in Nat, 1 <= k, NEW number
  PROVE  AllSent(Longer(P, n, q, k, number), n + k)
           <=> AllSent(P, n) /\ k = Len(Bytes(q)) /\ number = Count(P, n) + 1
<1> DEFINE L == Longer(P, n, q, k, number)
           N == n + k
           m(x) == [cmd |-> q, off |-> x - n, size |-> k, no |-> number]
           A(Q, x) == /\ Q[x].size = Size(Q[x])
                      /\ Q[x].off = 1 => Q[x].no = Count(Q, x - 1) + 1
<1>1. n \in Nat
  BY DEF Marked
<1>2. IsLonger(L, P, n, q, k, number)
  BY <1>1, LongerIs
<1> HIDE DEF L
<1>3. \A x \in 1 .. n : L[x] = P[x]
  BY <1>2, Zenon DEF IsLonger
<1>4. \A x \in 0 .. n : Count(L, x) = Count(P, x)
  <2> SUFFICES ASSUME NEW x, x \in 0 .. n PROVE Count(L, x) = Count(P, x)
    OBVIOUS
  <2>1. x = 0 \/ x \in 1 .. n
    BY <1>1
  <2>. QED
    BY <1>3, <2>1, Zenon DEF Count
<1>5. ASSUME NEW x, x \in 1 .. n PROVE A(L, x) <=> A(P, x)
  <2>1. x - 1 \in 0 .. n /\ x \in 1 .. N
    BY <1>1, <1>5
  <2>2. L[x] = P[x] /\ Count(L, x - 1) = Count(P, x - 1)
    BY <1>3, <1>4, <1>5, <2>1, Zenon
  <2>. QED
    BY <2>2, Zenon
<1>6. ASSUME NEW x, x \in 1 .. N, x \notin 1 .. n
      PROVE  A(L, x) <=> k = Len(Bytes(q)) /\ (x = n + 1 => number = Count(P, n) + 1)
  <2>1. L[x] = m(x)
    BY <1>2, <1>6, Zenon DEF IsLonger
  <2>2. m(x).cmd = q /\ m(x).off = x - n /\ m(x).size = k /\ m(x).no = number
    OBVIOUS
  <2> HIDE DEF m
  <2>3. /\ L[x].cmd = q /\ L[x].off = x - n /\ L[x].size = k /\ L[x].no = number
        /\ Size(L[x]) = Len(Bytes(q))
    BY <2>1, <2>2, Zenon DEF Size
  <2>4. x - n = 1 <=> x = n + 1
    BY <1>1, <1>6
  <2>5. CASE x = n + 1
    <3>1. x - 1 = n /\ n \in 0 .. n
      BY <1>1, <2>5
    <3>2. Count(L, x - 1) = Count(P, n)
      BY <1>4, <3>1, Zenon
    <3>. QED
      BY <2>3, <2>4, <2>5, <3>2, Zenon
  <2>6. CASE x # n + 1
    BY <2>3, <2>4, <2>6, Zenon
  <2>. QED
    BY <2>5, <2>6
<1>7. /\ \A x \in 1 .. n : x \in 1 .. N
      /\ n + 1 \in 1 .. N /\ n + 1 \notin 1 .. n
  BY <1>1
<1>8. AllSent(L, N) <=> \A x \in 1 .. N : A(L, x)
  BY Zenon DEF AllSent
<1>9. AllSent(P, n) <=> \A x \in 1 .. n : A(P, x)
  BY Zenon DEF AllSent
<1> HIDE DEF A, N
<1>10. ASSUME AllSent(L, N)
       PROVE  AllSent(P, n) /\ k = Len(Bytes(q)) /\ number = Count(P, n) + 1
  BY <1>5, <1>6, <1>7, <1>8, <1>9, <1>10, Zenon
<1>11. ASSUME AllSent(P, n), k = Len(Bytes(q)), number = Count(P, n) + 1
       PROVE  AllSent(L, N)
  BY <1>5, <1>6, <1>8, <1>9, <1>11, Zenon
<1>. QED
  BY <1>10, <1>11, Zenon DEF L, N

(* Ends of pieces and numbers are what they were. *)
LEMMA LongerAligned ==
  ASSUME NEW P, NEW n, Marked(P, n), NEW q, NEW k, k \in Nat, NEW number,
         NEW c, c \in Nat, c <= n
  PROVE  /\ Aligned(Longer(P, n, q, k, number), c) <=> Aligned(P, c)
         /\ Count(Longer(P, n, q, k, number), c) = Count(P, c)
<1> DEFINE L == Longer(P, n, q, k, number)
<1>1. n \in Nat
  BY DEF Marked
<1>2. IsLonger(L, P, n, q, k, number)
  BY <1>1, LongerIs
<1> HIDE DEF L
<1>3. c = 0 \/ c \in 1 .. n
  BY <1>1
<1>4. c \in 1 .. n => L[c] = P[c]
  BY <1>2, Zenon DEF IsLonger
<1>. QED
  BY <1>3, <1>4, Zenon DEF Aligned, Count, L

(* What a place of the piece adds. *)
LEMMA LongerRate ==
  ASSUME NEW P, NEW n, NEW q, NEW k, NEW number, NEW L, IsLonger(L, P, n, q, k, number),
         NEW a, NEW d, NEW x, n \in Nat, k \in Nat, 1 <= k, x \in 1 .. n + k, x \notin 1 .. n
  PROVE  Rate(L, x, a, d)
           = IF k = Len(Bytes(q)) THEN (IF x = n + 1 THEN a ELSE 0)
             ELSE (IF x = n + k THEN d ELSE 0)
<1> DEFINE m == [cmd |-> q, off |-> x - n, size |-> k, no |-> number]
<1>1. x - n = 1 <=> x = n + 1
  OBVIOUS
<1>2. x - n = k <=> x = n + k
  OBVIOUS
<1>3. L[x] = m
  BY Zenon DEF IsLonger
<1>4. m.cmd = q /\ m.off = x - n /\ m.size = k
  OBVIOUS
<1> HIDE DEF m
<1>5. L[x].cmd = q /\ L[x].off = x - n /\ L[x].size = k
  BY <1>3, <1>4, Zenon
<1>6. Size(L[x]) = Len(Bytes(q))
  BY <1>5, Zenon DEF Size
<1>7. /\ Whole(L, x) <=> x = n + 1 /\ k = Len(Bytes(q))
      /\ CutEnds(L, x) <=> k # Len(Bytes(q)) /\ x = n + k
  BY <1>1, <1>2, <1>5, <1>6, Zenon DEF Whole, CutEnds, InCut
<1>8. Rate(L, x, a, d) = IF x = n + 1 /\ k = Len(Bytes(q)) THEN a
                         ELSE IF k # Len(Bytes(q)) /\ x = n + k THEN d ELSE 0
  BY <1>7, Zenon DEF Rate
<1>. QED
  BY <1>8, Zenon

(* What the piece adds: a for a whole command, d for a cut. *)
PieceAdds(q, k, a, d) == IF k = Len(Bytes(q)) THEN a ELSE d

(* What the line comes to behind the piece. *)
LEMMA LongerTally ==
  ASSUME NEW P, NEW n, NEW q, NEW k, NEW number, NEW L, IsLonger(L, P, n, q, k, number),
         n \in Nat, k \in Nat, 1 <= k, NEW a, NEW d, a \in Nat, d \in Nat
  PROVE  /\ \A c \in 0 .. n : Tally(L, n + k, a, d)[c] = Tally(P, n, a, d)[c]
         /\ Tally(L, n + k, a, d)[n + k]
              = Tally(P, n, a, d)[n] + PieceAdds(q, k, a, d)
<1> DEFINE N == n + k
           g == Tally(L, N, a, d)
           G == Tally(P, n, a, d)[n]
           whole == k = Len(Bytes(q))
           more(i) == IF whole THEN a ELSE IF i = k THEN d ELSE 0
           r(i) == IF whole THEN (IF i = 1 THEN a ELSE 0) ELSE (IF i = k THEN d ELSE 0)
           S == {i \in Nat : i + 1 <= k => g[n + (i + 1)] = G + more(i + 1)}
<1>1. \A c \in 0 .. n : g[c] = Tally(P, n, a, d)[c]
  <2>2. \A x \in 1 .. n : L[x] = P[x]
    BY Zenon DEF IsLonger
  <2>3. N \in Nat /\ n <= N
    OBVIOUS
  <2> HIDE DEF N
  <2>. QED
    BY <2>2, <2>3, TallyFront
<1>2. G \in Nat
  <2>1. n \in 0 .. n
    OBVIOUS
  <2>. QED
    BY <2>1, TallyNat
<1>3. \A x \in 1 .. N : x \notin 1 .. n =>
        Rate(L, x, a, d) = IF whole THEN (IF x = n + 1 THEN a ELSE 0)
                           ELSE (IF x = n + k THEN d ELSE 0)
  BY LongerRate
<1>4. \A x \in 1 .. N : g[x] = g[x - 1] + Rate(L, x, a, d)
  <2>1. N \in Nat
    OBVIOUS
  <2> HIDE DEF N
  <2>. QED
    BY <2>1, TallyStep
<1>5. ASSUME NEW i \in 1 .. k PROVE g[n + i] = g[n + (i - 1)] + r(i)
  <2> DEFINE x == n + i
  <2>1. /\ x \in 1 .. N /\ x \notin 1 .. n /\ x - 1 = n + (i - 1)
        /\ x = n + 1 <=> i = 1
        /\ x = n + k <=> i = k
    OBVIOUS
  <2> HIDE DEF g, N, x
  <2>2. Rate(L, x, a, d) = r(i)
    BY <1>3, <2>1, Zenon
  <2> HIDE DEF r
  <2>3. g[x] = g[n + (i - 1)] + r(i)
    BY <1>4, <2>1, <2>2, Zenon
  <2>. QED
    BY <2>3, Zenon DEF x
<1> HIDE DEF g, N, whole
<1>6. g[n] = G
  <2>1. n \in 0 .. n
    OBVIOUS
  <2>. QED
    BY <1>1, <2>1, Zenon
<1> HIDE DEF G
<1>7. 0 \in S
  <2>1. 0 + 1 = 1 /\ 1 \in 1 .. k /\ n + (1 - 1) = n /\ 0 \in Nat
    OBVIOUS
  <2>2. g[n + 1] = G + r(1)
    BY <1>5, <1>6, <2>1, Zenon
  <2>3. r(1) = more(1)
    OBVIOUS
  <2>. QED
    BY <2>1, <2>2, <2>3, Zenon
<1>8. ASSUME NEW i \in Nat, i \in S PROVE i + 1 \in S
  <2> SUFFICES ASSUME (i + 1) + 1 <= k PROVE g[n + ((i + 1) + 1)] = G + more((i + 1) + 1)
    OBVIOUS
  <2> DEFINE j == i + 1
  <2>1. j + 1 \in 1 .. k /\ (j + 1) - 1 = j /\ j <= k /\ j # k /\ j + 1 # 1
    OBVIOUS
  <2>2. g[n + j] = G + more(j)
    BY <1>8, <2>1
  <2>3. g[n + (j + 1)] = g[n + j] + r(j + 1)
    BY <1>5, <2>1, Zenon
  <2>4. (G + more(j)) + r(j + 1) = G + more(j + 1)
    <3>1. CASE whole
      <4>1. more(j) = a /\ r(j + 1) = 0 /\ more(j + 1) = a
        BY <2>1, <3>1, Zenon
      <4> HIDE DEF more, r
      <4>. QED
        BY <1>2, <4>1
    <3>2. CASE ~whole
      <4>1. more(j) = 0 /\ r(j + 1) = more(j + 1)
        BY <2>1, <3>2, Zenon
      <4>2. G + 0 = G
        BY <1>2
      <4> HIDE DEF more, r
      <4>. QED
        BY <4>1, <4>2, Zenon
    <3>. QED
      BY <3>1, <3>2
  <2> HIDE DEF more, r
  <2>. QED
    BY <2>2, <2>3, <2>4, Zenon
<1> HIDE DEF S
<1>9. Nat \subseteq S
  BY <1>7, <1>8, SetInduction
<1>10. g[N] = G + more(k)
  <2>1. k - 1 \in Nat /\ (k - 1) + 1 = k /\ k <= k
    OBVIOUS
  <2>2. k - 1 \in S
    BY <1>9, <2>1
  <2>. QED
    BY <2>1, <2>2, Zenon DEF S, N
<1>11. more(k) = IF whole THEN a ELSE d
  BY Zenon
<1>. QED
  BY <1>1, <1>10, <1>11, Zenon DEF g, N, G, whole, PieceAdds

(* The sums of the longer line: those of the line before, and one command    *)
(* more or one cut more.                                                     *)
LEMMA LongerSums ==
  ASSUME NEW P, NEW n, Marked(P, n), NEW q, NEW k, k \in Nat, 1 <= k, NEW number,
         NEW L, IsLonger(L, P, n, q, k, number)
  PROVE  /\ \A c \in 0 .. n : Cost(L, n + k, c) = Cost(P, n, c)
         /\ Begun(L, n + k, n + k) = Begun(P, n, n) + PieceAdds(q, k, 8, 0)
         /\ Spent(L, n + k, n + k) = Spent(P, n, n) + PieceAdds(q, k, 0, PARSE_BUF_SIZE)
<1> DEFINE N == n + k
           K == PARSE_BUF_SIZE
<1>1. n \in Nat /\ 8 \in Nat /\ 0 \in Nat /\ K \in Nat
  BY FramesAssumption DEF Marked
<1> HIDE DEF K
<1>2. /\ \A c \in 0 .. n : Tally(L, N, 8, 0)[c] = Tally(P, n, 8, 0)[c]
      /\ Tally(L, N, 8, 0)[N] = Tally(P, n, 8, 0)[n] + PieceAdds(q, k, 8, 0)
  BY <1>1, LongerTally
<1>3. /\ \A c \in 0 .. n : Tally(L, N, 0, K)[c] = Tally(P, n, 0, K)[c]
      /\ Tally(L, N, 0, K)[N] = Tally(P, n, 0, K)[n] + PieceAdds(q, k, 0, K)
  BY <1>1, LongerTally
<1> HIDE DEF N
<1>4. \A c \in 0 .. n : Cost(L, N, c) = Cost(P, n, c)
  BY <1>2, <1>3, Zenon DEF Cost, Begun, Spent, K
<1>. QED
  BY <1>2, <1>3, <1>4, Zenon DEF N, K, Begun, Spent

(* What bytes on the line do to what the parser already has. *)
LEMMA LongerShort ==
  ASSUME NEW P, NEW n, n \in Nat, NEW q, NEW k, k \in Nat, NEW number,
         NEW b, NEW buf, Holds(P, n, b, buf), Short(P, b, buf)
  PROVE  Short(Longer(P, n, q, k, number), b, buf)
<1> DEFINE L == Longer(P, n, q, k, number)
<1>1. IsLonger(L, P, n, q, k, number)
  BY LongerIs
<1> HIDE DEF L
<1>2. b \in Nat /\ Len(buf) \in Nat /\ b + Len(buf) <= n
  BY DEF Holds
<1>3. CASE Len(buf) = 0
  BY <1>3, Zenon DEF Short, L
<1>4. CASE Len(buf) # 0
  <2>1. b + 1 \in 1 .. n
    BY <1>2, <1>4
  <2>2. L[b + 1] = P[b + 1]
    BY <1>1, <2>1, Zenon DEF IsLonger
  <2>. QED
    BY <2>2, Zenon DEF Short, L
<1>. QED
  BY <1>3, <1>4

(* What the longer line does to the balance, a command being missing... *)
LEMMA WholeBalances ==
  ASSUME NEW P, NEW n, Marked(P, n), NEW q, q \in Requests, NEW number,
         NEW m, m \in Nat, NEW c, c \in 0 .. n, Budget(P, n, m, c)
  PROVE  Budget(Longer(P, n, q, Len(Bytes(q)), number), n + Len(Bytes(q)), m + 1, c)
<1> DEFINE k == Len(Bytes(q))
           L == Longer(P, n, q, k, number)
           N == n + k
<1>1. k \in Nat /\ 1 <= k
  <2>1. k \in {8, 12}
    BY RequestsAreCommands DEF Command
  <2>2. \A l \in {8, 12} : l \in Nat /\ 1 <= l
    OBVIOUS
  <2>. QED
    BY <2>1, <2>2, Zenon
<1>2. /\ \A y \in 0 .. n : Cost(L, N, y) = Cost(P, n, y)
      /\ Begun(L, N, N) = Begun(P, n, n) + PieceAdds(q, k, 8, 0)
  <2>1. IsLonger(L, P, n, q, k, number)
    BY <1>1, LongerIs DEF Marked
  <2> HIDE DEF L, k
  <2>. QED
    BY <1>1, <2>1, LongerSums
<1>3. PieceAdds(q, k, 8, 0) = 8
  BY Zenon DEF PieceAdds
<1>4. n \in 0 .. n
  BY DEF Marked
<1> DEFINE C == Cost(P, n, c)  B == Begun(P, n, n)
<1>5. C \in Int /\ B \in Nat
  <2>1. B \in Nat
    BY <1>4, Sums
  <2>2. C \in Int
    BY CostGrows
  <2>. QED
    BY <2>1, <2>2, Zenon
<1>6. 8 * m + C <= B
  BY Zenon DEF Budget
<1>7. Cost(L, N, c) = C /\ Begun(L, N, N) = B + 8
  BY <1>2, <1>3, Zenon
<1> HIDE DEF L, N, k, C, B
<1>8. 8 * (m + 1) + C <= B + 8
  BY <1>5, <1>6
<1>9. Budget(L, N, m + 1, c)
  BY <1>7, <1>8, Zenon DEF Budget
<1>. QED
  BY <1>9, Zenon DEF L, N, k

(* ... and when it is cut off. *)
LEMMA CutBalances ==
  ASSUME NEW P, NEW n, Marked(P, n), NEW q, NEW k, k \in Nat, 1 <= k, k # Len(Bytes(q)),
         NEW number, NEW m
  PROVE  \A c \in 0 .. n : Budget(P, n, m, c) => Budget(Longer(P, n, q, k, number), n + k, m, c)
<1> DEFINE L == Longer(P, n, q, k, number)
           N == n + k
           B == Begun(P, n, n)
<1>1. /\ \A y \in 0 .. n : Cost(L, N, y) = Cost(P, n, y)
      /\ Begun(L, N, N) = B + PieceAdds(q, k, 8, 0)
  <2>1. IsLonger(L, P, n, q, k, number)
    BY LongerIs DEF Marked
  <2> HIDE DEF L
  <2>. QED
    BY <2>1, LongerSums
<1>2. PieceAdds(q, k, 8, 0) = 0
  BY Zenon DEF PieceAdds
<1>3. B \in Nat
  <2>1. n \in 0 .. n
    BY DEF Marked
  <2>. QED
    BY <2>1, Sums
<1> HIDE DEF L, N, B
<1>4. B + 0 = B
  BY <1>3
<1>5. \A c \in 0 .. n : Cost(L, N, c) = Cost(P, n, c) /\ Begun(L, N, N) = B
  BY <1>1, <1>2, <1>4, Zenon
<1>. QED
  BY <1>5, Zenon DEF Budget, L, N, B

(* The parser still rests when the balance is kept. *)
LEMMA LongerQuiet ==
  ASSUME NEW P, NEW n, Marked(P, n), NEW q, NEW k, k \in Nat, 1 <= k, NEW number,
         NEW m, NEW more, NEW b, NEW buf, Holds(P, n, b, buf), Quiet(P, n, m, b, buf),
         \A c \in 0 .. n : Budget(P, n, m, c) => Budget(Longer(P, n, q, k, number), n + k, more, c)
  PROVE  Quiet(Longer(P, n, q, k, number), n + k, more, b, buf)
<1> DEFINE L == Longer(P, n, q, k, number)
           N == n + k
           K == PARSE_BUF_SIZE
           e == b + Len(buf)
<1>1. n \in Nat /\ b \in Nat /\ Len(buf) \in Nat /\ e <= n
  BY DEF Marked, Holds
<1>2. IsLonger(L, P, n, q, k, number)
  BY <1>1, LongerIs
<1>3. AllSent(L, N) => AllSent(P, n)
  BY LongerAllSent, Zenon
<1>4. Short(P, b, buf) => Short(L, b, buf)
  BY <1>1, LongerShort
<1>5. e \in Nat /\ e \in 0 .. n
  BY <1>1
<1>6. Aligned(L, e) => Aligned(P, e)
  <2> HIDE DEF e
  <2>. QED
    BY <1>1, <1>5, LongerAligned
<1>7. /\ AllSent(P, n) => Short(P, b, buf)
      /\ Len(buf) = K => InCut(P, b + 1)
      /\ Aligned(P, e) => Budget(P, n, m, e)
  BY Zenon DEF Quiet, Still
<1>8. Aligned(L, e) => Budget(L, N, more, e)
  <2> HIDE DEF L, N, e
  <2>. QED
    BY <1>5, <1>6, <1>7, Zenon DEF L, N
<1> HIDE DEF L, N
<1>9. Len(buf) = K => InCut(L, b + 1)
  <2> SUFFICES ASSUME Len(buf) = K PROVE InCut(L, b + 1)
    OBVIOUS
  <2>1. b + 1 \in 1 .. n
    BY <1>1, FramesAssumption
  <2>2. L[b + 1] = P[b + 1]
    BY <1>2, <2>1, Zenon DEF IsLonger
  <2>. QED
    BY <1>7, <2>2, Zenon DEF InCut
<1>. QED
  BY <1>3, <1>4, <1>7, <1>8, <1>9, Zenon DEF Quiet, Still, L, N

(* A command sent whole is owed behind the others. *)
LEMMA OwesOneMore ==
  ASSUME NEW P, NEW n, Marked(P, n), NEW q, q \in Requests, NEW o, o \in Nat,
         NEW list, list \in Seq(Intents), NEW c, c \in Nat, c <= n, Owes(P, n, o, list, c)
  PROVE  Owes(Longer(P, n, q, Len(Bytes(q)), o + Len(list) + 1), n + Len(Bytes(q)), o,
              Append(list, Intent(q)), c)
<1> DEFINE k == Len(Bytes(q))
           number == o + Len(list) + 1
           L == Longer(P, n, q, k, number)
           N == n + k
           more == Append(list, Intent(q))
<1>1. n \in Nat /\ Len(list) \in Nat /\ k \in Nat /\ 1 <= k
  <2>1. k \in {8, 12}
    BY RequestsAreCommands DEF Command
  <2>2. \A l \in {8, 12} : l \in Nat /\ 1 <= l
    OBVIOUS
  <2>3. n \in Nat /\ Len(list) \in Nat
    BY DEF Marked
  <2>. QED
    BY <2>1, <2>2, <2>3, Zenon
<1>2. /\ Len(more) = Len(list) + 1 /\ more[Len(list) + 1] = Intent(q)
      /\ \A i \in 1 .. Len(list) : more[i] = list[i]
  BY DEF Intents
<1>3. /\ \A x \in 1 .. n : c < x /\ Whole(P, x) =>
           /\ o < P[x].no /\ P[x].no <= o + Len(list)
           /\ list[P[x].no - o] = Intent(P[x].cmd)
      /\ \A x, y \in 1 .. n : c < x /\ x < y /\ Whole(P, x) /\ Whole(P, y) => P[x].no < P[y].no
      /\ AllSent(P, n) => Aligned(P, c) /\ o = Count(P, c) /\ o + Len(list) = Count(P, n)
  BY Zenon DEF Owes
<1> HIDE DEF k, number
<1>4. IsLonger(L, P, n, q, k, number)
  BY <1>1, LongerIs
<1>5. \A x \in 1 .. N : IF x \in 1 .. n THEN Whole(L, x) <=> Whole(P, x)
                        ELSE /\ Whole(L, x) <=> x = n + 1 /\ k = Len(Bytes(q))
                             /\ L[x].no = number
                             /\ L[x].cmd = q
  BY <1>1, LongerWhole
<1>6. AllSent(L, N) <=> AllSent(P, n) /\ k = Len(Bytes(q)) /\ number = Count(P, n) + 1
  BY <1>1, LongerAllSent
<1>7. (Aligned(L, c) <=> Aligned(P, c)) /\ Count(L, c) = Count(P, c)
  BY <1>1, LongerAligned
<1> HIDE DEF L, more
<1>8. \A x \in 1 .. n : L[x] = P[x] /\ P[x].no \in Nat
  <2>1. \A x \in 1 .. n : P[x].no \in Nat
    BY DEF Marked, Mark
  <2>. QED
    BY <1>4, <2>1, Zenon DEF IsLonger
<1>9. ASSUME NEW x, x \in 1 .. N, c < x, Whole(L, x)
      PROVE  /\ o < L[x].no /\ L[x].no <= o + Len(more)
             /\ more[L[x].no - o] = Intent(L[x].cmd)
  <2>1. CASE x \in 1 .. n
    <3>1. Whole(P, x)
      BY <1>5, <1>9, <2>1, Zenon
    <3>2. o < P[x].no /\ P[x].no <= o + Len(list) /\ list[P[x].no - o] = Intent(P[x].cmd)
      BY <1>3, <1>9, <2>1, <3>1, Zenon
    <3> DEFINE u == P[x].no
               l == Len(list)
    <3>3. u \in Nat /\ o < u /\ u <= o + l /\ l \in Nat
      BY <1>1, <1>8, <2>1, <3>2, Zenon
    <3> HIDE DEF u, l
    <3>4. u - o \in 1 .. l /\ u <= o + (l + 1)
      BY <3>3
    <3>5. more[u - o] = list[u - o]
      BY <1>2, <3>4, Zenon DEF l
    <3>6. L[x] = P[x]
      BY <1>8, <2>1, Zenon
    <3>. QED
      BY <1>2, <3>2, <3>4, <3>5, <3>6, Zenon DEF u, l
  <2>2. CASE x \notin 1 .. n
    <3>1. L[x].no = number /\ L[x].cmd = q
      BY <1>5, <1>9, <2>2, Zenon
    <3> DEFINE l == Len(list)
    <3> HIDE DEF l
    <3>2. /\ o < o + l + 1 /\ o + l + 1 <= o + (l + 1) /\ (o + l + 1) - o = l + 1
      BY <1>1 DEF l
    <3>. QED
      BY <1>2, <3>1, <3>2, Zenon DEF number, l
  <2>. QED
    BY <2>1, <2>2
<1>10. ASSUME NEW x, NEW y, x \in 1 .. N, y \in 1 .. N, c < x, x < y, Whole(L, x), Whole(L, y)
       PROVE  L[x].no < L[y].no
  <2>1. CASE y \in 1 .. n
    <3>1. x \in 1 .. n
      BY <1>1, <1>10, <2>1
    <3>2. Whole(P, x) /\ Whole(P, y)
      BY <1>5, <1>10, <2>1, <3>1, Zenon
    <3>3. P[x].no < P[y].no
      BY <1>3, <1>10, <2>1, <3>1, <3>2, Zenon
    <3>. QED
      BY <1>8, <2>1, <3>1, <3>3, Zenon
  <2>2. CASE y \notin 1 .. n
    <3>1. y = n + 1 /\ L[y].no = number
      BY <1>5, <1>10, <2>2, Zenon
    <3>2. x \in 1 .. n
      BY <1>1, <1>10, <3>1
    <3>3. Whole(P, x)
      BY <1>5, <1>10, <3>2, Zenon
    <3>4. P[x].no <= o + Len(list) /\ P[x].no \in Nat
      BY <1>3, <1>8, <1>10, <3>2, <3>3, Zenon
    <3> DEFINE u == P[x].no
    <3> HIDE DEF u
    <3>5. u <= o + Len(list) /\ u \in Nat
      BY <3>4, Zenon DEF u
    <3>6. u < number
      BY <1>1, <3>5 DEF number
    <3>. QED
      BY <1>8, <3>1, <3>2, <3>6, Zenon DEF u
  <2>. QED
    BY <2>1, <2>2
<1>11. ASSUME AllSent(L, N)
       PROVE  Aligned(L, c) /\ o = Count(L, c) /\ o + Len(more) = Count(L, N)
  <2>1. Aligned(P, c) /\ o = Count(P, c)
    BY <1>3, <1>6, <1>11, Zenon
  <2>2. N \in 1 .. N /\ N \notin 1 .. n /\ N # 0
    BY <1>1
  <2>3. Count(L, N) = number
    <3>1. L[N].no = number
      BY <1>5, <2>2, Zenon
    <3>. QED
      BY <2>2, <3>1, Zenon DEF Count
  <2>4. o + (Len(list) + 1) = number
    BY <1>1 DEF number
  <2>. QED
    BY <1>2, <1>7, <2>1, <2>3, <2>4, Zenon
<1> HIDE DEF N
<1>12. Owes(L, N, o, more, c)
  BY <1>9, <1>10, <1>11, Zenon DEF Owes
<1>. QED
  BY <1>12, Zenon DEF k, number, L, N, more

(* Nobody waits for a command that was cut off. *)
LEMMA OwesNoMore ==
  ASSUME NEW P, NEW n, Marked(P, n), NEW q, q \in Requests, NEW k, k \in Nat, 1 <= k,
         k < Len(Bytes(q)), NEW o, o \in Nat,
         NEW list, NEW c, c \in Nat, c <= n, Owes(P, n, o, list, c)
  PROVE  Owes(Longer(P, n, q, k, 0), n + k, o, list, c)
<1> DEFINE L == Longer(P, n, q, k, 0)
           N == n + k
<1>1. n \in Nat
  BY DEF Marked
<1>2. k # Len(Bytes(q))
  <2>1. Len(Bytes(q)) \in {8, 12}
    BY RequestsAreCommands DEF Command
  <2>. QED
    BY <2>1
<1>3. /\ \A x \in 1 .. n : c < x /\ Whole(P, x) =>
           /\ o < P[x].no /\ P[x].no <= o + Len(list)
           /\ list[P[x].no - o] = Intent(P[x].cmd)
      /\ \A x, y \in 1 .. n : c < x /\ x < y /\ Whole(P, x) /\ Whole(P, y) => P[x].no < P[y].no
  BY Zenon DEF Owes
<1>4. IsLonger(L, P, n, q, k, 0)
  BY <1>1, LongerIs
<1>5. \A x \in 1 .. N : IF x \in 1 .. n THEN Whole(L, x) <=> Whole(P, x)
                        ELSE /\ Whole(L, x) <=> x = n + 1 /\ k = Len(Bytes(q))
                             /\ L[x].no = 0
                             /\ L[x].cmd = q
  BY <1>1, LongerWhole
<1>6. ~AllSent(L, N)
  <2>1. AllSent(L, N) <=> AllSent(P, n) /\ k = Len(Bytes(q)) /\ 0 = Count(P, n) + 1
    BY LongerAllSent
  <2>. QED
    BY <1>2, <2>1, Zenon
<1> HIDE DEF L
<1>7. ASSUME NEW x, x \in 1 .. N, Whole(L, x) PROVE x \in 1 .. n /\ Whole(P, x) /\ L[x] = P[x]
  <2>1. x \in 1 .. n /\ Whole(P, x)
    BY <1>2, <1>5, <1>7, Zenon
  <2>. QED
    BY <1>4, <2>1, Zenon DEF IsLonger
<1>8. ASSUME NEW x, x \in 1 .. N, c < x, Whole(L, x)
      PROVE  /\ o < L[x].no /\ L[x].no <= o + Len(list)
             /\ list[L[x].no - o] = Intent(L[x].cmd)
  BY <1>3, <1>7, <1>8, Zenon
<1>9. ASSUME NEW x, NEW y, x \in 1 .. N, y \in 1 .. N, c < x, x < y, Whole(L, x), Whole(L, y)
      PROVE  L[x].no < L[y].no
  BY <1>3, <1>7, <1>9, Zenon
<1>. QED
  BY <1>6, <1>8, <1>9, Zenon DEF Owes, L

-----------------------------------------------------------------------------
(* The line is in order: its pieces, of which those up to place b are dealt  *)
(* with, the parser's buffer and the bytes on their way belong together, and *)
(* what is owed in the book h is what they still hold; so many of the pieces *)
(* were cut off.                                                             *)
InOrder(P, n, b, buf, bytes, h, count) ==
  /\ count \in Nat
  /\ Marked(P, n)
  /\ Holds(P, n, b, buf)
  /\ Len(buf) <= PARSE_BUF_SIZE
  /\ Holds(P, n, b + Len(buf), bytes)
  /\ b + Len(buf) + Len(bytes) = n
  /\ Right(P, n, h, b)
  /\ Quiet(P, n, Missing(h), b, buf)
  /\ count # 0 \/ AllSent(P, n)
  /\ Spent(P, n, n) = count * PARSE_BUF_SIZE

(* What a book holds. *)
LEMMA BookIs ==
  ASSUME NEW list, list \in Seq(Intents), NEW gone, gone \in Nat
  PROVE  /\ Book(list, gone) \in Ledger /\ Book(list, gone).ok = TRUE
         /\ Book(list, gone).owed = list /\ Book(list, gone).lost = gone
         /\ Missing(Book(list, gone)) = gone + Len(list)
  BY DEF Book, Ledger, Missing

(* A ledger in which no stranger was found is a book. *)
LEMMA BookOf ==
  ASSUME NEW h, h \in Ledger, h.ok
  PROVE  Book(h.owed, h.lost) = h /\ h.ok = TRUE
  BY DEF Book, Ledger

(* The empty line is in order. *)
LEMMA NothingYet == \E P : InOrder(P, 0, 0, <<>>, <<>>, Book(<<>>, 0), 0)
<1> DEFINE P == [x \in 1 .. 0 |-> 0]
           h == Book(<<>>, 0)
<1>1. Marked(P, 0)
  BY DEF Marked
<1>2. /\ <<>> \in Seq(Int) /\ <<>> \in Seq(Intents) /\ Len(<<>>) = 0 /\ 0 + 0 = 0 /\ 0 <= 0 /\ 0 \in Nat
      /\ \A x : x \notin 1 .. 0
      /\ 0 + 0 + 0 = 0
  OBVIOUS
<1> HIDE DEF P
<1>3. Holds(P, 0, 0, <<>>)
  BY <1>2, Zenon DEF Holds
<1>4. AllSent(P, 0)
  BY <1>2, Zenon DEF AllSent
<1>5. Owes(P, 0, 0, <<>>, 0)
  BY <1>2, Zenon DEF Owes, Aligned, Count
<1>6. Spent(P, 0, 0) = 0 /\ Begun(P, 0, 0) = 0
  <2>1. Tally(P, 0, 8, 0)[0] = 0 /\ Tally(P, 0, 0, PARSE_BUF_SIZE)[0] = 0
    BY <1>2, TallyStep
  <2>. QED
    BY <2>1, Zenon DEF Spent, Begun
<1>7. h \in Ledger /\ h.ok = TRUE /\ h.owed = <<>> /\ Missing(h) = 0
  <2>1. h \in Ledger /\ h.ok = TRUE /\ h.owed = <<>> /\ Missing(h) = 0 + Len(<<>>)
    BY <1>2, BookIs, Zenon
  <2>. QED
    BY <1>2, <2>1, Zenon
<1> HIDE DEF h
<1>8. Budget(P, 0, Missing(h), 0)
  <2>1. 8 * 0 + (0 - 0) <= 0
    OBVIOUS
  <2>. QED
    BY <1>6, <1>7, <2>1, Zenon DEF Budget, Cost
<1>9. Right(P, 0, h, 0)
  BY <1>2, <1>5, <1>7, <1>8, Zenon DEF Right
<1>10. Quiet(P, 0, Missing(h), 0, <<>>)
  BY <1>2, <1>9, EmptyRests, Zenon
<1>11. Len(<<>>) <= PARSE_BUF_SIZE
  BY FramesAssumption
<1>12. InOrder(P, 0, 0, <<>>, <<>>, h, 0)
  <2>1. Spent(P, 0, 0) = 0 * PARSE_BUF_SIZE
    BY <1>6, FramesAssumption
  <2>. QED
    BY <1>1, <1>2, <1>3, <1>4, <1>9, <1>10, <1>11, <2>1, Zenon DEF InOrder
<1>. QED
  BY <1>12, Zenon DEF h

(* The first k bytes of a command are put on the line. *)
Starts(s, q, k) == s \in Seq(Int) /\ Len(s) = k /\ \A i \in 1 .. k : s[i] = Bytes(q)[i]

Laid(P, n, b, buf, bytes) ==
  /\ Marked(P, n)
  /\ Holds(P, n, b, buf)
  /\ Holds(P, n, b + Len(buf), bytes)
  /\ b + Len(buf) + Len(bytes) = n

(* The buffer and the bytes on their way still belong together. *)
LEMMA LongerLine ==
  ASSUME NEW P, NEW n, NEW b, NEW buf, NEW bytes, NEW h, NEW count,
         InOrder(P, n, b, buf, bytes, h, count),
         NEW q, q \in Requests, NEW k, k \in Nat, 1 <= k, k <= Len(Bytes(q)),
         NEW s, Starts(s, q, k),
         NEW number, number \in Nat
  PROVE  Laid(Longer(P, n, q, k, number), n + k, b, buf, bytes \o s)
<1> DEFINE L == Longer(P, n, q, k, number)
           N == n + k
<1>1. /\ Marked(P, n) /\ Holds(P, n, b, buf) /\ Holds(P, n, b + Len(buf), bytes)
      /\ b + Len(buf) + Len(bytes) = n
  BY Zenon DEF InOrder
<1>2. n \in Nat /\ b \in Nat /\ Len(buf) \in Nat /\ Len(bytes) \in Nat /\ bytes \in Seq(Int)
  BY <1>1 DEF Marked, Holds
<1>3. Marked(L, N)
  BY <1>1, LongerMarked
<1>4. Holds(L, N, b, buf)
  BY <1>1, <1>2, LongerHolds
<1>5. Holds(L, N, b + Len(buf), bytes)
  BY <1>1, <1>2, LongerHolds
<1>6. Holds(L, N, n, s) /\ Len(s) = k
  BY <1>2, LongerHoldsPiece DEF Starts
<1> HIDE DEF L, N
<1>7. Holds(L, N, (b + Len(buf)) + Len(bytes), s)
  BY <1>1, <1>6, Zenon
<1>8. Holds(L, N, b + Len(buf), bytes \o s) /\ Len(bytes \o s) = Len(bytes) + Len(s)
  BY <1>5, <1>7, HoldsJoined
<1>9. b + Len(buf) + Len(bytes \o s) = N
  <2> DEFINE l == Len(buf)
             m == Len(bytes)
             r == Len(s)
  <2>1. l \in Nat /\ m \in Nat /\ b \in Nat /\ r = k /\ b + l + m = n
    BY <1>1, <1>2, <1>6
  <2> HIDE DEF l, m, r
  <2>2. b + l + (m + r) = N
    BY <2>1 DEF N
  <2>. QED
    BY <1>8, <2>2, Zenon DEF l, m, r
<1>. QED
  BY <1>1, <1>3, <1>4, <1>8, <1>9, Zenon DEF Laid, L, N

(* What Right says of a book. *)
LEMMA RightOwes ==
  ASSUME NEW P, NEW n, NEW h, NEW b, Right(P, n, h, b)
  PROVE  /\ h.owed \in Seq(Intents) /\ h.lost \in Nat /\ h \in Ledger /\ h.ok
         /\ b \in Nat /\ Missing(h) \in Nat /\ Budget(P, n, Missing(h), b)
         /\ \E o \in Nat : Owes(P, n, o, h.owed, b)
<1>1. /\ h \in Ledger /\ h.ok /\ b \in Nat /\ Budget(P, n, Missing(h), b)
      /\ \E o \in Nat : Owes(P, n, o, h.owed, b)
  BY Zenon DEF Right
<1>2. h.owed \in Seq(Intents) /\ h.lost \in Nat
  BY <1>1 DEF Ledger
<1>. QED
  BY <1>1, <1>2, MissingNat, Zenon

(* The line stays in order when a command is sent whole. *)
LEMMA WholeInOrder ==
  ASSUME NEW P, NEW n, NEW b, NEW buf, NEW bytes, NEW h, NEW count,
         InOrder(P, n, b, buf, bytes, h, count), NEW q, q \in Requests
  PROVE  \E L, N : InOrder(L, N, b, buf, bytes \o Bytes(q),
                           Book(Append(h.owed, Intent(q)), h.lost), count)
<1> DEFINE k == Len(Bytes(q))
           list == h.owed
           m == Missing(h)
<1>1. /\ Marked(P, n) /\ Len(buf) <= PARSE_BUF_SIZE /\ Holds(P, n, b, buf)
      /\ Right(P, n, h, b)
      /\ count # 0 \/ AllSent(P, n)
      /\ Quiet(P, n, m, b, buf) /\ count \in Nat
      /\ Spent(P, n, n) = count * PARSE_BUF_SIZE
  BY Zenon DEF InOrder
<1>2. /\ list \in Seq(Intents) /\ b \in Nat /\ h.lost \in Nat
      /\ m \in Nat /\ Budget(P, n, m, b)
  BY <1>1, RightOwes, Zenon
<1>3. PICK o \in Nat : Owes(P, n, o, list, b)
  BY <1>1, RightOwes, Zenon
<1> DEFINE number == o + Len(list) + 1
           L == Longer(P, n, q, k, number)
           N == n + k
           more == Append(list, Intent(q))
           g == Book(more, h.lost)
<1> HIDE DEF m
<1>4. Command(Bytes(q))
  BY RequestsAreCommands
<1>5. Bytes(q) \in Seq(Int) /\ k \in Nat /\ 1 <= k
  <2>1. Bytes(q) \in Seq(Int) /\ k \in {8, 12}
    BY <1>4 DEF Command
  <2>2. \A l \in {8, 12} : l \in Nat /\ 1 <= l
    OBVIOUS
  <2>. QED
    BY <2>1, <2>2, Zenon
<1>6. number \in Nat
  BY <1>2
<1>7. b <= n /\ b \in 0 .. n
  <2>1. Len(buf) \in Nat /\ b + Len(buf) <= n /\ n \in Nat
    BY <1>1 DEF Holds, Marked
  <2>. QED
    BY <1>2, <2>1
<1>8. more \in Seq(Intents) /\ Len(more) = Len(list) + 1
  BY <1>2 DEF Intents
<1>17. g \in Ledger /\ g.ok = TRUE /\ g.owed = more /\ Missing(g) = m + 1
  <2> HIDE DEF more
  <2>1. g \in Ledger /\ g.ok = TRUE /\ g.owed = more /\ Missing(g) = h.lost + Len(more)
    BY <1>2, <1>8, BookIs, Zenon
  <2> DEFINE l == Len(list)  a == h.lost
  <2>2. l \in Nat /\ a \in Nat /\ m = a + l
    BY <1>2 DEF Missing, m
  <2> HIDE DEF l, a
  <2>3. a + (l + 1) = m + 1
    BY <2>2
  <2>. QED
    BY <1>8, <2>1, <2>3, Zenon DEF l, a
<1>9. Owes(L, N, o, more, b)
  BY <1>1, <1>2, <1>3, <1>7, OwesOneMore, Zenon
<1>14. \A c \in 0 .. n : Budget(P, n, m, c) => Budget(L, N, m + 1, c)
  BY <1>1, <1>2, WholeBalances, Zenon
<1>15. Quiet(L, N, m + 1, b, buf)
  <2> HIDE DEF number, k, more
  <2>. QED
    BY <1>1, <1>5, <1>14, LongerQuiet, Zenon
<1>16. Spent(L, N, N) = count * PARSE_BUF_SIZE
  <2>1. Spent(L, N, N) = Spent(P, n, n) + PieceAdds(q, k, 0, PARSE_BUF_SIZE)
    <3>1. IsLonger(L, P, n, q, k, number)
      BY <1>1, <1>5, LongerIs DEF Marked
    <3> HIDE DEF L, k, number
    <3>. QED
      BY <1>1, <1>5, <3>1, LongerSums
  <2>2. PieceAdds(q, k, 0, PARSE_BUF_SIZE) = 0
    BY Zenon DEF PieceAdds
  <2>3. Spent(P, n, n) + 0 = Spent(P, n, n)
    <3>1. n \in 0 .. n
      BY <1>1 DEF Marked
    <3>. QED
      BY <1>1, <3>1, Sums
  <2> HIDE DEF L, N, k
  <2>. QED
    BY <1>1, <2>1, <2>2, <2>3, Zenon
<1>10. Right(L, N, g, b) /\ Quiet(L, N, Missing(g), b, buf)
  <2> HIDE DEF L, N, more, g
  <2>. QED
    BY <1>2, <1>3, <1>7, <1>9, <1>14, <1>15, <1>17, Zenon DEF Right
<1>11. Laid(L, N, b, buf, bytes \o Bytes(q))
  <2>1. k <= Len(Bytes(q)) /\ Starts(Bytes(q), q, k)
    BY <1>5 DEF Starts
  <2> HIDE DEF number
  <2>. QED
    BY <1>5, <1>6, <2>1, LongerLine, Zenon
<1>12. AllSent(P, n) => AllSent(L, N)
  <2> SUFFICES ASSUME AllSent(P, n) PROVE AllSent(L, N)
    OBVIOUS
  <2>1. o + Len(list) = Count(P, n)
    BY <1>3, Zenon DEF Owes
  <2>2. number = Count(P, n) + 1
    BY <2>1, Zenon
  <2> HIDE DEF number
  <2>3. AllSent(L, N) <=> AllSent(P, n) /\ k = Len(Bytes(q)) /\ number = Count(P, n) + 1
    BY <1>1, <1>5, LongerAllSent
  <2>. QED
    BY <2>2, <2>3, Zenon
<1> HIDE DEF L, N, g
<1>13. InOrder(L, N, b, buf, bytes \o Bytes(q), g, count)
  BY <1>1, <1>10, <1>11, <1>12, <1>16, Zenon DEF InOrder, Laid
<1>. QED
  BY <1>13, Zenon DEF g, more

(* It stays in order when one is cut off. *)
LEMMA CutInOrder ==
  ASSUME NEW P, NEW n, NEW b, NEW buf, NEW bytes, NEW h, NEW count,
         InOrder(P, n, b, buf, bytes, h, count), NEW q, q \in Requests,
         NEW k, k \in 1 .. Len(Bytes(q)) - 1
  PROVE  \E L, N : InOrder(L, N, b, buf, bytes \o SubSeq(Bytes(q), 1, k), h, count + 1)
<1> DEFINE L == Longer(P, n, q, k, 0)
           N == n + k
           s == SubSeq(Bytes(q), 1, k)
           m == Missing(h)
<1>1. /\ Marked(P, n) /\ Len(buf) <= PARSE_BUF_SIZE /\ Holds(P, n, b, buf)
      /\ Right(P, n, h, b)
      /\ Quiet(P, n, m, b, buf) /\ count \in Nat
      /\ Spent(P, n, n) = count * PARSE_BUF_SIZE
  BY Zenon DEF InOrder
<1>2. /\ h.owed \in Seq(Intents) /\ h \in Ledger /\ h.ok /\ b \in Nat
      /\ Budget(P, n, m, b)
  BY <1>1, RightOwes, Zenon
<1> HIDE DEF m
<1>3. PICK o \in Nat : Owes(P, n, o, h.owed, b)
  BY <1>1, RightOwes, Zenon
<1>4. Command(Bytes(q))
  BY RequestsAreCommands
<1>5. /\ Bytes(q) \in Seq(Int) /\ k \in Nat /\ 1 <= k /\ k < Len(Bytes(q)) /\ k <= Len(Bytes(q))
      /\ k # Len(Bytes(q)) /\ Len(Bytes(q)) \in Nat
  BY <1>4 DEF Command
<1>6. Starts(s, q, k)
  BY <1>5, FrontIs DEF Starts
<1>7. b <= n /\ b \in 0 .. n
  <2>1. Len(buf) \in Nat /\ b + Len(buf) <= n /\ n \in Nat
    BY <1>1 DEF Holds, Marked
  <2>. QED
    BY <1>2, <2>1
<1>8. Owes(L, N, o, h.owed, b)
  BY <1>1, <1>2, <1>3, <1>5, <1>7, OwesNoMore, Zenon
<1>13. \A c \in 0 .. n : Budget(P, n, m, c) => Budget(L, N, m, c)
  BY <1>1, <1>5, CutBalances, Zenon
<1>14. Quiet(L, N, m, b, buf)
  BY <1>1, <1>5, <1>13, LongerQuiet, Zenon
<1>15. Spent(L, N, N) = (count + 1) * PARSE_BUF_SIZE
  <2> DEFINE K == PARSE_BUF_SIZE
             d == count + 1
  <2>1. Spent(L, N, N) = Spent(P, n, n) + PieceAdds(q, k, 0, K)
    <3>1. IsLonger(L, P, n, q, k, 0)
      BY <1>1, <1>5, LongerIs DEF Marked
    <3> HIDE DEF L
    <3>. QED
      BY <1>1, <1>5, <3>1, LongerSums
  <2>2. PieceAdds(q, k, 0, K) = K
    BY <1>5, Zenon DEF PieceAdds
  <2>3. count \in Nat /\ K \in Nat
    BY <1>1, FramesAssumption
  <2> HIDE DEF L, N, K
  <2>4. count * K + K = d * K
    BY <2>3
  <2> HIDE DEF d
  <2>. QED
    BY <1>1, <2>1, <2>2, <2>4, Zenon DEF K, d
<1>9. Right(L, N, h, b)
  <2> HIDE DEF L, N
  <2>. QED
    BY <1>2, <1>3, <1>7, <1>8, <1>13, Zenon DEF Right, m
<1> HIDE DEF s
<1>10. 0 \in Nat
  OBVIOUS
<1>11. Laid(L, N, b, buf, bytes \o s)
  BY <1>5, <1>6, <1>10, LongerLine, Zenon
<1> HIDE DEF L, N
<1>12. InOrder(L, N, b, buf, bytes \o s, h, count + 1)
  <2>1. count + 1 \in Nat /\ count + 1 # 0
    BY <1>1
  <2>. QED
    BY <1>1, <1>9, <1>11, <1>14, <1>15, <2>1, Zenon DEF InOrder, Laid, m
<1>. QED
  BY <1>12, Zenon DEF s

(* Bytes arrive: what is found is taken off what is owed, and nothing else   *)
(* is found.                                                                 *)
LEMMA ArrivesInOrder ==
  ASSUME NEW P, NEW n, NEW b, NEW buf, NEW bytes, NEW h, NEW count,
         InOrder(P, n, b, buf, bytes, h, count), NEW m, m \in 1 .. Len(bytes)
  PROVE  /\ TakeAllOff(h, ParserFeed(buf, SubSeq(bytes, 1, m)).frames).ok = TRUE
         /\ \E c : InOrder(P, n, c, ParserFeed(buf, SubSeq(bytes, 1, m)).buf, From(bytes, m + 1),
                           TakeAllOff(h, ParserFeed(buf, SubSeq(bytes, 1, m)).frames),
                           count)
<1> DEFINE data == SubSeq(bytes, 1, m)
           rest == From(bytes, m + 1)
           fed == ParserFeed(buf, data)
           after == TakeAllOff(h, fed.frames)
<1>1. /\ Marked(P, n) /\ Holds(P, n, b, buf) /\ Len(buf) <= PARSE_BUF_SIZE
      /\ Holds(P, n, b + Len(buf), bytes) /\ b + Len(buf) + Len(bytes) = n
      /\ Right(P, n, h, b)
      /\ Quiet(P, n, Missing(h), b, buf)
      /\ count # 0 \/ AllSent(P, n)
      /\ count \in Nat /\ Spent(P, n, n) = count * PARSE_BUF_SIZE
  BY Zenon DEF InOrder
<1>2. /\ n \in Nat /\ b \in Nat /\ bytes \in Seq(Int) /\ Len(bytes) \in Nat /\ Len(buf) \in Nat
  BY <1>1 DEF Marked, Holds
<1>3. m \in Nat /\ m <= Len(bytes)
  BY <1>2
<1>4. Holds(P, n, b + Len(buf), data) /\ Len(data) = m
  BY <1>1, <1>2, <1>3, HoldsFront, FrontIs
<1>5. IsRest(rest, bytes, m)
  BY <1>2, <1>3, RestIs
<1> HIDE DEF data, rest
<1>6. Holds(P, n, (b + Len(buf)) + m, rest)
  BY <1>1, <1>5, HoldsRest, Zenon
<1>7. PICK c \in Nat : /\ Holds(P, n, c, fed.buf)
                       /\ c + Len(fed.buf) = b + Len(buf) + Len(data)
                       /\ Len(fed.buf) <= PARSE_BUF_SIZE
                       /\ Right(P, n, after, c)
                       /\ Quiet(P, n, Missing(after), c, fed.buf)
  BY <1>1, <1>4, Fed
<1> HIDE DEF fed, after
<1>8. Holds(P, n, c + Len(fed.buf), rest)
  BY <1>4, <1>6, <1>7, Zenon
<1>9. c + Len(fed.buf) + Len(rest) = n
  <2> DEFINE l == Len(buf)
             w == Len(bytes)
             r == Len(rest)
             f == Len(fed.buf)
  <2>1. l \in Nat /\ w \in Nat /\ b \in Nat /\ m \in Nat
    BY <1>2, <1>3
  <2>2. r = w - m
    BY <1>5, Zenon DEF IsRest
  <2>3. b + l + w = n
    BY <1>1, Zenon
  <2>4. c + f = b + l + m
    BY <1>4, <1>7, Zenon
  <2> HIDE DEF l, w, r, f
  <2>5. (c + f) + r = n
    BY <2>1, <2>2, <2>3, <2>4
  <2>. QED
    BY <2>5, Zenon DEF r, f
<1>10. after.ok = TRUE
  BY <1>7, RightOwes, BookOf, Zenon
<1>11. InOrder(P, n, c, fed.buf, rest, after, count)
  BY <1>1, <1>7, <1>8, <1>9, Zenon DEF InOrder
<1>. QED
  BY <1>10, <1>11, Zenon DEF after, fed, data, rest

(* With nothing on its way and nothing cut off, nothing is owed. *)
LEMMA NothingLost ==
  ASSUME NEW P, NEW n, NEW b, NEW buf, NEW h,
         InOrder(P, n, b, buf, <<>>, h, 0)
  PROVE  h.owed = <<>> /\ buf = <<>>
<1>1. /\ Marked(P, n) /\ Holds(P, n, b, buf) /\ b + Len(buf) + Len(<<>>) = n
      /\ Right(P, n, h, b)
      /\ Quiet(P, n, Missing(h), b, buf)
      /\ AllSent(P, n)
  BY Zenon DEF InOrder
<1>2. n \in Nat /\ b \in Nat /\ buf \in Seq(Int) /\ Len(buf) \in Nat /\ b + Len(buf) = n
  BY <1>1 DEF Marked, Holds
<1>3. h.owed \in Seq(Intents)
  BY <1>1, RightOwes
<1>4. PICK o \in Nat : Owes(P, n, o, h.owed, b)
  BY <1>1, RightOwes, Zenon
<1>5. Aligned(P, b) /\ o = Count(P, b) /\ o + Len(h.owed) = Count(P, n)
  BY <1>1, <1>4, Zenon DEF Owes
<1>6. Len(buf) = 0
  <2> SUFFICES ASSUME Len(buf) # 0 PROVE FALSE
    OBVIOUS
  <2>1. b + 1 <= n
    BY <1>2
  <2>2. b + Size(P[b + 1]) <= n /\ b + 1 \in 1 .. n
    BY <1>1, <1>2, <1>5, <2>1, NextWhole
  <2>3. Size(P[b + 1]) \in {8, 12}
    BY <1>1, <2>2, MarkedByte
  <2>4. Len(buf) < Size(P[b + 1])
    BY <1>1, Zenon DEF Quiet, Short
  <2> DEFINE z == Size(P[b + 1])
             l == Len(buf)
  <2>5. z \in {8, 12} /\ b + z <= n /\ l < z
    BY <2>2, <2>3, <2>4, Zenon
  <2>6. l \in Nat /\ b \in Nat /\ b + l = n
    BY <1>2
  <2> HIDE DEF z, l
  <2>. QED
    BY <2>5, <2>6
<1>7. b = n
  BY <1>2, <1>6
<1>8. o + Len(h.owed) = o
  BY <1>5, <1>7, Zenon
<1>9. Len(h.owed) = 0
  BY <1>3, <1>8
<1>. QED
  BY <1>2, <1>3, <1>6, <1>9

(* The line always ends with the end of a piece. *)
LEMMA EndAligned ==
  ASSUME NEW P, NEW n, Marked(P, n)
  PROVE  Aligned(P, n)
<1> SUFFICES ASSUME n # 0 PROVE P[n].off = P[n].size
  BY Zenon DEF Aligned
<1>1. n \in Nat /\ n \in 1 .. n /\ 1 \in Int
  BY DEF Marked
<1>2. P[n].off \in Nat /\ P[n].size \in Nat /\ 1 <= P[n].off /\ P[n].off <= P[n].size
  BY <1>1 DEF Marked, Mark
<1>3. 1 <= P[n].off + 1 /\ P[n].off + 1 <= P[n].size => n + 1 \in 1 .. n
  BY <1>1, InPiece, Zenon
<1> DEFINE u == P[n].off
           v == P[n].size
<1>4. u \in Nat /\ v \in Nat /\ u <= v /\ ~(n + 1 \in 1 .. n)
  BY <1>1, <1>2
<1>5. ~(1 <= u + 1 /\ u + 1 <= v)
  BY <1>3, <1>4
<1> HIDE DEF u, v
<1>6. u = v
  BY <1>4, <1>5
<1>. QED
  BY <1>6, Zenon DEF u, v

(* With nothing on its way, the cuts pay for all that is missing. *)
LEMMA CutsPay ==
  ASSUME NEW P, NEW n, NEW b, NEW buf, NEW h, NEW count,
         InOrder(P, n, b, buf, <<>>, h, count)
  PROVE  Missing(h) * 8 <= count * PARSE_BUF_SIZE
<1> DEFINE m == Missing(h)
           B == Begun(P, n, n)
           S == Spent(P, n, n)
<1>1. /\ Marked(P, n) /\ Holds(P, n, b, buf) /\ b + Len(buf) + Len(<<>>) = n
      /\ Right(P, n, h, b)
      /\ Quiet(P, n, m, b, buf)
      /\ S = count * PARSE_BUF_SIZE
  BY Zenon DEF InOrder
<1>2. b + Len(buf) = n /\ n \in 0 .. n
  BY <1>1 DEF Marked, Holds
<1>3. m \in Nat
  BY <1>1, RightOwes, Zenon
<1>4. Aligned(P, n)
  BY <1>1, EndAligned
<1>5. Budget(P, n, m, n)
  BY <1>1, <1>2, <1>4, Zenon DEF Quiet, Still
<1>6. 8 * m + (B - S) <= B
  BY <1>5, Zenon DEF Budget, Cost
<1>7. m \in Nat /\ B \in Nat /\ S \in Nat
  BY <1>1, <1>2, <1>3, Sums
<1> HIDE DEF m, B, S
<1>8. m * 8 <= S
  BY <1>6, <1>7
<1>. QED
  BY <1>1, <1>8, Zenon DEF m

-----------------------------------------------------------------------------
(* The ring inside the link. *)
LEMMA RingKept ==
  ASSUME TypeOK, [LinkNext]_linkVars
  PROVE  TypeOK'
<1>1. ASSUME NEW q \in Requests, Enqueues(q) PROVE TypeOK'
  BY <1>1, EnqueueAppends DEF Enqueues
<1>2. CASE Sends
  BY <1>2, PollSendTakesHead DEF Sends
<1>3. CASE Settles
  BY <1>3, PollSettleKeepsLine DEF Settles
<1>4. CASE UNCHANGED ringVars
  BY <1>4, StutterKeepsLine
<1>. QED
  BY <1>1, <1>2, <1>3, <1>4
     DEF LinkNext, linkVars, ConnConnect, ConnDisconnect, ConnPoll, Arrives, DongleChanges

LineInv ==
  /\ cuts \in Nat
  /\ forged = FALSE
  /\ \E P, n, b : InOrder(P, n, b, far_buf, wire, Book(owed, lost), cuts)

(* Every step of the link keeps the line in order. *)
LEMMA LineKept ==
  ASSUME TypeOK, LineInv, [LinkNext]_linkVars
  PROVE  LineInv'
<1> DEFINE Now(P, n, b) == InOrder(P, n, b, far_buf, wire, Book(owed, lost), cuts)
           Then(P, n, b) == InOrder(P, n, b, far_buf', wire', Book(owed', lost'), cuts')
<1>1. PICK P, n, b : Now(P, n, b)
  BY Zenon DEF LineInv
<1>2. cuts \in Nat /\ forged = FALSE
  BY DEF LineInv
<1>7. Book(owed, lost).owed = owed /\ Book(owed, lost).lost = lost
  BY DEF Book
<1>3. ASSUME UNCHANGED lineVars PROVE LineInv'
  <2>1. /\ far_buf' = far_buf /\ wire' = wire /\ owed' = owed /\ lost' = lost
       /\ cuts' = cuts /\ forged' = forged
    BY <1>3 DEF lineVars
  <2>2. Then(P, n, b)
    BY <1>1, <2>1, Zenon
  <2>. QED
    BY <1>2, <2>1, <2>2, Zenon DEF LineInv
<1>4. CASE Sends
  <2>1. g_inflight' \in Requests
    <3>1. Waiting \in Seq(Requests) /\ Waiting # <<>> /\ g_inflight' = Head(Waiting)
      BY <1>4, PollSendTakesHead DEF Sends
    <3>. QED
      BY <3>1
  <2> DEFINE q == g_inflight'
  <2> HIDE DEF q
  <2>2. q \in Requests
    BY <2>1 DEF q
  <2>3. CASE SendNothing
    BY <1>3, <2>3 DEF SendNothing
  <2>4. CASE SendWhole(q)
    <3>1. /\ wire' = wire \o Bytes(q) /\ owed' = Append(owed, Intent(q))
          /\ far_buf' = far_buf /\ lost' = lost /\ cuts' = cuts /\ forged' = forged
      BY <2>4 DEF SendWhole
    <3>2. \E L, N : InOrder(L, N, b, far_buf, wire \o Bytes(q),
                            Book(Append(owed, Intent(q)), lost), cuts)
      <4> DEFINE h == Book(owed, lost)
      <4> HIDE DEF h
      <4>1. \E L, N : InOrder(L, N, b, far_buf, wire \o Bytes(q),
                              Book(Append(h.owed, Intent(q)), h.lost), cuts)
        BY <1>1, <2>2, WholeInOrder, Zenon DEF h
      <4>. QED
        BY <1>7, <4>1, Zenon DEF h
    <3>3. \E L, N : Then(L, N, b)
      BY <3>1, <3>2, Zenon
    <3>. QED
      BY <1>2, <3>1, <3>3, Zenon DEF LineInv
  <2>5. CASE SendCut(q)
    <3>1. PICK k \in 1 .. Len(Bytes(q)) - 1 : wire' = wire \o SubSeq(Bytes(q), 1, k)
      BY <2>5 DEF SendCut
    <3>5. cuts + 1 \in Nat
      BY <1>2
    <3>2. /\ cuts' = cuts + 1 /\ far_buf' = far_buf /\ owed' = owed /\ lost' = lost
          /\ forged' = forged
      BY <2>5 DEF SendCut
    <3>3. \E L, N : InOrder(L, N, b, far_buf, wire \o SubSeq(Bytes(q), 1, k),
                            Book(owed, lost), cuts + 1)
      BY <1>1, <2>2, CutInOrder, Zenon
    <3>4. \E L, N : Then(L, N, b)
      BY <3>1, <3>2, <3>3, Zenon
    <3>. QED
      BY <1>2, <3>2, <3>4, <3>5, Zenon DEF LineInv
  <2>. QED
    BY <1>4, <2>3, <2>4, <2>5, Zenon DEF Sends, q
<1>5. CASE Arrives
  <2> DEFINE fed(m) == ParserFeed(far_buf, SubSeq(wire, 1, m))
             after(m) == TakeAllOff(Book(owed, lost), fed(m).frames)
  <2>1. PICK m \in 1 .. Len(wire) :
          /\ wire' = From(wire, m + 1)
          /\ far_buf' = fed(m).buf
          /\ owed' = after(m).owed
          /\ lost' = after(m).lost
          /\ forged' = (forged \/ ~after(m).ok)
    BY <1>5, Zenon DEF Arrives
  <2>2. cuts' = cuts
    BY <1>5, Zenon DEF Arrives
  <2>3. /\ after(m).ok = TRUE
        /\ \E c : InOrder(P, n, c, fed(m).buf, From(wire, m + 1), after(m), cuts)
    BY <1>1, ArrivesInOrder, Zenon
  <2> HIDE DEF fed, after
  <2>4. PICK c : InOrder(P, n, c, fed(m).buf, From(wire, m + 1), after(m), cuts)
    BY <2>3, Zenon
  <2>6. Book(after(m).owed, after(m).lost) = after(m)
    BY <2>4, RightOwes, BookOf, Zenon DEF InOrder
  <2>7. Then(P, n, c)
    BY <2>1, <2>2, <2>4, <2>6, Zenon
  <2>5. forged' = FALSE
    BY <1>2, <2>1, <2>3, Zenon
  <2>. QED
    BY <1>2, <2>2, <2>5, <2>7, Zenon DEF LineInv
<1>6. CASE UNCHANGED linkVars
  BY <1>3, <1>6 DEF linkVars
<1>. QED
  BY <1>3, <1>4, <1>5, <1>6
     DEF LinkNext, Enqueues, ConnConnect, ConnDisconnect, ConnPoll, Settles, DongleChanges

(* It begins in order. *)
LEMMA LinkStarts ==
  ASSUME LinkInit
  PROVE  TypeOK /\ LineInv
<1>1. TypeOK
  BY InitialLine DEF LinkInit
<1>2. /\ wire = <<>> /\ far_buf = <<>> /\ owed = <<>> /\ lost = 0 /\ cuts = 0
      /\ forged = FALSE
  BY DEF LinkInit
<1>3. cuts \in Nat
  BY <1>2
<1>. QED
  BY <1>1, <1>2, <1>3, NothingYet, Zenon DEF LineInv

(* The invariant of the link. *)
LEMMA LinkStaysInOrder == LinkSpec => [](TypeOK /\ LineInv)
<1>1. LinkInit => TypeOK /\ LineInv
  BY LinkStarts
<1>2. TypeOK /\ LineInv /\ [LinkNext]_linkVars => (TypeOK /\ LineInv)'
  BY RingKept, LineKept
<1>. QED
  BY <1>1, <1>2, PTL DEF LinkSpec

(* Without a frame cut off, every command is understood, in its order and as *)
(* it was meant, for every list of units' commands, every length of the      *)
(* queue, every size of the parser's buffer and however the bytes are cut up  *)
(* on their way.                                                             *)
THEOREM EveryCommandArrives == LinkSpec => []LineIsLossless
<1>1. LineInv => LineIsLossless
  <2> SUFFICES ASSUME LineInv, cuts = 0, wire = <<>> PROVE owed = <<>> /\ far_buf = <<>>
    BY DEF LineIsLossless
  <2>1. PICK P, n, b : InOrder(P, n, b, far_buf, wire, Book(owed, lost), cuts)
    BY Zenon DEF LineInv
  <2> DEFINE h == Book(owed, lost)
  <2>2. h.owed = owed
    BY DEF Book
  <2> HIDE DEF h
  <2>3. InOrder(P, n, b, far_buf, <<>>, h, 0)
    BY <2>1, Zenon DEF h
  <2>4. h.owed = <<>> /\ far_buf = <<>>
    BY <2>3, NothingLost
  <2>. QED
    BY <2>2, <2>4
<1>. QED
  BY <1>1, LinkStaysInOrder, PTL

(* A frame cut off anywhere, however often, never makes the far end find a   *)
(* command that nobody gave.                                                 *)
THEOREM NoCommandIsForged == LinkSpec => []NothingForged
<1>1. LineInv => NothingForged
  BY DEF LineInv, NothingForged
<1>. QED
  BY <1>1, LinkStaysInOrder, PTL

(* A frame cut off costs the commands of one buffer and no more: when        *)
(* nothing is on its way, all the commands that were sent whole and not      *)
(* understood, in a row or not, would fit, at eight bytes each, into as many *)
(* buffers as there were cuts.                                               *)
THEOREM EachCutCostsABuffer == LinkSpec => []RecoversSoon
<1>1. LineInv => RecoversSoon
  <2> SUFFICES ASSUME LineInv, wire = <<>>
               PROVE  (lost + Len(owed)) * 8 <= cuts * PARSE_BUF_SIZE
    BY DEF RecoversSoon
  <2>1. PICK P, n, b : InOrder(P, n, b, far_buf, wire, Book(owed, lost), cuts)
    BY Zenon DEF LineInv
  <2> DEFINE h == Book(owed, lost)
  <2>2. Missing(h) = lost + Len(owed)
    BY DEF Missing, Book
  <2> HIDE DEF h
  <2>3. InOrder(P, n, b, far_buf, <<>>, h, cuts)
    BY <2>1, Zenon DEF h
  <2>. QED
    BY <2>2, <2>3, CutsPay, Zenon
<1>. QED
  BY <1>1, LinkStaysInOrder, PTL

(* The queue of the link is the queue of SendRing. *)
THEOREM LinkUsesTheRing == LinkSpec => []TypeOK /\ RingIsFifo
<1>1. LinkInit => Init
  BY DEF LinkInit
<1>2. [LinkNext]_linkVars => [Next]_ringVars
  BY DEF LinkNext, linkVars, ConnConnect, ConnDisconnect, ConnPoll, Arrives, DongleChanges,
         Enqueues, Sends, Settles, Next, ringVars
<1>3. LinkSpec => Spec
  BY <1>1, <1>2, PTL DEF LinkSpec, Spec
<1>. QED
  BY <1>3, RingTypeCorrect, RingImplementsFifo, PTL
=============================================================================
