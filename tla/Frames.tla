------------------------------- MODULE Frames -------------------------------
(***************************************************************************)
(* protocol.c: how a command for an amplifier becomes the bytes of a       *)
(* frame, and how the parser finds frames in the bytes of a line, wherever *)
(* it was when they came.  A frame is                                      *)
(*     7E 7E type address length payload 0A 0D                             *)
(* with nothing escaped, so that a byte of a payload may look like a part  *)
(* of the frame around it.                                                 *)
(*                                                                         *)
(* A definition that no other uses, written just before the one it would   *)
(* replace, is a faulty variant of it: PROJECT.json names, under mutants,  *)
(* the property that notices the fault.                                    *)
(***************************************************************************)
EXTENDS Integers, Sequences, FiniteSets

CONSTANT PARSE_BUF_SIZE   \* 128 in the code

(* Any frame the program builds fits the buffer; a frame with 7E for its     *)
(* length does not.                                                          *)
ASSUME FramesAssumption == PARSE_BUF_SIZE \in 12 .. 132

HEAD == 126                    \* 0x7E, twice
STOP == <<10, 13>>             \* 0x0A 0x0D
OUTPUT_SWITCH  == 1
SIGNAL_CONTROL == 2

-----------------------------------------------------------------------------
(* What each unit transmits (channels.c), and the tables of the protocol. *)
UnitFreq == <<753, 859, 920, 1470, 1795, 2045, 2325, 2375,
              2450, 3375, 3550, 3725, 5250, 5450, 5650, 5875>>
UnitBandwidthTrueWidth == <<100, 70, 80, 85, 170, 250, 50, 50,
                            100, 150, 200, 150, 200, 200, 200, 250>>
UnitBandwidth == <<100, 50, 100, 100, 150, 250, 50, 50,
                   100, 150, 200, 150, 200, 200, 200, 250>>

FREQ_MHZ == 300 .. 6000
BANDWIDTH_MHZ == <<10, 20, 50, 100, 150, 200, 250, 300>>
POWER_DB == <<0, -6, -12>>
MODE_COUNT == 4

(* Codes count from zero; -1 is no code, or nothing a code stands for. *)
CodeIn(table, value) ==
  IF \E i \in DOMAIN table : table[i] = value
  THEN (CHOOSE i \in DOMAIN table : table[i] = value) - 1 ELSE -1
ValueIn(table, code) == IF code + 1 \in DOMAIN table THEN table[code + 1] ELSE -1

-----------------------------------------------------------------------------
(* A command is for one unit: [unit, type, on] for the output switch,        *)
(* [unit, type, mode, power] for the signal control.  Addresses count from 1.*)
Commands ==
  [unit : 1 .. 16, type : {OUTPUT_SWITCH}, on : BOOLEAN]
  \cup [unit : 1 .. 16, type : {SIGNAL_CONTROL}, mode : 0 .. MODE_COUNT - 1,
        power : {POWER_DB[i] : i \in DOMAIN POWER_DB}]

(* proto_build_signal_control() rejects what the tables do not have.         *)
Builds(q) ==
  q.type = SIGNAL_CONTROL =>
    /\ q.mode < MODE_COUNT
    /\ UnitFreq[q.unit] \in FREQ_MHZ
    /\ CodeIn(BANDWIDTH_MHZ, UnitBandwidth[q.unit]) >= 0
    /\ CodeIn(POWER_DB, q.power) >= 0

Payload(q) ==
  IF q.type = OUTPUT_SWITCH THEN <<IF q.on THEN 1 ELSE 0>>
  ELSE <<q.mode, UnitFreq[q.unit] \div 256, UnitFreq[q.unit] % 256,
         CodeIn(BANDWIDTH_MHZ, UnitBandwidth[q.unit]), CodeIn(POWER_DB, q.power)>>

(* proto_frame_build().  No caller looks at the ProtoStatus: a frame that    *)
(* was not built is queued and sent all the same, as whatever lay in its     *)
(* place; NOT_BUILT stands for bytes that are no frame.                      *)
NOT_BUILT == <<0, 0>>

Bytes(q) ==
  IF Builds(q)
  THEN <<HEAD, HEAD, q.type, q.unit, Len(Payload(q))>> \o Payload(q) \o STOP
  ELSE NOT_BUILT

(* What a frame tells the one who reads it by the same tables, if its        *)
(* payload has the length of its type.                                       *)
Meaning(frame) ==
  LET payload == SubSeq(frame, 6, Len(frame) - 2) IN
  CASE frame[3] = OUTPUT_SWITCH /\ Len(payload) = 1 ->
         [unit |-> frame[4], on |-> payload = <<1>>]
    [] frame[3] = SIGNAL_CONTROL /\ Len(payload) = 5 ->
         [unit |-> frame[4], mode |-> payload[1],
          freq |-> payload[2] * 256 + payload[3],
          bandwidth |-> ValueIn(BANDWIDTH_MHZ, payload[4]),
          power |-> ValueIn(POWER_DB, payload[5])]
    [] OTHER -> [unit |-> frame[4], other |-> payload]

(* What the caller of the builders meant. *)
Intent(q) ==
  IF q.type = OUTPUT_SWITCH THEN [unit |-> q.unit, on |-> q.on]
  ELSE [unit |-> q.unit, mode |-> q.mode, freq |-> UnitFreq[q.unit],
        bandwidth |-> UnitBandwidth[q.unit], power |-> q.power]

-----------------------------------------------------------------------------
(* proto_try_extract_one(): what is left in the buffer, and the frame it     *)
(* found, or no frame.  A head may have arrived by half.                     *)
NoFrame == <<>>

HeadsIn(buf) == {i \in 1 .. Len(buf) - 1 : buf[i] = HEAD /\ buf[i + 1] = HEAD}

From(buf, i) == SubSeq(buf, i, Len(buf))

WithoutHead(buf) == IF Len(buf) > 1 THEN From(buf, Len(buf)) ELSE buf

AnyStop(buf, total) == TRUE
GoodStop(buf, total) == SubSeq(buf, total - 1, total) = STOP

(* A frame with a bad stop: only its head is given up. *)
PastBadFrame(buf, total) == From(buf, 3)

FirstHead(buf) == CHOOSE i \in HeadsIn(buf) : \A j \in HeadsIn(buf) : i <= j

FindAtHead(b) ==
  LET total == 5 + b[5] + 2 IN
  IF Len(b) < 5 \/ Len(b) < total THEN [buf |-> b, frame |-> NoFrame]
  ELSE IF ~GoodStop(b, total) THEN [buf |-> PastBadFrame(b, total), frame |-> NoFrame]
  ELSE [buf |-> From(b, total + 1), frame |-> SubSeq(b, 1, total)]

TryExtractOne(buf) ==
  IF HeadsIn(buf) = {} THEN [buf |-> WithoutHead(buf), frame |-> NoFrame]
  ELSE FindAtHead(From(buf, FirstHead(buf)))

(* A full buffer that holds no whole frame loses its oldest half. *)
MakeRoomUnmoved(buf) ==
  IF Len(buf) = PARSE_BUF_SIZE THEN SubSeq(buf, 1, PARSE_BUF_SIZE \div 2) ELSE buf
MakeRoom(buf) ==
  IF Len(buf) = PARSE_BUF_SIZE THEN From(buf, PARSE_BUF_SIZE \div 2 + 1) ELSE buf

(* proto_parser_feed() on its way: the bytes not yet in the buffer, the      *)
(* frames given to on_frame(), and whether one was found just now.           *)
ExtractNext(p) ==
  LET one == TryExtractOne(p.buf) IN
  IF ~p.found THEN p
  ELSE IF one.frame = NoFrame THEN [p EXCEPT !.buf = one.buf, !.found = FALSE]
  ELSE [p EXCEPT !.buf = one.buf, !.frames = Append(@, one.frame)]

(* A frame takes bytes, so that there are fewer of them than bytes.          *)
ExtractAll(p) ==
  LET After[n \in 0 .. Len(p.buf)] ==
        IF n = 0 THEN [p EXCEPT !.found = TRUE] ELSE ExtractNext(After[n - 1])
  IN After[Len(p.buf)]

FeedOnce(p) ==
  LET room == MakeRoom(p.buf)
      space == PARSE_BUF_SIZE - Len(room)
      take == IF Len(p.rest) <= space THEN Len(p.rest) ELSE space
  IN IF p.rest = <<>> THEN p
     ELSE ExtractAll([p EXCEPT !.buf = room \o SubSeq(p.rest, 1, take),
                               !.rest = From(@, take + 1)])

ParserFeed(buf, data) ==
  LET After[n \in 0 .. Len(data)] ==
        IF n = 0 THEN [buf |-> buf, rest |-> data, frames |-> <<>>, found |-> FALSE]
        ELSE FeedOnce(After[n - 1])
  IN After[Len(data)]
=============================================================================
