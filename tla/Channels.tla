------------------------------ MODULE Channels ------------------------------
(***************************************************************************)
(* channels.c: the state of the RF channels and the queue of commands sent *)
(* to them over one shared serial line.                                    *)
(*                                                                         *)
(* The GUI calls channel_turn_output_on, channel_turn_output_off,          *)
(* channel_set_level and channel_set_mode, each of which queues commands   *)
(* and returns; a timer calls channels_poll, which sends one command, lets *)
(* it settle for 300 ms, then copies what it asked for into the channel's  *)
(* displayed state.  Nothing is ever read back from the amplifiers, so     *)
(* this state is what the program believes, and radio is what is true.     *)
(*                                                                         *)
(* The calls are written as functions from one state of the rack to the    *)
(* next, so that a GUI handler which makes several calls in a row is the   *)
(* composition of the functions (module Console).  The queue is the        *)
(* sequence that module SendRing shows g_queue, g_queue_head and           *)
(* g_queue_len to stand for.                                               *)
(*                                                                         *)
(* A definition that no action uses, written just before the one it would  *)
(* replace, is a faulty variant of it: PROJECT.json names, under mutants,  *)
(* the property that notices the fault.                                    *)
(***************************************************************************)
EXTENDS Integers, Sequences, FiniteSets

CONSTANTS
  NumChannels,  \* MAX_CHANNELS, 16 in the code
  QUEUE_CAP,    \* 32 in the code
  OnLevels,     \* the levels above LEVEL_OFF: {1, 2, 3} in the code
  Modes,        \* PROTO_MODE_*
  WhiteNoise,   \* PROTO_MODE_WHITE_NOISE, the mode every channel starts in
  NoRequest     \* nothing is in flight

LEVEL_OFF    == 0
LEVEL_LOW    == 1
LEVEL_MEDIUM == 2
LEVEL_HIGH   == 3

Levels   == OnLevels \cup {LEVEL_OFF}
Channels == 1..NumChannels

(* The dBm a level commands; OFF falls into the switch's default, 0 dBm.     *)
PowerDb(level) == CASE level = LEVEL_LOW    -> -12
                    [] level = LEVEL_MEDIUM -> -6
                    [] OTHER                -> 0

(* No Signal Control frame has reached this amplifier yet.                   *)
UnknownDb == 1

(* A SendRequest.  Its kind says which frame it carries and which parts of   *)
(* the channel it updates once settled:                                      *)
(*   on, off   Output Switch frame; sets output_on and level                 *)
(*   resume    Output Switch frame (on); sets output_on only                 *)
(*   level     Signal Control frame; sets output_on and level                *)
(*   mode      Signal Control frame; sets mode only                          *)
(* The Signal Control frame carries the power of level and the mode.         *)
Request == [channel : Channels, kind : {"on", "off", "resume", "level", "mode"},
            level : Levels, mode : Modes]

IsSwitch(q)   == q.kind \in {"on", "off", "resume"}
SetsOutput(q) == q.kind # "mode"
OutputOf(q)   == q.kind # "off"
SetsLevel(q)  == q.kind \in {"on", "off", "level"}

FrameTypes == {"switch", "signal"}
Frame(q)   == IF IsSwitch(q) THEN "switch" ELSE "signal"

ASSUME ChannelsAssumption ==
  /\ NumChannels \in Nat \ {0}
  /\ QUEUE_CAP \in Nat \ {0}
  /\ OnLevels \subseteq {LEVEL_LOW, LEVEL_MEDIUM, LEVEL_HIGH}
  /\ LEVEL_LOW \in OnLevels
  /\ WhiteNoise \in Modes
  /\ NoRequest \notin Request

VARIABLES
  queue,      \* g_queue, as the sequence of the waiting requests
  inflight,   \* g_inflight_req while g_inflight is set, else NoRequest
  chan,       \* g_channels: [output_on, level, last_level, mode, busy]
  queued,     \* g_last_queued_output / _level: [output, level], -1 = unknown
  connected,  \* Connection.connected
  radio,      \* external: what each amplifier was last told [on, power, mode]
  heard,      \* history: <<c, f>> if the last frame of type f sent to c arrived
  lost        \* history: channels one of whose requests found the queue full

rackVars == <<queue, inflight, chan, queued, radio, heard, lost>>
chanVars == <<rackVars, connected>>

Rack == [queue |-> queue, inflight |-> inflight, chan |-> chan, queued |-> queued,
         radio |-> radio, heard |-> heard, lost |-> lost]

SetRack(new) ==
  \E r \in {new} :
    /\ queue' = r.queue
    /\ inflight' = r.inflight
    /\ chan' = r.chan
    /\ queued' = r.queued
    /\ radio' = r.radio
    /\ heard' = r.heard
    /\ lost' = r.lost

-----------------------------------------------------------------------------
(* enqueue(), called once for each element of reqs in turn: what no longer   *)
(* fits is dropped without a trace.                                          *)
RoomForOneMore(r) == QUEUE_CAP + 1 - Len(r.queue)
Room(r) == QUEUE_CAP - Len(r.queue)

Taken(r, reqs) == SubSeq(reqs, 1, IF Len(reqs) <= Room(r) THEN Len(reqs) ELSE Room(r))

Offer(r, reqs) ==
  LET taken == Taken(r, reqs) IN
  [r EXCEPT
     !.queue = @ \o taken,
     !.chan = [c \in Channels |->
                 [r.chan[c] EXCEPT !.busy = @ \/ \E i \in DOMAIN taken : taken[i].channel = c]],
     !.lost = @ \cup {reqs[i].channel : i \in (Len(taken) + 1) .. Len(reqs)}]

(* What each call queues.  A call that repeats the last thing queued for its *)
(* channel queues nothing.  The level and mode a frame carries are the       *)
(* channel's settled ones, whatever waits in the queue.                      *)
OnRequest(r, c) == [channel |-> c, kind |-> "on", level |-> r.chan[c].last_level,
                    mode |-> r.chan[c].mode]
OffRequest(r, c) == [channel |-> c, kind |-> "off", level |-> LEVEL_OFF,
                     mode |-> r.chan[c].mode]

OnRequests(r, c) ==
  IF r.queued[c] = [output |-> 1, level |-> r.chan[c].last_level]
  THEN <<>> ELSE <<OnRequest(r, c)>>

OffWheneverSettled(r, c) ==
  IF ~r.chan[c].output_on THEN <<>> ELSE <<OffRequest(r, c)>>
OffRequests(r, c) ==
  IF r.queued[c].output = 0 THEN <<>> ELSE <<OffRequest(r, c)>>

LevelRequest(r, c, level) ==
  [channel |-> c, kind |-> "level", level |-> level, mode |-> r.chan[c].mode]

LevelAlone(r, c, level) ==
  IF r.queued[c] = [output |-> 1, level |-> level]
  THEN <<>> ELSE <<LevelRequest(r, c, level)>>
LevelRequests(r, c, level) ==
  IF r.queued[c] = [output |-> 1, level |-> level]
  THEN <<>>
  ELSE (IF r.queued[c].output # 1
        THEN <<[LevelRequest(r, c, level) EXCEPT !.kind = "resume"]>> ELSE <<>>)
       \o <<LevelRequest(r, c, level)>>

ModeRequests(r, c, mode) ==
  <<[channel |-> c, kind |-> "mode", mode |-> mode,
     level |-> IF r.chan[c].level # LEVEL_OFF THEN r.chan[c].level
                                              ELSE r.chan[c].last_level]>>

(* The memo g_last_queued_output / g_last_queued_level after each call.  It  *)
(* is written whether or not the queue had room; a call that queued nothing  *)
(* found it at this value already.                                           *)
MemoOff == [output |-> 0, level |-> LEVEL_OFF]
MemoOn(level) == [output |-> 1, level |-> level]

(* The four calls of channels.h. *)
TurnOnForgetful(r, c) == Offer(r, OnRequests(r, c))
TurnOn(r, c) ==
  [Offer(r, OnRequests(r, c)) EXCEPT !.queued[c] = MemoOn(r.chan[c].last_level)]

TurnOff(r, c) == [Offer(r, OffRequests(r, c)) EXCEPT !.queued[c] = MemoOff]

SetLevelForgetful(r, c, level) ==
  IF level = LEVEL_OFF
  THEN TurnOff(r, c)
  ELSE [Offer(r, LevelRequests(r, c, level)) EXCEPT !.queued[c] = MemoOn(level)]
SetLevel(r, c, level) ==
  IF level = LEVEL_OFF
  THEN TurnOff(r, c)
  ELSE [Offer(r, LevelRequests(r, c, level)) EXCEPT
          !.chan[c].last_level = level,
          !.queued[c] = MemoOn(level)]

SetMode(r, c, mode) == Offer(r, ModeRequests(r, c, mode))

-----------------------------------------------------------------------------
(* The two halves of channels_poll(). *)

(* A settled request is believed to have worked. *)
Settled(ch, q) ==
  [ch EXCEPT !.output_on = IF SetsOutput(q) THEN OutputOf(q) ELSE @,
             !.level = IF SetsLevel(q) THEN q.level ELSE @,
             !.mode = IF q.kind = "mode" THEN q.mode ELSE @,
             !.busy = FALSE]

Settle(r) == [r EXCEPT !.chan[r.inflight.channel] = Settled(@, r.inflight),
                       !.inflight = NoRequest]

(* The head of the queue goes on the wire.  The result of conn_send is not   *)
(* looked at: without a connection the frame goes nowhere, and the request   *)
(* is settled all the same.                                                  *)
Received(amp, q) ==
  IF IsSwitch(q) THEN [amp EXCEPT !.on = OutputOf(q)]
  ELSE [amp EXCEPT !.power = PowerDb(q.level), !.mode = q.mode]

Send(r, up) ==
  LET q == Head(r.queue) IN
  [r EXCEPT
     !.queue = Tail(@),
     !.inflight = q,
     !.radio[q.channel] = IF up THEN Received(@, q) ELSE @,
     !.heard = IF up THEN @ \cup {<<q.channel, Frame(q)>>}
                     ELSE @ \ {<<q.channel, Frame(q)>>}]

(* channels_poll() as a whole; ripe says that g_settle_deadline has passed.  *)
Poll(r, ripe, up) ==
  IF r.inflight # NoRequest THEN (IF ripe THEN Settle(r) ELSE r)
  ELSE IF r.queue # <<>> THEN Send(r, up)
  ELSE r

-----------------------------------------------------------------------------
(* channels_init().  The amplifiers keep what an earlier run told them. *)
InitChan == [output_on |-> FALSE, level |-> LEVEL_OFF, last_level |-> LEVEL_LOW,
             mode |-> WhiteNoise, busy |-> FALSE]

RackInit ==
  /\ queue = <<>>
  /\ inflight = NoRequest
  /\ chan = [c \in Channels |-> InitChan]
  /\ queued = [c \in Channels |-> [output |-> -1, level |-> -1]]
  /\ radio \in [Channels -> [on : BOOLEAN, power : {UnknownDb}, mode : {WhiteNoise}]]
  /\ heard = {}
  /\ lost = {}

Init == RackInit /\ connected = FALSE

channel_turn_output_on(c) == SetRack(TurnOn(Rack, c)) /\ UNCHANGED connected

channel_turn_output_off(c) == SetRack(TurnOff(Rack, c)) /\ UNCHANGED connected

channel_set_level(c, level) == SetRack(SetLevel(Rack, c, level)) /\ UNCHANGED connected

channel_set_mode(c, mode) == SetRack(SetMode(Rack, c, mode)) /\ UNCHANGED connected

(* channels_poll() after g_settle_deadline; before it, a poll does nothing. *)
PollSettleOnline ==
  /\ inflight # NoRequest
  /\ connected
  /\ SetRack(Settle(Rack))
  /\ UNCHANGED connected
PollSettle ==
  /\ inflight # NoRequest
  /\ SetRack(Settle(Rack))
  /\ UNCHANGED connected

PollSendHasty ==
  /\ queue # <<>>
  /\ SetRack(Send(Rack, connected))
  /\ UNCHANGED connected
PollSend ==
  /\ inflight = NoRequest
  /\ queue # <<>>
  /\ SetRack(Send(Rack, connected))
  /\ UNCHANGED connected

(* The link comes and goes (connection.c). *)
LinkChange ==
  /\ connected' = ~connected
  /\ UNCHANGED rackVars

Call ==
  \E c \in Channels :
    \/ channel_turn_output_on(c)
    \/ channel_turn_output_off(c)
    \/ \E level \in Levels : channel_set_level(c, level)
    \/ \E mode \in Modes : channel_set_mode(c, mode)

Next ==
  \/ Call
  \/ PollSettle
  \/ PollSend
  \/ LinkChange

(* The GUI's 100 ms timer calls channels_poll for as long as it runs. *)
Fairness == WF_chanVars(PollSettle) /\ WF_chanVars(PollSend)

Spec == Init /\ [][Next]_chanVars /\ Fairness

-----------------------------------------------------------------------------
Chan == [output_on : BOOLEAN, level : Levels, last_level : OnLevels,
         mode : Modes, busy : BOOLEAN]
Memo == [output : {-1, 0, 1}, level : Levels \cup {-1}]
Amplifier == [on : BOOLEAN, power : {UnknownDb, -12, -6, 0}, mode : Modes]

(* Every variable keeps its type; no channel resumes to LEVEL_OFF            *)
(* ("never LEVEL_OFF", channels.h), and no more than QUEUE_CAP wait.         *)
TypeOK ==
  /\ queue \in Seq(Request)
  /\ Len(queue) <= QUEUE_CAP
  /\ inflight \in Request \cup {NoRequest}
  /\ chan \in [Channels -> Chan]
  /\ queued \in [Channels -> Memo]
  /\ connected \in BOOLEAN
  /\ radio \in [Channels -> Amplifier]
  /\ heard \subseteq Channels \X FrameTypes
  /\ lost \subseteq Channels

(* The last frame of this type sent to c went over a live link. *)
Arrived(c, frame) == <<c, frame>> \in heard

(* All requests that have not settled yet, in the order they will. *)
Pipeline == (IF inflight = NoRequest THEN <<>> ELSE <<inflight>>) \o queue

PendingFor(c) == {i \in DOMAIN Pipeline : Pipeline[i].channel = c}

LastOf(S) == CHOOSE i \in S : \A j \in S : j <= i

OutputToCome(c) ==
  LET S == {i \in PendingFor(c) : SetsOutput(Pipeline[i])}
  IN IF S = {} THEN chan[c].output_on ELSE OutputOf(Pipeline[LastOf(S)])

LevelToCome(c) ==
  LET S == {i \in PendingFor(c) : SetsLevel(Pipeline[i])}
  IN IF S = {} THEN chan[c].level ELSE Pipeline[LastOf(S)].level

(* The memo by which a repeated call is skipped is right to skip it: unless  *)
(* a request of the channel was dropped, everything pending ends with the    *)
(* output and the level the memo names.                                      *)
MemoMatchesPipeline ==
  \A c \in Channels \ lost : queued[c].output # -1 =>
    /\ queued[c].output = IF OutputToCome(c) THEN 1 ELSE 0
    /\ queued[c].level = LevelToCome(c)

(* A gauge drag does not flood the queue (comment on g_last_queued_output):  *)
(* no pending request of a channel asks for the output and level that the    *)
(* pending one before it already asked for.                                  *)
NoRepeatedCommand ==
  \A c \in Channels \ lost : \A i, j \in PendingFor(c) :
    /\ i < j
    /\ SetsLevel(Pipeline[i]) /\ SetsLevel(Pipeline[j])
    /\ \A k \in PendingFor(c) : i < k /\ k < j => ~SetsOutput(Pipeline[k])
    => Pipeline[i].level # Pipeline[j].level

(* What the panel shows is what the amplifier does: if the last switch frame *)
(* sent to a channel was sent over a live link, and none was dropped, then   *)
(* output_on is the amplifier's output, but for the 300 ms in which the      *)
(* amplifier has its command and the panel does not show it yet.             *)
RadioFollowsChannel ==
  \A c \in Channels \ lost : Arrived(c, "switch") =>
    radio[c].on = IF /\ inflight # NoRequest
                     /\ inflight.channel = c
                     /\ SetsOutput(inflight)
                  THEN OutputOf(inflight) ELSE chan[c].output_on

(* What Save Config writes for a channel, at whatever moment: the level it   *)
(* resumes to if it is shown on, else OFF.                                   *)
SavedLevel(c) == IF chan[c].output_on THEN chan[c].last_level ELSE LEVEL_OFF

(* A saved file never names a level the rack is neither shown at nor on its  *)
(* way to, although its output is the settled one and its level that of the  *)
(* last call.                                                                *)
SavedIsShownOrUnderWay ==
  \A c \in Channels \ lost :
    \/ SavedLevel(c) = chan[c].level
    \/ \E i \in PendingFor(c) :
         SetsLevel(Pipeline[i]) /\ Pipeline[i].level = SavedLevel(c)

(* The queue with the request on the wire is the abstract FIFO: an accepted  *)
(* request is sent once, in order, and only when the one before has settled. *)
Fifo == INSTANCE SendFifo
          WITH Requests <- Request, Capacity <- QUEUE_CAP,
               waiting <- queue, settling <- inflight
QueueIsFifo == Fifo!Spec

(* A channel told to go off does, link or no link on the program's side: it  *)
(* shows off, and its amplifier is off if the last switch frame reached it,  *)
(* unless the channel is told otherwise first or the request was dropped.    *)
OffTakesEffect ==
  \A c \in Channels :
    queued[c] = MemoOff ~> \/ ~chan[c].output_on /\ (Arrived(c, "switch") => ~radio[c].on)
                           \/ queued[c] # MemoOff
                           \/ c \in lost
=============================================================================
