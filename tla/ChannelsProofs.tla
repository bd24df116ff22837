--------------------------- MODULE ChannelsProofs ---------------------------
(***************************************************************************)
(* Theorems about Channels for every number of channels and every queue    *)
(* capacity, with their proofs.                                            *)
(*                                                                         *)
(* The calls of Channels are functions on rack records, so the lemmas are  *)
(* about the functions: each keeps a record of the right type, and keeps   *)
(* it in order.  The steps follow from the lemmas, and so do the steps of  *)
(* every module that builds handlers from the same functions.              *)
(*                                                                         *)
(* In order: the invariants of Channels compare a channel with the end     *)
(* of a line of requests that grows at one end and is worked off at the    *)
(* other, and none of them is inductive.  InLine is: it looks at one       *)
(* channel, at the places in the line of the requests that set its output, *)
(* and says that the memo names the last of them, that each differs from   *)
(* the one before, that a level is only sent to an amplifier that is on by *)
(* then, that a resume is followed by its level, and that last_level is    *)
(* the last level asked for.  Requests of other channels and of kind mode  *)
(* lie in between and do not matter.                                       *)
(*                                                                         *)
(* First it is shown of a line and a channel alone: that it survives when  *)
(* the line grows by what one call queues (the Grow lemmas) and when its   *)
(* first request settles (SettleKeepsLine).  Then of racks: enqueue()      *)
(* lets a line grow in this way, whichever channels the requests are for   *)
(* (OfferKeepsOrder), the four calls and channels_poll() keep it, and so   *)
(* does every step of Channels and of the modules built on it.             *)
(***************************************************************************)
EXTENDS Channels, SequenceTheorems, WellFoundedInduction, TLAPS

(* The records TypeOK allows. *)
RackType ==
  [queue : {q \in Seq(Request) : Len(q) <= QUEUE_CAP},
   inflight : Request \cup {NoRequest},
   chan : [Channels -> Chan],
   queued : [Channels -> Memo],
   radio : [Channels -> Amplifier],
   heard : SUBSET (Channels \X FrameTypes),
   lost : SUBSET Channels]

LEMMA TypeOfRack == TypeOK <=> Rack \in RackType /\ connected \in BOOLEAN
  BY DEF TypeOK, Rack, RackType

LEMMA LevelTypes ==
  /\ Levels \subseteq 0..3
  /\ OnLevels \subseteq Levels
  /\ LEVEL_OFF \in Levels
  /\ LEVEL_LOW \in OnLevels
  /\ WhiteNoise \in Modes
  BY ChannelsAssumption DEF Levels, LEVEL_OFF, LEVEL_LOW, LEVEL_MEDIUM, LEVEL_HIGH

(* enqueue() keeps the type, takes no more than fits, and leaves everything  *)
(* but the queue, the busy marks and the losses alone.                       *)
LEMMA OfferType ==
  ASSUME NEW r \in RackType, NEW reqs \in Seq(Request)
  PROVE  /\ Offer(r, reqs) \in RackType
         /\ Offer(r, reqs).queued = r.queued
         /\ Offer(r, reqs).inflight = r.inflight
         /\ Offer(r, reqs).queue = r.queue \o Taken(r, reqs)
         /\ Taken(r, reqs) \in Seq(Request)
<1> DEFINE taken == Taken(r, reqs)
           n == IF Len(reqs) <= Room(r) THEN Len(reqs) ELSE Room(r)
<1>1. /\ r.queue \in Seq(Request)
      /\ Len(r.queue) \in Nat
      /\ Len(r.queue) <= QUEUE_CAP
      /\ Len(reqs) \in Nat
  BY DEF RackType
<1>2. n \in 0..Len(reqs) /\ n <= QUEUE_CAP - Len(r.queue)
  <2>1. QUEUE_CAP \in Nat
    BY ChannelsAssumption
  <2>2. Room(r) \in Nat /\ Room(r) = QUEUE_CAP - Len(r.queue)
    BY <1>1, <2>1 DEF Room
  <2>3. CASE Len(reqs) <= Room(r)
    BY <1>1, <2>2, <2>3
  <2>4. CASE ~(Len(reqs) <= Room(r))
    BY <1>1, <2>2, <2>4
  <2>. QED
    BY <2>3, <2>4
<1>3. taken \in Seq(Request) /\ Len(taken) = n
  BY <1>2, SubSeqProperties DEF Taken
<1>4. r.queue \o taken \in {q \in Seq(Request) : Len(q) <= QUEUE_CAP}
  BY <1>1, <1>2, <1>3, ConcatProperties, ChannelsAssumption
<1>5. [c \in Channels |->
         [r.chan[c] EXCEPT !.busy = @ \/ \E i \in DOMAIN taken : taken[i].channel = c]]
        \in [Channels -> Chan]
  <2>1. ASSUME NEW c \in Channels, NEW busy \in BOOLEAN
        PROVE  [r.chan[c] EXCEPT !.busy = busy] \in Chan
    BY DEF RackType, Chan
  <2>2. \A c \in Channels :
          (r.chan[c].busy \/ \E i \in DOMAIN taken : taken[i].channel = c) \in BOOLEAN
    OBVIOUS
  <2>. QED
    BY <2>1, <2>2
<1>6. {reqs[i].channel : i \in (Len(taken) + 1) .. Len(reqs)} \subseteq Channels
  <2>1. \A i \in (n + 1) .. Len(reqs) : i \in 1 .. Len(reqs)
    BY <1>1, <1>2
  <2>2. \A i \in 1 .. Len(reqs) : reqs[i] \in Request
    OBVIOUS
  <2>3. \A i \in (n + 1) .. Len(reqs) : reqs[i].channel \in Channels
    BY <2>1, <2>2 DEF Request
  <2>. QED
    BY <1>3, <2>3
<1>. HIDE DEF taken
<1>7. r.lost \cup {reqs[i].channel : i \in (Len(taken) + 1) .. Len(reqs)} \in SUBSET Channels
  BY <1>6 DEF RackType
<1>8. Offer(r, reqs) =
        [r EXCEPT
           !.queue = r.queue \o taken,
           !.chan = [c \in Channels |->
              [r.chan[c] EXCEPT !.busy = @ \/ \E i \in DOMAIN taken : taken[i].channel = c]],
           !.lost = r.lost \cup {reqs[i].channel : i \in (Len(taken) + 1) .. Len(reqs)}]
  BY DEF Offer, taken, RackType
<1>. QED
  BY <1>3, <1>4, <1>5, <1>7, <1>8 DEF RackType, taken

(* What the four calls queue. *)
LEMMA OnRequestsType ==
  ASSUME NEW r \in RackType, NEW c \in Channels
  PROVE  OnRequests(r, c) \in Seq(Request)
<1>1. OnRequest(r, c) \in Request
  BY LevelTypes DEF RackType, Chan, OnRequest, Request
<1>. QED
  BY <1>1 DEF OnRequests

LEMMA OffRequestsType ==
  ASSUME NEW r \in RackType, NEW c \in Channels
  PROVE  OffRequests(r, c) \in Seq(Request)
<1>1. OffRequest(r, c) \in Request
  BY LevelTypes DEF RackType, Chan, OffRequest, Request
<1>. QED
  BY <1>1 DEF OffRequests

LEMMA LevelRequestsType ==
  ASSUME NEW r \in RackType, NEW c \in Channels, NEW level \in OnLevels
  PROVE  LevelRequests(r, c, level) \in Seq(Request)
<1>1. LevelRequest(r, c, level) \in Request
  BY LevelTypes DEF RackType, Chan, LevelRequest, Request
<1>2. [LevelRequest(r, c, level) EXCEPT !.kind = "resume"] \in Request
  BY <1>1 DEF Request
<1>. QED
  BY <1>1, <1>2 DEF LevelRequests

LEMMA ModeRequestsType ==
  ASSUME NEW r \in RackType, NEW c \in Channels, NEW mode \in Modes
  PROVE  ModeRequests(r, c, mode) \in Seq(Request)
<1> DEFINE level == IF r.chan[c].level # LEVEL_OFF THEN r.chan[c].level
                                                  ELSE r.chan[c].last_level
<1>1. level \in Levels
  BY LevelTypes DEF RackType, Chan
<1> HIDE DEF level
<1>2. [channel |-> c, kind |-> "mode", mode |-> mode, level |-> level] \in Request
  BY <1>1 DEF Request
<1>. QED
  BY <1>2 DEF ModeRequests, level

LEMMA MemoTypes ==
  /\ MemoOff \in Memo
  /\ \A level \in OnLevels : MemoOn(level) \in Memo
  BY LevelTypes DEF MemoOff, MemoOn, Memo

(* The four calls. *)
LEMMA TurnOnType ==
  ASSUME NEW r \in RackType, NEW c \in Channels
  PROVE  TurnOn(r, c) \in RackType
<1>1. MemoOn(r.chan[c].last_level) \in Memo
  BY MemoTypes DEF RackType, Chan
<1>2. Offer(r, OnRequests(r, c)) \in RackType
  BY OnRequestsType, OfferType
<1>. QED
  BY <1>1, <1>2 DEF TurnOn, RackType

LEMMA TurnOffType ==
  ASSUME NEW r \in RackType, NEW c \in Channels
  PROVE  TurnOff(r, c) \in RackType
<1>1. Offer(r, OffRequests(r, c)) \in RackType
  BY OffRequestsType, OfferType
<1>. QED
  BY <1>1, MemoTypes DEF TurnOff, RackType

LEMMA SetLevelType ==
  ASSUME NEW r \in RackType, NEW c \in Channels, NEW level \in Levels
  PROVE  SetLevel(r, c, level) \in RackType
<1>1. CASE level = LEVEL_OFF
  BY <1>1, TurnOffType DEF SetLevel
<1>2. CASE level # LEVEL_OFF
  <2>1. level \in OnLevels
    BY <1>2 DEF Levels
  <2> DEFINE new == Offer(r, LevelRequests(r, c, level))
  <2>2. new \in RackType
    BY <2>1, LevelRequestsType, OfferType
  <2>3. MemoOn(level) \in Memo
    BY <2>1, MemoTypes
  <2> HIDE DEF new
  <2> DEFINE ch == [new.chan EXCEPT ![c].last_level = level]
             memo == [new.queued EXCEPT ![c] = MemoOn(level)]
  <2>5. ch \in [Channels -> Chan]
    <3>1. new.chan \in [Channels -> Chan]
      BY <2>2 DEF RackType
    <3>2. [new.chan[c] EXCEPT !.last_level = level] \in Chan
      <4>1. new.chan[c] \in Chan
        BY <3>1
      <4>. QED
        BY <4>1, <2>1 DEF Chan
    <3>. QED
      BY <3>1, <3>2
  <2>6. memo \in [Channels -> Memo]
    BY <2>2, <2>3 DEF RackType
  <2>7. [new EXCEPT !.chan[c].last_level = level, !.queued[c] = MemoOn(level)]
          = [new EXCEPT !.chan = ch, !.queued = memo]
    BY <2>2 DEF RackType
  <2>8. [new EXCEPT !.chan = ch, !.queued = memo] \in RackType
    <3> HIDE DEF ch, memo
    <3>. QED
      BY <2>2, <2>5, <2>6 DEF RackType
  <2>4. [new EXCEPT !.chan[c].last_level = level, !.queued[c] = MemoOn(level)] \in RackType
    BY <2>7, <2>8
  <2>. QED
    BY <1>2, <2>4 DEF SetLevel, new
<1>. QED
  BY <1>1, <1>2

LEMMA SetModeType ==
  ASSUME NEW r \in RackType, NEW c \in Channels, NEW mode \in Modes
  PROVE  SetMode(r, c, mode) \in RackType
  BY ModeRequestsType, OfferType DEF SetMode

(* The two halves of channels_poll(). *)
LEMMA SettleType ==
  ASSUME NEW r \in RackType, r.inflight # NoRequest
  PROVE  Settle(r) \in RackType
<1> DEFINE q == r.inflight
           shown == Settled(r.chan[q.channel], q)
<1>1. q \in Request
  BY DEF RackType
<1>2. r.chan[q.channel] \in Chan /\ q.channel \in Channels
  BY <1>1 DEF RackType, Request
<1>3. OutputOf(q) \in BOOLEAN /\ q.level \in Levels /\ q.mode \in Modes
  BY <1>1 DEF OutputOf, Request
<1> HIDE DEF q
<1>4. shown \in Chan
  BY <1>2, <1>3 DEF Chan, Settled
<1>5. Settle(r) = [r EXCEPT !.chan = [r.chan EXCEPT ![q.channel] = shown],
                            !.inflight = NoRequest]
  BY <1>2 DEF Settle, RackType, q
<1>6. [r.chan EXCEPT ![q.channel] = shown] \in [Channels -> Chan]
  <2> HIDE DEF shown
  <2>. QED
    BY <1>2, <1>4 DEF RackType
<1> HIDE DEF shown
<1>. QED
  BY <1>5, <1>6 DEF RackType

LEMMA SendType ==
  ASSUME NEW r \in RackType, r.queue # <<>>, NEW up \in BOOLEAN
  PROVE  Send(r, up) \in RackType
<1> DEFINE q == Head(r.queue)
           amp == IF up THEN Received(r.radio[q.channel], q) ELSE r.radio[q.channel]
           ears == IF up THEN r.heard \cup {<<q.channel, Frame(q)>>}
                         ELSE r.heard \ {<<q.channel, Frame(q)>>}
<1>1. /\ r.queue \in Seq(Request)
      /\ Len(r.queue) <= QUEUE_CAP
      /\ Len(r.queue) \in Nat \ {0}
  BY EmptySeq DEF RackType
<1>2. q \in Request /\ Tail(r.queue) \in {s \in Seq(Request) : Len(s) <= QUEUE_CAP}
  BY <1>1, HeadTailProperties, ChannelsAssumption
<1>3. q.channel \in Channels /\ r.radio[q.channel] \in Amplifier
  BY <1>2 DEF RackType, Request
<1>4. OutputOf(q) \in BOOLEAN /\ q.mode \in Modes
  BY <1>2 DEF OutputOf, Request
<1>5. PowerDb(q.level) \in {UnknownDb, -12, -6, 0}
  BY DEF PowerDb
<1> HIDE DEF q
<1>6. amp \in Amplifier
  BY <1>3, <1>4, <1>5 DEF Received, Amplifier
<1>7. Frame(q) \in FrameTypes
  BY DEF Frame, FrameTypes
<1>8. ears \in SUBSET (Channels \X FrameTypes)
  BY <1>3, <1>7 DEF RackType
<1>9. Send(r, up) = [r EXCEPT !.queue = Tail(r.queue), !.inflight = q,
                              !.radio = [r.radio EXCEPT ![q.channel] = amp],
                              !.heard = ears]
  BY <1>3 DEF Send, RackType, q
<1>10. [r.radio EXCEPT ![q.channel] = amp] \in [Channels -> Amplifier]
  <2> HIDE DEF amp
  <2>. QED
    BY <1>3, <1>6 DEF RackType
<1> HIDE DEF amp, ears
<1>. QED
  BY <1>2, <1>8, <1>9, <1>10 DEF RackType

LEMMA PollType ==
  ASSUME NEW r \in RackType, NEW ripe \in BOOLEAN, NEW up \in BOOLEAN
  PROVE  Poll(r, ripe, up) \in RackType
  BY SettleType, SendType DEF Poll

(* Nothing but the four calls writes the memo. *)
LEMMA PollKeepsMemo ==
  ASSUME NEW r \in RackType, NEW ripe \in BOOLEAN, NEW up \in BOOLEAN
  PROVE  Poll(r, ripe, up).queued = r.queued
  BY DEF Poll, Settle, Send, RackType

(* SetRack makes a record of the right type the next state's rack. *)
LEMMA SetRackType ==
  ASSUME NEW r \in RackType, SetRack(r), connected' \in BOOLEAN
  PROVE  TypeOK'
  BY DEF SetRack, RackType, TypeOK

LEMMA RackInitType == RackInit /\ connected \in BOOLEAN => TypeOK
<1> SUFFICES ASSUME RackInit, connected \in BOOLEAN PROVE TypeOK
  OBVIOUS
<1>1. InitChan \in Chan
  BY LevelTypes DEF InitChan, Chan
<1>2. [output |-> -1, level |-> -1] \in Memo
  BY DEF Memo
<1>3. [on : BOOLEAN, power : {UnknownDb}, mode : {WhiteNoise}] \subseteq Amplifier
  BY LevelTypes DEF Amplifier
<1>4. queue \in Seq(Request) /\ Len(queue) <= QUEUE_CAP
  BY ChannelsAssumption DEF RackInit
<1>5. radio \in [Channels -> Amplifier]
  BY <1>3 DEF RackInit
<1>. QED
  BY <1>1, <1>2, <1>4, <1>5 DEF RackInit, TypeOK

(* Type correctness: whatever calls are made, the queue never grows past     *)
(* QUEUE_CAP and no channel ever resumes to LEVEL_OFF.                       *)
THEOREM TypeCorrect == Spec => []TypeOK
<1>1. Init => TypeOK
  BY RackInitType DEF Init
<1>2. TypeOK /\ [Next]_chanVars => TypeOK'
  <2> SUFFICES ASSUME TypeOK, [Next]_chanVars PROVE TypeOK'
    OBVIOUS
  <2>1. Rack \in RackType /\ connected \in BOOLEAN
    BY TypeOfRack
  <2>2. Rack.inflight = inflight /\ Rack.queue = queue
    BY DEF Rack
  <2>3. ASSUME NEW c \in Channels, channel_turn_output_on(c) PROVE TypeOK'
    BY <2>1, <2>3, TurnOnType, SetRackType DEF channel_turn_output_on
  <2>4. ASSUME NEW c \in Channels, channel_turn_output_off(c) PROVE TypeOK'
    BY <2>1, <2>4, TurnOffType, SetRackType DEF channel_turn_output_off
  <2>5. ASSUME NEW c \in Channels, NEW level \in Levels, channel_set_level(c, level)
        PROVE  TypeOK'
    BY <2>1, <2>5, SetLevelType, SetRackType DEF channel_set_level
  <2>6. ASSUME NEW c \in Channels, NEW mode \in Modes, channel_set_mode(c, mode)
        PROVE  TypeOK'
    BY <2>1, <2>6, SetModeType, SetRackType DEF channel_set_mode
  <2>7. CASE PollSettle
    BY <2>1, <2>2, <2>7, SettleType, SetRackType DEF PollSettle
  <2>8. CASE PollSend
    BY <2>1, <2>2, <2>8, SendType, SetRackType DEF PollSend
  <2>9. CASE LinkChange
    BY <2>9 DEF LinkChange, TypeOK, rackVars
  <2>10. CASE UNCHANGED chanVars
    BY <2>10 DEF chanVars, rackVars, TypeOK
  <2>. QED
    BY <2>3, <2>4, <2>5, <2>6, <2>7, <2>8, <2>9, <2>10 DEF Next, Call
<1>. QED
  BY <1>1, <1>2, PTL DEF Spec

-----------------------------------------------------------------------------
(* A call only adds to the queue. *)
LEMMA CallsAppend ==
  ASSUME NEW r \in RackType, NEW c \in Channels
  PROVE  /\ \E t \in Seq(Request) : TurnOn(r, c).queue = r.queue \o t
         /\ \E t \in Seq(Request) : TurnOff(r, c).queue = r.queue \o t
         /\ \A level \in Levels :
              \E t \in Seq(Request) : SetLevel(r, c, level).queue = r.queue \o t
         /\ \A mode \in Modes :
              \E t \in Seq(Request) : SetMode(r, c, mode).queue = r.queue \o t
         /\ TurnOn(r, c).inflight = r.inflight
         /\ TurnOff(r, c).inflight = r.inflight
         /\ \A level \in Levels : SetLevel(r, c, level).inflight = r.inflight
         /\ \A mode \in Modes : SetMode(r, c, mode).inflight = r.inflight
<1>1. /\ TurnOn(r, c).queue = Offer(r, OnRequests(r, c)).queue
      /\ TurnOn(r, c).inflight = Offer(r, OnRequests(r, c)).inflight
  BY OnRequestsType, OfferType DEF TurnOn, RackType
<1>2. /\ TurnOff(r, c).queue = Offer(r, OffRequests(r, c)).queue
      /\ TurnOff(r, c).inflight = Offer(r, OffRequests(r, c)).inflight
  BY OffRequestsType, OfferType DEF TurnOff, RackType
<1>3. ASSUME NEW level \in OnLevels, level # LEVEL_OFF
      PROVE  /\ SetLevel(r, c, level).queue = Offer(r, LevelRequests(r, c, level)).queue
             /\ SetLevel(r, c, level).inflight
                  = Offer(r, LevelRequests(r, c, level)).inflight
  BY <1>3, LevelRequestsType, OfferType DEF SetLevel, RackType
<1>4. ASSUME NEW reqs \in Seq(Request)
      PROVE  /\ \E t \in Seq(Request) : Offer(r, reqs).queue = r.queue \o t
             /\ Offer(r, reqs).inflight = r.inflight
  BY OfferType
<1>5. ASSUME NEW level \in Levels
      PROVE  /\ \E t \in Seq(Request) : SetLevel(r, c, level).queue = r.queue \o t
             /\ SetLevel(r, c, level).inflight = r.inflight
  <2>1. CASE level = LEVEL_OFF
    BY <1>2, <1>4, <2>1, OffRequestsType DEF SetLevel
  <2>2. CASE level # LEVEL_OFF
    <3>1. level \in OnLevels
      BY <2>2 DEF Levels
    <3>2. LevelRequests(r, c, level) \in Seq(Request)
      BY <3>1, LevelRequestsType
    <3>3. /\ SetLevel(r, c, level).queue = Offer(r, LevelRequests(r, c, level)).queue
          /\ SetLevel(r, c, level).inflight
               = Offer(r, LevelRequests(r, c, level)).inflight
      BY <1>3, <2>2, <3>1
    <3>. QED
      BY <1>4, <3>2, <3>3
  <2>. QED
    BY <2>1, <2>2
<1>. QED
  BY <1>1, <1>2, <1>4, <1>5, OnRequestsType, OffRequestsType, ModeRequestsType DEF SetMode

LEMMA AppendAccepts ==
  ASSUME TypeOK, TypeOK', NEW t \in Seq(Request),
         queue' = queue \o t, inflight' = inflight
  PROVE  [Fifo!Next]_(Fifo!fifoVars)
<1>1. queue \in Seq(Request) /\ queue' \in Seq(Request) /\ Len(queue') <= QUEUE_CAP
  BY DEF TypeOK
<1>2. CASE t = <<>>
  <2>1. queue' = queue
    BY <1>1, <1>2, ConcatEmptySeq
  <2>. QED
    BY <2>1 DEF Fifo!fifoVars
<1>3. CASE t # <<>>
  <2>1. Len(t) \in Nat \ {0}
    BY <1>3, EmptySeq
  <2>2. /\ Len(queue') = Len(queue) + Len(t)
        /\ \A i \in 1..Len(queue) : queue'[i] = queue[i]
    BY <1>1, ConcatProperties
  <2>3. Len(queue') \in (Len(queue) + 1) .. QUEUE_CAP
    BY <1>1, <2>1, <2>2, ChannelsAssumption
  <2>. QED
    BY <1>1, <2>2, <2>3 DEF Fifo!Next, Fifo!Accept
<1>. QED
  BY <1>2, <1>3

(* The queue is the abstract FIFO, for every number of channels and every    *)
(* capacity: whatever calls are made, an accepted request is sent once, in   *)
(* order, and only when the one before it has settled.                       *)
THEOREM QueueImplementsFifo == Spec => QueueIsFifo
<1>1. Init => Fifo!Init
  BY DEF Init, RackInit, Fifo!Init
<1>2. TypeOK /\ TypeOK' /\ [Next]_chanVars => [Fifo!Next]_(Fifo!fifoVars)
  <2> SUFFICES ASSUME TypeOK, TypeOK', [Next]_chanVars
               PROVE  [Fifo!Next]_(Fifo!fifoVars)
    OBVIOUS
  <2>1. Rack \in RackType /\ Rack.queue = queue /\ Rack.inflight = inflight
    BY TypeOfRack DEF Rack
  <2>2. ASSUME NEW r, SetRack(r)
        PROVE  queue' = r.queue /\ inflight' = r.inflight
    BY <2>2 DEF SetRack
  <2>3. ASSUME NEW r, SetRack(r), r.inflight = inflight,
               \E t \in Seq(Request) : r.queue = queue \o t
        PROVE  [Fifo!Next]_(Fifo!fifoVars)
    BY <2>2, <2>3, AppendAccepts
  <2>4. ASSUME NEW c \in Channels, channel_turn_output_on(c)
        PROVE  [Fifo!Next]_(Fifo!fifoVars)
    BY <2>1, <2>3, <2>4, CallsAppend DEF channel_turn_output_on
  <2>5. ASSUME NEW c \in Channels, channel_turn_output_off(c)
        PROVE  [Fifo!Next]_(Fifo!fifoVars)
    BY <2>1, <2>3, <2>5, CallsAppend DEF channel_turn_output_off
  <2>6. ASSUME NEW c \in Channels, NEW level \in Levels, channel_set_level(c, level)
        PROVE  [Fifo!Next]_(Fifo!fifoVars)
    BY <2>1, <2>3, <2>6, CallsAppend DEF channel_set_level
  <2>7. ASSUME NEW c \in Channels, NEW mode \in Modes, channel_set_mode(c, mode)
        PROVE  [Fifo!Next]_(Fifo!fifoVars)
    BY <2>1, <2>3, <2>7, CallsAppend DEF channel_set_mode
  <2>8. CASE PollSettle
    <3>1. Settle(Rack).queue = queue /\ Settle(Rack).inflight = NoRequest
      BY <2>1 DEF Settle, RackType
    <3>. QED
      BY <2>2, <2>8, <3>1 DEF PollSettle, Fifo!Next, Fifo!Settle
  <2>9. CASE PollSend
    <3>1. /\ Send(Rack, connected).queue = Tail(queue)
          /\ Send(Rack, connected).inflight = Head(queue)
      BY <2>1 DEF Send, RackType
    <3>. QED
      BY <2>2, <2>9, <3>1 DEF PollSend, Fifo!Next, Fifo!Send
  <2>10. CASE LinkChange
    BY <2>10 DEF LinkChange, rackVars, Fifo!fifoVars
  <2>11. CASE UNCHANGED chanVars
    BY <2>11 DEF chanVars, rackVars, Fifo!fifoVars
  <2>. QED
    BY <2>4, <2>5, <2>6, <2>7, <2>8, <2>9, <2>10, <2>11 DEF Next, Call
<1>. QED
  BY <1>1, <1>2, TypeCorrect, PTL DEF Spec, QueueIsFifo, Fifo!Spec

-----------------------------------------------------------------------------
(* The requests for c that set its output, by their places in a line p of    *)
(* requests; all but those of kind resume set its level as well.             *)
OutputsOf(p, c) == {i \in DOMAIN p : p[i].channel = c /\ SetsOutput(p[i])}

(* Place i is the last of O; there is no place of O between i and j.         *)
Ends(O, i) == \A j \in O : j <= i
Adjacent(O, i, j) == i < j /\ \A k \in O : ~(i < k /\ k < j)
LevelSetters(O, p) == {i \in O : SetsLevel(p[i])}
OnSetters(O, p)    == {i \in LevelSetters(O, p) : p[i].level # LEVEL_OFF}

(* The parts of the invariant, for one channel: O are the places of its      *)
(* requests in the line p, ch is its state and m its memo.                   *)
WellFormed(O, p) ==
  \A i \in O : /\ i \in Nat \ {0}
               /\ p[i].kind \in {"on", "off", "resume", "level"}
               /\ p[i].kind \in {"on", "level"} => p[i].level \in OnLevels
               /\ p[i].kind = "off" => p[i].level = LEVEL_OFF

MemoShaped(O, m) ==
  \/ m.output = -1 /\ O = {}
  \/ m = MemoOff
  \/ \E level \in OnLevels : m = MemoOn(level)

MemoRight(O, p, ch, m) ==
  m.output # -1 =>
    /\ O = {} => (ch.output_on <=> m.output = 1)
    /\ \A i \in O : Ends(O, i) => (OutputOf(p[i]) <=> m.output = 1)
    /\ LevelSetters(O, p) = {} => ch.level = m.level
    /\ \A i \in LevelSetters(O, p) :
         Ends(LevelSetters(O, p), i) => p[i].level = m.level

(* A level command is only sent to an amplifier that is on by then. *)
LevelAfterOn(O, p, ch) ==
  \A i \in O : p[i].kind = "level" =>
    /\ \A k \in O : Adjacent(O, k, i) => OutputOf(p[k])
    /\ (\A k \in O : i <= k) => ch.output_on

NoneRepeats(O, p) ==
  \A i, j \in LevelSetters(O, p) : Adjacent(O, i, j) => p[i].level # p[j].level

(* The level a channel resumes to is the last it was asked to be on at. *)
LastLevelAsked(O, p, ch) ==
  /\ \A i \in OnSetters(O, p) : Ends(OnSetters(O, p), i)
       => p[i].level = ch.last_level
  /\ OnSetters(O, p) = {} => ch.level \in {LEVEL_OFF, ch.last_level}

(* A channel that is shown on has a level, or the command for it follows. *)
LevelFollows(O, p, ch) ==
  /\ ~ch.output_on => ch.level = LEVEL_OFF
  /\ ch.output_on /\ ch.level = LEVEL_OFF => \E j \in O : p[j].kind = "level"
  /\ \A i \in O :
       p[i].kind = "resume" => \E j \in O : i < j /\ p[j].kind = "level"

InLine(O, p, ch, m) ==
  /\ WellFormed(O, p)
  /\ MemoShaped(O, m)
  /\ MemoRight(O, p, ch, m)
  /\ LevelAfterOn(O, p, ch)
  /\ NoneRepeats(O, p)
  /\ LastLevelAsked(O, p, ch)
  /\ LevelFollows(O, p, ch)

-----------------------------------------------------------------------------
LEMMA OnIsNotOff == LEVEL_OFF = 0 /\ OnLevels \subseteq {1, 2, 3}
  BY ChannelsAssumption DEF LEVEL_OFF, LEVEL_LOW, LEVEL_MEDIUM, LEVEL_HIGH

(* A set of places that is not empty has a last one. *)
LEMMA LastExists ==
  ASSUME NEW n \in Nat, NEW S \in SUBSET (1..n), S # {}
  PROVE  \E i \in S : Ends(S, i)
<1> DEFINE B == {b \in Nat : \A j \in S : j <= b}
<1>1. n \in B
  OBVIOUS
<1>2. PICK b \in B : \A x \in B : ~(<<x, b>> \in OpToRel(<, Nat))
  BY <1>1, NatLessThanWellFounded, WFMin
<1>3. \A x \in B : ~(x < b)
  BY <1>2 DEF OpToRel
<1>4. b \in S
  <2> SUFFICES ASSUME b \notin S PROVE FALSE
    OBVIOUS
  <2>1. b # 0
    <3>1. PICK j \in S : j <= b
      OBVIOUS
    <3>. QED
      BY <3>1
  <2>2. b - 1 \in B
    BY <2>1
  <2>. QED
    BY <1>3, <2>2
<1>. QED
  BY <1>4 DEF Ends

(* Induction over the natural numbers, as a fact about a set of them. *)
LEMMA SetInduction ==
  ASSUME NEW S, 0 \in S, \A n \in Nat : n \in S => n + 1 \in S
  PROVE  Nat \subseteq S
<1> SUFFICES ASSUME Nat \ S # {} PROVE FALSE
  OBVIOUS
<1> DEFINE T == {b \in Nat : b \notin S}
<1>1. T # {}
  OBVIOUS
<1>2. PICK x \in T : \A y \in T : ~(<<y, x>> \in OpToRel(<, Nat))
  BY <1>1, NatLessThanWellFounded, WFMin
<1>3. \A y \in T : ~(y < x)
  BY <1>2 DEF OpToRel
<1>4. x # 0 /\ x - 1 \in Nat
  OBVIOUS
<1>5. x - 1 \in S
  BY <1>3, <1>4
<1>. QED
  BY <1>4, <1>5

-----------------------------------------------------------------------------
(* A line and a channel when the channel is called.  First, nothing is       *)
(* queued for it, and its state is the same but for busy and mode.           *)
SameChan(ch, ch2) ==
  /\ ch2.output_on = ch.output_on
  /\ ch2.level = ch.level
  /\ ch2.last_level = ch.last_level

LEMMA GrowNone ==
  ASSUME NEW O, NEW p, NEW p2, NEW ch, NEW ch2, NEW m, InLine(O, p, ch, m),
         \A i \in O : p2[i] = p[i], SameChan(ch, ch2)
  PROVE  InLine(O, p2, ch2, m)
<1>1. LevelSetters(O, p2) = LevelSetters(O, p)
        /\ OnSetters(O, p2) = OnSetters(O, p)
  BY DEF LevelSetters, OnSetters, SetsLevel
<1>2. WellFormed(O, p2)
  BY DEF InLine, WellFormed
<1>3. MemoShaped(O, m)
  BY DEF InLine
<1>4. MemoRight(O, p2, ch2, m)
  BY <1>1 DEF InLine, MemoRight, LevelSetters, SameChan, OutputOf
<1>5. LevelAfterOn(O, p2, ch2)
  BY DEF InLine, LevelAfterOn, SameChan, OutputOf
<1>6. NoneRepeats(O, p2)
  BY <1>1 DEF InLine, NoneRepeats, LevelSetters
<1>7. LastLevelAsked(O, p2, ch2)
  BY <1>1 DEF InLine, LastLevelAsked, LevelSetters, OnSetters, SameChan
<1>8. LevelFollows(O, p2, ch2)
  BY DEF InLine, LevelFollows, SameChan
<1>. QED
  BY <1>2, <1>3, <1>4, <1>5, <1>6, <1>7, <1>8 DEF InLine

(* The places O of line p become the places O2 of p2: those of N come after  *)
(* all others.                                                               *)
Grows(O, p, O2, p2, N) ==
  /\ O2 = O \cup N
  /\ \A i \in O : p2[i] = p[i]
  /\ \A i \in O, j \in N : i < j

(* The last of the new requests sets the memo. *)
LEMMA GrowMemo ==
  ASSUME NEW O, NEW p, NEW O2, NEW p2, NEW N, NEW ch2, NEW m2, NEW l \in N,
         WellFormed(O, p), WellFormed(N, p2), Grows(O, p, O2, p2, N), Ends(N, l),
         SetsLevel(p2[l]), OutputOf(p2[l]) <=> m2.output = 1,
         p2[l].level = m2.level
  PROVE  MemoRight(O2, p2, ch2, m2)
<1>1. l \in LevelSetters(O2, p2) /\ LevelSetters(O2, p2) \subseteq O2 /\ l \in O2
  BY DEF LevelSetters, Grows
<1>2. \A i \in O2 : l <= i => i = l
  BY DEF Grows, Ends, WellFormed
<1>. QED
  BY <1>1, <1>2 DEF MemoRight, Ends

LEMMA GrowAfterOn ==
  ASSUME NEW O, NEW p, NEW O2, NEW p2, NEW N, NEW ch, NEW ch2,
         WellFormed(O, p), WellFormed(N, p2), Grows(O, p, O2, p2, N),
         LevelAfterOn(O, p, ch), ch2.output_on = ch.output_on,
         \A i \in N : p2[i].kind = "level" =>
            /\ \A k \in O2 : Adjacent(O2, k, i) => OutputOf(p2[k])
            /\ (\A k \in O2 : i <= k) => ch.output_on
  PROVE  LevelAfterOn(O2, p2, ch2)
  BY DEF Grows, LevelAfterOn, Adjacent, WellFormed, OutputOf

LEMMA GrowNoneRepeats ==
  ASSUME NEW O, NEW p, NEW O2, NEW p2, NEW N,
         WellFormed(O, p), WellFormed(N, p2), Grows(O, p, O2, p2, N),
         NoneRepeats(O, p),
         \A i \in LevelSetters(O2, p2), j \in LevelSetters(N, p2) :
           Adjacent(O2, i, j) => p2[i].level # p2[j].level
  PROVE  NoneRepeats(O2, p2)
  BY DEF Grows, NoneRepeats, Adjacent, WellFormed, LevelSetters, SetsLevel

(* What a call queues: an ON, an OFF, a level, or a resume and a level. *)
LEMMA GrowOn ==
  ASSUME NEW O, NEW p, NEW O2, NEW p2, NEW ch, NEW ch2, NEW m, NEW m2,
         NEW n \in Nat \ {0},
         InLine(O, p, ch, m), Grows(O, p, O2, p2, {n}), SameChan(ch, ch2),
         p2[n].kind = "on", p2[n].level = ch.last_level,
         ch.last_level \in OnLevels,
         m # MemoOn(ch.last_level), m2 = MemoOn(ch.last_level)
  PROVE  InLine(O2, p2, ch2, m2)
<1>1. /\ WellFormed(O, p) /\ MemoShaped(O, m) /\ MemoRight(O, p, ch, m)
      /\ LevelAfterOn(O, p, ch) /\ NoneRepeats(O, p)
      /\ LastLevelAsked(O, p, ch) /\ LevelFollows(O, p, ch)
  BY DEF InLine
<1>2. WellFormed({n}, p2)
  BY DEF WellFormed
<1>3. WellFormed(O2, p2)
  BY <1>1, <1>2 DEF Grows, WellFormed
<1>4. MemoShaped(O2, m2)
  BY DEF MemoShaped
<1>5. MemoRight(O2, p2, ch2, m2)
  <2>1. Ends({n}, n) /\ SetsLevel(p2[n]) /\ OutputOf(p2[n]) /\ m2.output = 1
          /\ m2.level = p2[n].level
    BY DEF Ends, SetsLevel, OutputOf, MemoOn
  <2>. QED
    BY <1>1, <1>2, <2>1, GrowMemo
<1>6. LevelAfterOn(O2, p2, ch2)
  BY <1>1, <1>2, GrowAfterOn DEF SameChan
<1>7. NoneRepeats(O2, p2)
  <2> SUFFICES ASSUME NEW i \in LevelSetters(O2, p2),
                      NEW j \in LevelSetters({n}, p2), Adjacent(O2, i, j)
               PROVE  p2[i].level # p2[j].level
    BY <1>1, <1>2, GrowNoneRepeats
  <2>1. j = n /\ i \in O /\ i \in LevelSetters(O, p) /\ p2[i] = p[i]
    BY <1>1 DEF Grows, LevelSetters, Adjacent, WellFormed
  <2>2. Ends(O, i) /\ Ends(LevelSetters(O, p), i)
    BY <1>1, <2>1 DEF Ends, LevelSetters, Adjacent, Grows, WellFormed
  <2>3. m.output # -1
    BY <1>1, <2>1 DEF MemoShaped, MemoOff, MemoOn
  <2>4. p[i].level = m.level
    BY <1>1, <2>1, <2>2, <2>3 DEF MemoRight
  <2>. QED
    BY <1>1, <2>1, <2>3, <2>4, OnIsNotOff DEF MemoShaped, MemoOff, MemoOn
<1>8. LastLevelAsked(O2, p2, ch2)
  <2>1. n \in OnSetters(O2, p2)
    BY OnIsNotOff DEF OnSetters, LevelSetters, Grows, SetsLevel
  <2>2. \A i \in OnSetters(O2, p2) : Ends(OnSetters(O2, p2), i) => i = n
    BY <1>1, <2>1 DEF OnSetters, LevelSetters, Ends, Grows, WellFormed
  <2>. QED
    BY <2>1, <2>2 DEF LastLevelAsked, SameChan
<1>9. LevelFollows(O2, p2, ch2)
  BY <1>1 DEF LevelFollows, SameChan, Grows
<1>. QED
  BY <1>3, <1>4, <1>5, <1>6, <1>7, <1>8, <1>9 DEF InLine

LEMMA GrowOff ==
  ASSUME NEW O, NEW p, NEW O2, NEW p2, NEW ch, NEW ch2, NEW m, NEW m2,
         NEW n \in Nat \ {0},
         InLine(O, p, ch, m), Grows(O, p, O2, p2, {n}), SameChan(ch, ch2),
         p2[n].kind = "off", p2[n].level = LEVEL_OFF,
         m.output # 0, m2 = MemoOff
  PROVE  InLine(O2, p2, ch2, m2)
<1>1. /\ WellFormed(O, p) /\ MemoShaped(O, m) /\ MemoRight(O, p, ch, m)
      /\ LevelAfterOn(O, p, ch) /\ NoneRepeats(O, p)
      /\ LastLevelAsked(O, p, ch) /\ LevelFollows(O, p, ch)
  BY DEF InLine
<1>2. WellFormed({n}, p2)
  BY DEF WellFormed
<1>3. WellFormed(O2, p2)
  BY <1>1, <1>2 DEF Grows, WellFormed
<1>4. MemoShaped(O2, m2)
  BY DEF MemoShaped
<1>5. MemoRight(O2, p2, ch2, m2)
  <2>1. Ends({n}, n) /\ SetsLevel(p2[n]) /\ ~OutputOf(p2[n]) /\ m2.output = 0
          /\ m2.level = p2[n].level
    BY DEF Ends, SetsLevel, OutputOf, MemoOff
  <2>. QED
    BY <1>1, <1>2, <2>1, GrowMemo
<1>6. LevelAfterOn(O2, p2, ch2)
  BY <1>1, <1>2, GrowAfterOn DEF SameChan
<1>7. NoneRepeats(O2, p2)
  <2> SUFFICES ASSUME NEW i \in LevelSetters(O2, p2),
                      NEW j \in LevelSetters({n}, p2), Adjacent(O2, i, j)
               PROVE  p2[i].level # p2[j].level
    BY <1>1, <1>2, GrowNoneRepeats
  <2>1. j = n /\ i \in O /\ i \in LevelSetters(O, p) /\ p2[i] = p[i]
    BY <1>1 DEF Grows, LevelSetters, Adjacent, WellFormed
  <2>2. Ends(O, i) /\ Ends(LevelSetters(O, p), i)
    BY <1>1, <2>1 DEF Ends, LevelSetters, Adjacent, Grows, WellFormed
  <2>3. m.output # -1
    BY <1>1, <2>1 DEF MemoShaped, MemoOff, MemoOn
  <2>4. p[i].level = m.level
    BY <1>1, <2>1, <2>2, <2>3 DEF MemoRight
  <2>. QED
    BY <1>1, <2>1, <2>3, <2>4, OnIsNotOff DEF MemoShaped, MemoOff, MemoOn
<1>8. LastLevelAsked(O2, p2, ch2)
  <2>1. OnSetters(O2, p2) = OnSetters(O, p)
          /\ \A i \in OnSetters(O, p) : p2[i] = p[i]
    BY <1>1 DEF OnSetters, LevelSetters, Grows, SetsLevel
  <2>. QED
    BY <1>1, <2>1 DEF LastLevelAsked, SameChan
<1>9. LevelFollows(O2, p2, ch2)
  BY <1>1 DEF LevelFollows, SameChan, Grows
<1>. QED
  BY <1>3, <1>4, <1>5, <1>6, <1>7, <1>8, <1>9 DEF InLine

LEMMA GrowLevel ==
  ASSUME NEW O, NEW p, NEW O2, NEW p2, NEW ch, NEW ch2, NEW m, NEW m2,
         NEW n \in Nat \ {0}, NEW level \in OnLevels,
         InLine(O, p, ch, m), Grows(O, p, O2, p2, {n}),
         ch2.output_on = ch.output_on, ch2.level = ch.level,
         ch2.last_level = level,
         p2[n].kind = "level", p2[n].level = level,
         m.output = 1, m # MemoOn(level), m2 = MemoOn(level)
  PROVE  InLine(O2, p2, ch2, m2)
<1>1. /\ WellFormed(O, p) /\ MemoShaped(O, m) /\ MemoRight(O, p, ch, m)
      /\ LevelAfterOn(O, p, ch) /\ NoneRepeats(O, p)
      /\ LastLevelAsked(O, p, ch) /\ LevelFollows(O, p, ch)
  BY DEF InLine
<1>2. WellFormed({n}, p2)
  BY DEF WellFormed
<1>3. WellFormed(O2, p2)
  BY <1>1, <1>2 DEF Grows, WellFormed
<1>4. MemoShaped(O2, m2)
  BY DEF MemoShaped
<1>5. MemoRight(O2, p2, ch2, m2)
  <2>1. Ends({n}, n) /\ SetsLevel(p2[n]) /\ OutputOf(p2[n]) /\ m2.output = 1
          /\ m2.level = p2[n].level
    BY DEF Ends, SetsLevel, OutputOf, MemoOn
  <2>. QED
    BY <1>1, <1>2, <2>1, GrowMemo
<1>6. LevelAfterOn(O2, p2, ch2)
  <2>1. ASSUME NEW k \in O2, Adjacent(O2, k, n) PROVE OutputOf(p2[k])
    <3>1. k \in O /\ Ends(O, k)
      BY <1>1, <2>1 DEF Adjacent, Grows, Ends, WellFormed
    <3>. QED
      BY <1>1, <3>1 DEF MemoRight, Grows, OutputOf
  <2>2. ASSUME \A k \in O2 : n <= k PROVE ch.output_on
    <3>1. O = {}
      BY <1>1, <2>2 DEF Grows, WellFormed
    <3>. QED
      BY <1>1, <3>1 DEF MemoRight
  <2>. QED
    BY <1>1, <1>2, <2>1, <2>2, GrowAfterOn
<1>7. NoneRepeats(O2, p2)
  <2> SUFFICES ASSUME NEW i \in LevelSetters(O2, p2),
                      NEW j \in LevelSetters({n}, p2), Adjacent(O2, i, j)
               PROVE  p2[i].level # p2[j].level
    BY <1>1, <1>2, GrowNoneRepeats
  <2>1. j = n /\ i \in O /\ i \in LevelSetters(O, p) /\ p2[i] = p[i]
    BY <1>1 DEF Grows, LevelSetters, Adjacent, WellFormed
  <2>2. Ends(O, i) /\ Ends(LevelSetters(O, p), i)
    BY <1>1, <2>1 DEF Ends, LevelSetters, Adjacent, Grows, WellFormed
  <2>3. m.output # -1
    OBVIOUS
  <2>4. p[i].level = m.level
    BY <1>1, <2>1, <2>2, <2>3 DEF MemoRight
  <2>. QED
    BY <1>1, <2>1, <2>4, OnIsNotOff DEF MemoShaped, MemoOff, MemoOn
<1>8. LastLevelAsked(O2, p2, ch2)
  <2>1. n \in OnSetters(O2, p2)
    BY OnIsNotOff DEF OnSetters, LevelSetters, Grows, SetsLevel
  <2>2. \A i \in OnSetters(O2, p2) : Ends(OnSetters(O2, p2), i) => i = n
    BY <1>1, <2>1 DEF OnSetters, LevelSetters, Ends, Grows, WellFormed
  <2>. QED
    BY <2>1, <2>2 DEF LastLevelAsked
<1>9. LevelFollows(O2, p2, ch2)
  BY <1>1 DEF LevelFollows, Grows
<1>. QED
  BY <1>3, <1>4, <1>5, <1>6, <1>7, <1>8, <1>9 DEF InLine

LEMMA GrowPair ==
  ASSUME NEW O, NEW p, NEW O2, NEW p2, NEW ch, NEW ch2, NEW m, NEW m2,
         NEW n \in Nat \ {0}, NEW level \in OnLevels,
         InLine(O, p, ch, m), Grows(O, p, O2, p2, {n, n + 1}),
         ch2.output_on = ch.output_on, ch2.level = ch.level,
         ch2.last_level = level,
         p2[n].kind = "resume", p2[n + 1].kind = "level", p2[n + 1].level = level,
         m.output # 1, m2 = MemoOn(level)
  PROVE  InLine(O2, p2, ch2, m2)
<1> DEFINE N == {n, n + 1}
<1>1. /\ WellFormed(O, p) /\ MemoShaped(O, m) /\ MemoRight(O, p, ch, m)
      /\ LevelAfterOn(O, p, ch) /\ NoneRepeats(O, p)
      /\ LastLevelAsked(O, p, ch) /\ LevelFollows(O, p, ch)
  BY DEF InLine
<1>2. WellFormed(N, p2)
  BY DEF WellFormed
<1>3. WellFormed(O2, p2)
  BY <1>1, <1>2 DEF Grows, WellFormed
<1>4. MemoShaped(O2, m2)
  BY DEF MemoShaped
<1>5. MemoRight(O2, p2, ch2, m2)
  <2>1. Ends(N, n + 1) /\ SetsLevel(p2[n + 1]) /\ OutputOf(p2[n + 1])
          /\ m2.output = 1 /\ m2.level = p2[n + 1].level
    BY DEF Ends, SetsLevel, OutputOf, MemoOn
  <2>. QED
    BY <1>1, <1>2, <2>1, GrowMemo
<1>6. LevelAfterOn(O2, p2, ch2)
  <2>1. ASSUME NEW k \in O2, Adjacent(O2, k, n + 1) PROVE OutputOf(p2[k])
    <3>1. k = n
      BY <1>1, <2>1 DEF Adjacent, Grows, Ends, WellFormed
    <3>. QED
      BY <1>1, <3>1 DEF OutputOf
  <2>2. ~ \A k \in O2 : n + 1 <= k
    BY DEF Grows
  <2>3. \A i \in N : p2[i].kind = "level" => i = n + 1
    OBVIOUS
  <2>. QED
    BY <1>1, <1>2, <2>1, <2>2, <2>3, GrowAfterOn
<1>7. NoneRepeats(O2, p2)
  <2> SUFFICES ASSUME NEW i \in LevelSetters(O2, p2),
                      NEW j \in LevelSetters(N, p2), Adjacent(O2, i, j)
               PROVE  FALSE
    BY <1>1, <1>2, GrowNoneRepeats
  <2>1. j = n + 1
    BY DEF LevelSetters, SetsLevel
  <2>2. i = n
    BY <1>1, <2>1 DEF LevelSetters, Adjacent, Grows, WellFormed
  <2>. QED
    BY <2>2 DEF LevelSetters, SetsLevel
<1>8. LastLevelAsked(O2, p2, ch2)
  <2>1. n + 1 \in OnSetters(O2, p2)
    BY OnIsNotOff DEF OnSetters, LevelSetters, Grows, SetsLevel
  <2>2. \A i \in OnSetters(O2, p2) : Ends(OnSetters(O2, p2), i) => i = n + 1
    BY <1>1, <2>1 DEF OnSetters, LevelSetters, Ends, Grows, WellFormed
  <2>. QED
    BY <2>1, <2>2 DEF LastLevelAsked
<1>9. LevelFollows(O2, p2, ch2)
  BY <1>1 DEF LevelFollows, Grows
<1>. QED
  BY <1>3, <1>4, <1>5, <1>6, <1>7, <1>8, <1>9 DEF InLine

-----------------------------------------------------------------------------
(* A line and a channel when the first request of the line settles: every    *)
(* other place moves up by one.                                              *)
Shifts(O, p, O2, p2) ==
  /\ \A i \in Nat \ {0} : i \in O2 <=> i + 1 \in O
  /\ O2 \subseteq Nat \ {0}
  /\ \A i \in O2 : p2[i] = p[i + 1]

LEMMA ShiftedEnds ==
  ASSUME NEW O \in SUBSET (Nat \ {0}), NEW O2 \in SUBSET (Nat \ {0}),
         NEW i \in O2,
         \A k \in Nat \ {0} : k \in O2 <=> k + 1 \in O
  PROVE  /\ Ends(O2, i) => Ends(O, i + 1)
         /\ \A k \in O2 : Adjacent(O2, k, i) => Adjacent(O, k + 1, i + 1)
         /\ 1 \in O /\ (\A k \in O2 : i <= k) => Adjacent(O, 1, i + 1)
         /\ 1 \notin O /\ (\A k \in O2 : i <= k) => \A k \in O : i + 1 <= k
<1>1. \A k \in O : k = 1 \/ (k - 1 \in O2 /\ k - 1 \in Nat \ {0})
  OBVIOUS
<1>2. Ends(O2, i) => Ends(O, i + 1)
  BY <1>1 DEF Ends
<1>3. \A k \in O2 : Adjacent(O2, k, i) => Adjacent(O, k + 1, i + 1)
  BY <1>1 DEF Adjacent
<1>4. 1 \in O /\ (\A k \in O2 : i <= k) => Adjacent(O, 1, i + 1)
  BY <1>1 DEF Adjacent
<1>5. 1 \notin O /\ (\A k \in O2 : i <= k) => \A k \in O : i + 1 <= k
  BY <1>1
<1>. QED
  BY <1>2, <1>3, <1>4, <1>5

LEMMA SettleKeepsLine ==
  ASSUME NEW O, NEW p, NEW O2, NEW p2, NEW ch, NEW ch2, NEW m,
         InLine(O, p, ch, m), Shifts(O, p, O2, p2), 
         ch2.last_level = ch.last_level,
         1 \in O => /\ ch2.output_on = OutputOf(p[1])
                    /\ ch2.level = IF SetsLevel(p[1])
                                   THEN p[1].level ELSE ch.level,
         1 \notin O => SameChan(ch, ch2)
  PROVE  InLine(O2, p2, ch2, m)
<1>1. /\ WellFormed(O, p) /\ MemoShaped(O, m) /\ MemoRight(O, p, ch, m)
      /\ LevelAfterOn(O, p, ch) /\ NoneRepeats(O, p)
      /\ LastLevelAsked(O, p, ch) /\ LevelFollows(O, p, ch)
  BY DEF InLine
<1> DEFINE L == LevelSetters(O, p)
           L2 == LevelSetters(O2, p2)
           On == OnSetters(O, p)
           On2 == OnSetters(O2, p2)
<1>2. /\ O \in SUBSET (Nat \ {0}) /\ O2 \in SUBSET (Nat \ {0})
      /\ \A k \in Nat \ {0} : k \in O2 <=> k + 1 \in O
      /\ \A k \in O2 : p2[k] = p[k + 1]
  BY <1>1 DEF WellFormed, Shifts
<1>3. /\ L \in SUBSET (Nat \ {0}) /\ L2 \in SUBSET (Nat \ {0})
      /\ \A k \in Nat \ {0} : k \in L2 <=> k + 1 \in L
  BY <1>2 DEF LevelSetters
<1>4. /\ On \in SUBSET (Nat \ {0}) /\ On2 \in SUBSET (Nat \ {0})
      /\ \A k \in Nat \ {0} : k \in On2 <=> k + 1 \in On
  BY <1>2, <1>3 DEF OnSetters, LevelSetters
<1>5. \A k \in O : k = 1 \/ (k - 1 \in O2 /\ p2[k - 1] = p[k])
  BY <1>2
<1>6. 1 \in O => /\ p[1].kind \in {"on", "off", "resume", "level"}
                 /\ p[1].kind \in {"on", "level"} => p[1].level \in OnLevels
                 /\ p[1].kind = "off" => p[1].level = LEVEL_OFF
  BY <1>1 DEF WellFormed
<1>7. WellFormed(O2, p2)
  BY <1>1, <1>2 DEF WellFormed
<1>8. MemoShaped(O2, m)
  BY <1>1, <1>2 DEF MemoShaped
<1>9. MemoRight(O2, p2, ch2, m)
  <2> SUFFICES ASSUME m.output # -1 PROVE
        /\ O2 = {} => (ch2.output_on <=> m.output = 1)
        /\ \A i \in O2 : Ends(O2, i) => (OutputOf(p2[i]) <=> m.output = 1)
        /\ L2 = {} => ch2.level = m.level
        /\ \A i \in L2 : Ends(L2, i) => p2[i].level = m.level
    BY DEF MemoRight
  <2>0. /\ O = {} => (ch.output_on <=> m.output = 1)
        /\ \A i \in O : Ends(O, i) => (OutputOf(p[i]) <=> m.output = 1)
        /\ L = {} => ch.level = m.level
        /\ \A i \in L : Ends(L, i) => p[i].level = m.level
    BY <1>1 DEF MemoRight
  <2>1. O2 = {} => (ch2.output_on <=> m.output = 1)
    <3> SUFFICES ASSUME O2 = {} PROVE ch2.output_on <=> m.output = 1
      OBVIOUS
    <3>1. CASE 1 \in O
      <4>1. Ends(O, 1)
        BY <1>5 DEF Ends
      <4>. QED
        BY <2>0, <3>1, <4>1
    <3>2. CASE 1 \notin O
      <4>1. O = {}
        BY <1>5, <3>2
      <4>. QED
        BY <2>0, <3>2, <4>1 DEF SameChan
    <3>. QED
      BY <3>1, <3>2
  <2>2. \A i \in O2 : Ends(O2, i) => (OutputOf(p2[i]) <=> m.output = 1)
    BY <1>2, <2>0, ShiftedEnds
  <2>3. L2 = {} => ch2.level = m.level
    <3> SUFFICES ASSUME L2 = {} PROVE ch2.level = m.level
      OBVIOUS
    <3>0. \A k \in L : k = 1
      BY <1>3
    <3>1. CASE 1 \in L
      <4>1. Ends(L, 1) /\ 1 \in O /\ SetsLevel(p[1])
        BY <3>0, <3>1 DEF Ends, LevelSetters
      <4>. QED
        BY <2>0, <3>1, <4>1
    <3>2. CASE 1 \notin L
      <4>1. L = {}
        BY <3>0, <3>2
      <4>2. 1 \in O => ~SetsLevel(p[1])
        BY <3>2 DEF LevelSetters
      <4>. QED
        BY <2>0, <4>1, <4>2 DEF SameChan
    <3>. QED
      BY <3>1, <3>2
  <2>4. \A i \in L2 : Ends(L2, i) => p2[i].level = m.level
    <3> SUFFICES ASSUME NEW i \in L2, Ends(L2, i) PROVE p2[i].level = m.level
      OBVIOUS
    <3>1. Ends(L, i + 1) /\ i + 1 \in L
      BY <1>3, ShiftedEnds
    <3>2. i \in O2
      BY DEF LevelSetters
    <3>. QED
      BY <1>2, <2>0, <3>1, <3>2
  <2>. QED
    BY <2>1, <2>2, <2>3, <2>4
<1>10. LevelAfterOn(O2, p2, ch2)
  <2> SUFFICES ASSUME NEW i \in O2, p2[i].kind = "level"
               PROVE  /\ \A k \in O2 : Adjacent(O2, k, i) => OutputOf(p2[k])
                      /\ (\A k \in O2 : i <= k) => ch2.output_on
    BY DEF LevelAfterOn
  <2>1. i + 1 \in O /\ p[i + 1].kind = "level"
    BY <1>2
  <2>2. /\ \A k \in O : Adjacent(O, k, i + 1) => OutputOf(p[k])
        /\ (\A k \in O : i + 1 <= k) => ch.output_on
    BY <1>1, <2>1 DEF LevelAfterOn
  <2>3. \A k \in O2 : Adjacent(O2, k, i) => OutputOf(p2[k])
    BY <1>2, <2>2, ShiftedEnds
  <2>4. ASSUME \A k \in O2 : i <= k PROVE ch2.output_on
    <3>1. CASE 1 \in O
      BY <1>2, <2>2, <2>4, <3>1, ShiftedEnds
    <3>2. CASE 1 \notin O
      BY <1>2, <2>2, <2>4, <3>2, ShiftedEnds DEF SameChan
    <3>. QED
      BY <3>1, <3>2
  <2>. QED
    BY <2>3, <2>4
<1>11. NoneRepeats(O2, p2)
  <2> SUFFICES ASSUME NEW i \in L2, NEW j \in L2, Adjacent(O2, i, j)
               PROVE  p2[i].level # p2[j].level
    BY DEF NoneRepeats
  <2>1. i \in O2 /\ j \in O2 /\ i + 1 \in L /\ j + 1 \in L
    BY <1>3 DEF LevelSetters
  <2>2. Adjacent(O, i + 1, j + 1)
    BY <1>2, <2>1, ShiftedEnds
  <2>. QED
    BY <1>1, <1>2, <2>1, <2>2 DEF NoneRepeats
<1>12. LastLevelAsked(O2, p2, ch2)
  <2>0. /\ \A i \in On : Ends(On, i) => p[i].level = ch.last_level
        /\ On = {} => ch.level \in {LEVEL_OFF, ch.last_level}
    BY <1>1 DEF LastLevelAsked
  <2>1. ASSUME NEW i \in On2, Ends(On2, i) PROVE p2[i].level = ch2.last_level
    <3>1. Ends(On, i + 1) /\ i + 1 \in On
      BY <1>4, <2>1, ShiftedEnds
    <3>2. i \in O2
      BY DEF OnSetters, LevelSetters
    <3>. QED
      BY <1>2, <2>0, <3>1, <3>2
  <2>2. ASSUME On2 = {} PROVE ch2.level \in {LEVEL_OFF, ch2.last_level}
    <3>0. \A k \in On : k = 1
      BY <1>4, <2>2
    <3>1. CASE 1 \in On
      <4>1. Ends(On, 1) /\ 1 \in O /\ SetsLevel(p[1])
        BY <3>0, <3>1 DEF Ends, OnSetters, LevelSetters
      <4>. QED
        BY <2>0, <3>1, <4>1
    <3>2. CASE 1 \notin On
      <4>1. On = {}
        BY <3>0, <3>2
      <4>2. 1 \in O => ~SetsLevel(p[1]) \/ p[1].level = LEVEL_OFF
        BY <3>2 DEF OnSetters, LevelSetters
      <4>. QED
        BY <2>0, <4>1, <4>2 DEF SameChan
    <3>. QED
      BY <3>1, <3>2
  <2>. QED
    BY <2>1, <2>2 DEF LastLevelAsked
<1>13. LevelFollows(O2, p2, ch2)
  <2>0. /\ ~ch.output_on => ch.level = LEVEL_OFF
        /\ ch.output_on /\ ch.level = LEVEL_OFF
             => \E j \in O : p[j].kind = "level"
        /\ \A i \in O :
             p[i].kind = "resume" => \E j \in O : i < j /\ p[j].kind = "level"
    BY <1>1 DEF LevelFollows
  <2>1. ~ch2.output_on => ch2.level = LEVEL_OFF
    <3>1. CASE 1 \in O
      BY <1>6, <3>1 DEF OutputOf, SetsLevel
    <3>2. CASE 1 \notin O
      BY <2>0, <3>2 DEF SameChan
    <3>. QED
      BY <3>1, <3>2
  <2>2. ASSUME ch2.output_on, ch2.level = LEVEL_OFF
        PROVE  \E j \in O2 : p2[j].kind = "level"
    <3>1. CASE 1 \in O
      <4>1. p[1].kind = "resume"
        <5>1. p[1].kind # "off"
          BY <2>2, <3>1 DEF OutputOf
        <5>2. p[1].kind \in {"on", "level"} => p[1].level = LEVEL_OFF
          BY <2>2, <3>1 DEF SetsLevel
        <5>3. p[1].kind \notin {"on", "level"}
          BY <1>6, <3>1, <5>2, OnIsNotOff
        <5>. QED
          BY <1>6, <3>1, <5>1, <5>3
      <4>2. PICK j \in O : 1 < j /\ p[j].kind = "level"
        BY <2>0, <3>1, <4>1
      <4>. QED
        BY <1>5, <4>2
    <3>2. CASE 1 \notin O
      <4>1. PICK j \in O : p[j].kind = "level"
        BY <2>0, <2>2, <3>2 DEF SameChan
      <4>. QED
        BY <1>5, <3>2, <4>1
    <3>. QED
      BY <3>1, <3>2
  <2>3. ASSUME NEW i \in O2, p2[i].kind = "resume"
        PROVE  \E j \in O2 : i < j /\ p2[j].kind = "level"
    <3>1. i + 1 \in O /\ p[i + 1].kind = "resume"
      BY <1>2, <2>3
    <3>2. PICK j \in O : i + 1 < j /\ p[j].kind = "level"
      BY <2>0, <3>1
    <3>. QED
      BY <1>2, <1>5, <3>2
  <2>. QED
    BY <2>1, <2>2, <2>3 DEF LevelFollows
<1>. QED
  BY <1>7, <1>8, <1>9, <1>10, <1>11, <1>12, <1>13 DEF InLine

-----------------------------------------------------------------------------
(* All requests that have not settled yet, of a rack. *)
PipelineOf(r) ==
  (IF r.inflight = NoRequest THEN <<>> ELSE <<r.inflight>>) \o r.queue

LineOf(r, c) ==
  InLine(OutputsOf(PipelineOf(r), c), PipelineOf(r), r.chan[c], r.queued[c])

(* RadioFollowsChannel, for one channel of a rack. *)
RadioRight(r, c) ==
  <<c, "switch">> \in r.heard =>
    r.radio[c].on = IF /\ r.inflight # NoRequest
                       /\ r.inflight.channel = c
                       /\ SetsOutput(r.inflight)
                    THEN OutputOf(r.inflight) ELSE r.chan[c].output_on

(* The inductive invariant. *)
InOrder(r) == \A c \in Channels \ r.lost : LineOf(r, c) /\ RadioRight(r, c)

(* In reqs, the requests for c are s, from place b + 1 on. *)
Asks(reqs, c, s, b) ==
  /\ b \in Nat
  /\ b + Len(s) <= Len(reqs)
  /\ \A i \in 1 .. Len(reqs) : reqs[i].channel = c
       <=> i \in (b + 1) .. (b + Len(s))
  /\ \A k \in 1 .. Len(s) : reqs[b + k] = s[k]

(* The places in s of the requests that set the output. *)
Setters(s) == {k \in 1 .. Len(s) : SetsOutput(s[k])}

(* The places they take in a line of d requests. *)
Places(d, s) == {d + k : k \in Setters(s)}

(* The effects a call that queues s for a channel can have on its state and  *)
(* memo, from ch and m to ch2 and m2.                                        *)
NoEffect(s, ch, m, ch2, m2) == Setters(s) = {} /\ SameChan(ch, ch2) /\ m2 = m

OnEffect(s, ch, m, ch2, m2) ==
  \E k \in Setters(s) :
    /\ Setters(s) = {k} /\ s[k].kind = "on" /\ s[k].level = ch.last_level
    /\ m # MemoOn(ch.last_level) /\ m2 = MemoOn(ch.last_level)
    /\ SameChan(ch, ch2)

OffEffect(s, ch, m, ch2, m2) ==
  \E k \in Setters(s) :
    /\ Setters(s) = {k} /\ s[k].kind = "off" /\ s[k].level = LEVEL_OFF
    /\ m.output # 0 /\ m2 = MemoOff /\ SameChan(ch, ch2)

Relevelled(ch, ch2, level) ==
  ch2.output_on = ch.output_on /\ ch2.level = ch.level /\ ch2.last_level = level

LevelEffect(s, ch, m, ch2, m2) ==
  \E k \in Setters(s), level \in OnLevels :
    /\ Setters(s) = {k} /\ s[k].kind = "level" /\ s[k].level = level
    /\ m.output = 1 /\ m # MemoOn(level) /\ m2 = MemoOn(level)
    /\ Relevelled(ch, ch2, level)

ResumeEffect(s, ch, m, ch2, m2) ==
  \E k \in Setters(s), level \in OnLevels :
    /\ Setters(s) = {k, k + 1} /\ s[k].kind = "resume"
    /\ s[k + 1].kind = "level" /\ s[k + 1].level = level
    /\ m.output # 1 /\ m2 = MemoOn(level) /\ Relevelled(ch, ch2, level)

Effect(s, ch, m, ch2, m2) ==
  \/ NoEffect(s, ch, m, ch2, m2)
  \/ OnEffect(s, ch, m, ch2, m2)
  \/ OffEffect(s, ch, m, ch2, m2)
  \/ LevelEffect(s, ch, m, ch2, m2)
  \/ ResumeEffect(s, ch, m, ch2, m2)

LEMMA PipelineType ==
  ASSUME NEW r \in RackType
  PROVE  /\ PipelineOf(r) \in Seq(Request)
         /\ \A t \in Seq(Request) : \A r2 \in RackType :
              r2.inflight = r.inflight /\ r2.queue = r.queue \o t
                => PipelineOf(r2) = PipelineOf(r) \o t
<1>1. r.queue \in Seq(Request) /\ r.inflight \in Request \cup {NoRequest}
  BY DEF RackType
<1>2. CASE r.inflight = NoRequest
  <2>1. PipelineOf(r) = r.queue
    BY <1>1, <1>2 DEF PipelineOf
  <2>2. ASSUME NEW t \in Seq(Request), NEW r2 \in RackType,
               r2.inflight = r.inflight, r2.queue = r.queue \o t
        PROVE  PipelineOf(r2) = r.queue \o t
    BY <1>1, <1>2, <2>2 DEF PipelineOf
  <2>. QED
    BY <1>1, <2>1, <2>2
<1>3. CASE r.inflight # NoRequest
  <2>1. r.inflight \in Request
    BY <1>1, <1>3
  <2>2. PipelineOf(r) = <<r.inflight>> \o r.queue
    BY <1>3 DEF PipelineOf
  <2>3. ASSUME NEW t \in Seq(Request), NEW r2 \in RackType,
               r2.inflight = r.inflight, r2.queue = r.queue \o t
        PROVE  PipelineOf(r2) = PipelineOf(r) \o t
    <3>1. PipelineOf(r2) = <<r.inflight>> \o (r.queue \o t)
      BY <1>3, <2>3 DEF PipelineOf
    <3>2. <<r.inflight>> \in Seq(Request)
      BY <2>1
    <3>3. (<<r.inflight>> \o r.queue) \o t = <<r.inflight>> \o (r.queue \o t)
      <4> DEFINE first == <<r.inflight>>
      <4>1. first \in Seq(Request)
        BY <3>2
      <4> HIDE DEF first
      <4>2. \A a, b, d \in Seq(Request) : (a \o b) \o d = a \o (b \o d)
        OBVIOUS
      <4>3. (first \o r.queue) \o t = first \o (r.queue \o t)
        BY <1>1, <4>1, <4>2, Zenon
      <4>. QED
        BY <4>3 DEF first
    <3>. QED
      BY <2>2, <3>1, <3>3
  <2>4. PipelineOf(r) \in Seq(Request)
    BY <1>1, <2>1, <2>2
  <2>. QED
    BY <2>3, <2>4
<1>. QED
  BY <1>2, <1>3

(* A line of requests followed by what enqueue() accepts of reqs. *)
Followed(p, r, reqs) == p \o Taken(r, reqs)

(* What enqueue() accepts of the requests for c, if none of them is dropped. *)
LEMMA TakenGrows ==
  ASSUME NEW r \in RackType, NEW reqs \in Seq(Request), NEW c \in Channels,
         NEW s, Len(s) \in Nat, NEW b, Asks(reqs, c, s, b),
         c \notin Offer(r, reqs).lost,
         NEW p \in Seq(Request), NEW p2, p2 = Followed(p, r, reqs)
  PROVE  /\ Grows(OutputsOf(p, c), p, OutputsOf(p2, c), p2, Places(Len(p) + b, s))
         /\ \A k \in Setters(s) : p2[Len(p) + b + k] = s[k]
<1> DEFINE taken == Taken(r, reqs)
           N == {Len(p) + b + k : k \in Setters(s)}
<1>0. p2 = p \o taken
  BY DEF Followed
<1>1. /\ taken \in Seq(Request)
      /\ Len(taken) \in Nat /\ Len(reqs) \in Nat /\ Len(p) \in Nat
      /\ Len(taken) <= Len(reqs)
      /\ \A i \in 1 .. Len(taken) : taken[i] = reqs[i]
  <2> DEFINE n == IF Len(reqs) <= Room(r) THEN Len(reqs) ELSE Room(r)
  <2>1. Len(r.queue) \in Nat /\ Len(r.queue) <= QUEUE_CAP /\ QUEUE_CAP \in Nat
          /\ Len(reqs) \in Nat
    BY ChannelsAssumption DEF RackType
  <2>2. Room(r) \in Nat
    BY <2>1 DEF Room
  <2>3. n \in 0 .. Len(reqs)
    BY <2>1, <2>2
  <2>4. /\ taken \in Seq(Request) /\ Len(taken) = n
        /\ \A i \in 1 .. n : taken[i] = reqs[i]
    <3> HIDE DEF n
    <3>1. taken = SubSeq(reqs, 1, n)
      BY DEF Taken, n
    <3>2. 1 \in 1 .. Len(reqs) + 1 /\ n \in 1 - 1 .. Len(reqs)
      BY <2>1, <2>3
    <3>3. taken \in Seq(Request) /\ Len(taken) = n - 1 + 1
            /\ \A i \in 1 .. n - 1 + 1 : taken[i] = reqs[1 + i - 1]
      BY <3>1, <3>2, SubSeqProperties
    <3>4. n \in Nat /\ n - 1 + 1 = n /\ \A i \in 1 .. n : 1 + i - 1 = i
      BY <2>3
    <3>. QED
      BY <3>3, <3>4
  <2>. QED
    BY <2>1, <2>3, <2>4
<1> HIDE DEF taken
<1>2. \A i \in 1 .. Len(reqs) : reqs[i].channel = c => i <= Len(taken)
  <2>1. Offer(r, reqs).lost =
          r.lost \cup {reqs[i].channel : i \in (Len(taken) + 1) .. Len(reqs)}
    BY DEF Offer, taken, RackType
  <2>2. ASSUME NEW i \in 1 .. Len(reqs), reqs[i].channel = c, ~(i <= Len(taken))
        PROVE  FALSE
    <3>1. i \in (Len(taken) + 1) .. Len(reqs)
      BY <1>1, <2>2
    <3>. QED
      BY <2>1, <2>2, <3>1
  <2>. QED
    BY <2>2
<1>3. /\ p2 \in Seq(Request) /\ Len(p2) = Len(p) + Len(taken)
      /\ \A i \in 1 .. Len(p) : p2[i] = p[i]
      /\ \A i \in 1 .. Len(taken) : p2[Len(p) + i] = reqs[i]
  BY <1>0, <1>1, ConcatProperties
<1>4. /\ b \in Nat
      /\ \A i \in 1 .. Len(taken) : reqs[i].channel = c
           <=> i \in (b + 1) .. (b + Len(s))
      /\ \A k \in 1 .. Len(s) : b + k \in 1 .. Len(taken) /\ reqs[b + k] = s[k]
  <2>1. /\ b \in Nat /\ b + Len(s) <= Len(reqs)
        /\ \A i \in 1 .. Len(reqs) : reqs[i].channel = c
             <=> i \in (b + 1) .. (b + Len(s))
        /\ \A k \in 1 .. Len(s) : reqs[b + k] = s[k]
    BY DEF Asks
  <2>2. ASSUME NEW k \in 1 .. Len(s) PROVE b + k \in 1 .. Len(taken)
    <3>1. b + k \in 1 .. Len(reqs) /\ b + k \in (b + 1) .. (b + Len(s))
      BY <1>1, <2>1
    <3>2. reqs[b + k].channel = c
      BY <2>1, <3>1
    <3>3. b + k <= Len(taken)
      BY <1>2, <3>1, <3>2
    <3>. QED
      BY <1>1, <3>1, <3>3
  <2>. QED
    BY <1>1, <2>1, <2>2
<1>5. \A k \in 1 .. Len(s) : p2[Len(p) + b + k] = s[k]
        /\ Len(p) + b + k \in (Len(p) + 1) .. Len(p2)
  <2> SUFFICES ASSUME NEW k \in 1 .. Len(s)
               PROVE  p2[Len(p) + b + k] = s[k]
                        /\ Len(p) + b + k \in (Len(p) + 1) .. Len(p2)
    OBVIOUS
  <2>1. Len(p) + (b + k) = Len(p) + b + k
    BY <1>1, <1>4
  <2>. QED
    BY <1>1, <1>3, <1>4, <2>1
<1>6. OutputsOf(p2, c) = OutputsOf(p, c) \cup N
  <2>1. ASSUME NEW i \in OutputsOf(p2, c) PROVE i \in OutputsOf(p, c) \cup N
    <3>1. i \in 1 .. Len(p2) /\ p2[i].channel = c /\ SetsOutput(p2[i])
      BY <1>3 DEF OutputsOf
    <3>2. CASE i <= Len(p)
      BY <1>1, <1>3, <3>1, <3>2 DEF OutputsOf
    <3>3. CASE ~(i <= Len(p))
      <4>1. i - Len(p) \in 1 .. Len(taken) /\ Len(p) + (i - Len(p)) = i
        BY <1>1, <1>3, <3>1, <3>3
      <4>2. reqs[i - Len(p)].channel = c
        BY <1>3, <3>1, <4>1
      <4>3. i - Len(p) \in (b + 1) .. (b + Len(s))
        BY <1>4, <4>1, <4>2
      <4>4. i - Len(p) - b \in 1 .. Len(s) /\ Len(p) + b + (i - Len(p) - b) = i
        BY <1>1, <1>4, <3>1, <4>3
      <4>5. i - Len(p) - b \in Setters(s)
        BY <1>5, <3>1, <4>4 DEF Setters
      <4>. QED
        BY <4>4, <4>5
    <3>. QED
      BY <3>2, <3>3
  <2>2. OutputsOf(p, c) \subseteq OutputsOf(p2, c)
    <3>1. 1 .. Len(p) \subseteq 1 .. Len(p2)
      BY <1>1, <1>3
    <3>2. \A i \in OutputsOf(p, c) : i \in 1 .. Len(p)
      BY DEF OutputsOf
    <3>3. \A i \in OutputsOf(p, c) : p2[i].channel = c /\ SetsOutput(p2[i])
      BY <1>3, <3>2 DEF OutputsOf
    <3>4. \A i \in OutputsOf(p, c) : i \in DOMAIN p2
      BY <1>3, <3>1, <3>2
    <3>. QED
      BY <3>3, <3>4 DEF OutputsOf
  <2>3. ASSUME NEW k \in Setters(s) PROVE Len(p) + b + k \in OutputsOf(p2, c)
    <3>1. k \in 1 .. Len(s) /\ SetsOutput(s[k])
      BY DEF Setters
    <3>2. p2[Len(p) + b + k] = s[k] /\ Len(p) + b + k \in 1 .. Len(p2)
      <4>1. p2[Len(p) + b + k] = s[k]
              /\ Len(p) + b + k \in (Len(p) + 1) .. Len(p2)
        BY <1>5, <3>1
      <4>2. (Len(p) + 1) .. Len(p2) \subseteq 1 .. Len(p2)
        BY <1>1, <1>3
      <4>. QED
        BY <4>1, <4>2
    <3>3. b + k \in 1 .. Len(taken) /\ reqs[b + k] = s[k]
      BY <1>4, <3>1
    <3>4. b + k \in (b + 1) .. (b + Len(s))
      BY <1>4, <3>1
    <3>5. s[k].channel = c
      BY <1>4, <3>3, <3>4
    <3>. QED
      BY <1>3, <3>1, <3>2, <3>5 DEF OutputsOf
  <2>. QED
    BY <2>1, <2>2, <2>3
<1>7. \A i \in OutputsOf(p, c) : i \in 1 .. Len(p) /\ p2[i] = p[i]
  BY <1>3 DEF OutputsOf
<1>8. \A i \in OutputsOf(p, c), j \in N : i < j
  <2> SUFFICES ASSUME NEW i \in OutputsOf(p, c), NEW k \in Setters(s)
               PROVE  i < Len(p) + b + k
    OBVIOUS
  <2>1. k \in 1 .. Len(s)
    BY DEF Setters
  <2>2. Len(p) + b + k \in (Len(p) + 1) .. Len(p2)
    BY <1>5, <2>1
  <2>. QED
    BY <1>1, <1>3, <1>7, <2>2
<1>9. Grows(OutputsOf(p, c), p, OutputsOf(p2, c), p2, Places(Len(p) + b, s))
  BY <1>6, <1>7, <1>8 DEF Grows, Places
<1>10. \A k \in Setters(s) : p2[Len(p) + b + k] = s[k]
  BY <1>5 DEF Setters
<1>. QED
  BY <1>9, <1>10

(* What a call does to one channel keeps its line in order. *)
LEMMA EffectInLine ==
  ASSUME NEW O, NEW p, NEW O2, NEW p2, NEW s, NEW d \in Nat, Len(s) \in Nat,
         NEW ch, NEW ch2, NEW m, NEW m2, ch.last_level \in OnLevels,
         InLine(O, p, ch, m), Effect(s, ch, m, ch2, m2),
         Grows(O, p, O2, p2, Places(d, s)),
         \A k \in Setters(s) : p2[d + k] = s[k]
  PROVE  InLine(O2, p2, ch2, m2)
<1>0. \A k \in Setters(s) : k \in Nat \ {0}
  BY DEF Setters
<1>1. CASE NoEffect(s, ch, m, ch2, m2)
  <2>1. O2 = O /\ \A i \in O : p2[i] = p[i]
    BY <1>1 DEF Grows, NoEffect, Places
  <2>. QED
    BY <1>1, <2>1, GrowNone DEF NoEffect
<1>2. ASSUME NEW k \in Setters(s), Setters(s) = {k}
      PROVE  d + k \in Nat \ {0} /\ Grows(O, p, O2, p2, {d + k})
               /\ p2[d + k] = s[k]
  <2>1. Places(d, s) = {d + k}
    BY <1>2 DEF Places
  <2>2. Grows(O, p, O2, p2, {d + k})
    BY <2>1, Zenon
  <2>. QED
    BY <1>0, <2>2
<1>3. CASE OnEffect(s, ch, m, ch2, m2)
  <2>1. PICK k \in Setters(s) :
          /\ Setters(s) = {k} /\ s[k].kind = "on" /\ s[k].level = ch.last_level
          /\ m # MemoOn(ch.last_level) /\ m2 = MemoOn(ch.last_level)
          /\ SameChan(ch, ch2)
    BY <1>3 DEF OnEffect
  <2>2. d + k \in Nat \ {0} /\ Grows(O, p, O2, p2, {d + k}) /\ p2[d + k] = s[k]
    BY <1>2, <2>1
  <2>. QED
    BY <2>1, <2>2, GrowOn
<1>4. CASE OffEffect(s, ch, m, ch2, m2)
  <2>1. PICK k \in Setters(s) :
          /\ Setters(s) = {k} /\ s[k].kind = "off" /\ s[k].level = LEVEL_OFF
          /\ m.output # 0 /\ m2 = MemoOff /\ SameChan(ch, ch2)
    BY <1>4 DEF OffEffect
  <2>2. d + k \in Nat \ {0} /\ Grows(O, p, O2, p2, {d + k}) /\ p2[d + k] = s[k]
    BY <1>2, <2>1
  <2>. QED
    BY <2>1, <2>2, GrowOff
<1>5. CASE LevelEffect(s, ch, m, ch2, m2)
  <2>1. PICK k \in Setters(s), level \in OnLevels :
          /\ Setters(s) = {k} /\ s[k].kind = "level" /\ s[k].level = level
          /\ m.output = 1 /\ m # MemoOn(level) /\ m2 = MemoOn(level)
          /\ Relevelled(ch, ch2, level)
    BY <1>5 DEF LevelEffect
  <2>2. d + k \in Nat \ {0} /\ Grows(O, p, O2, p2, {d + k}) /\ p2[d + k] = s[k]
    BY <1>2, <2>1
  <2>. QED
    BY <2>1, <2>2, GrowLevel DEF Relevelled
<1>6. CASE ResumeEffect(s, ch, m, ch2, m2)
  <2>1. PICK k \in Setters(s), level \in OnLevels :
          /\ Setters(s) = {k, k + 1} /\ s[k].kind = "resume"
          /\ s[k + 1].kind = "level" /\ s[k + 1].level = level
          /\ m.output # 1 /\ m2 = MemoOn(level) /\ Relevelled(ch, ch2, level)
    BY <1>6 DEF ResumeEffect
  <2>2. /\ Places(d, s) = {d + k, d + k + 1}
        /\ d + k \in Nat \ {0} /\ d + (k + 1) = d + k + 1
    BY <1>0, <2>1 DEF Places
  <2>3. p2[d + k] = s[k] /\ p2[d + k + 1] = s[k + 1]
    BY <2>1, <2>2
  <2>4. Grows(O, p, O2, p2, {d + k, d + k + 1})
    BY <2>2, Zenon
  <2>. QED
    <3> DEFINE n == d + k
    <3>1. /\ n \in Nat \ {0} /\ Grows(O, p, O2, p2, {n, n + 1})
          /\ p2[n].kind = "resume" /\ p2[n + 1].kind = "level"
          /\ p2[n + 1].level = level
      BY <2>1, <2>2, <2>3, <2>4
    <3> HIDE DEF n
    <3>. QED
      BY <2>1, <3>1, GrowPair DEF Relevelled
<1>. QED
  BY <1>1, <1>3, <1>4, <1>5, <1>6 DEF Effect

LEMMA OfferFields ==
  ASSUME NEW r \in RackType, NEW reqs \in Seq(Request)
  PROVE  /\ Offer(r, reqs).radio = r.radio
         /\ Offer(r, reqs).heard = r.heard
         /\ r.lost \subseteq Offer(r, reqs).lost
         /\ \A c \in Channels : SameChan(r.chan[c], Offer(r, reqs).chan[c])
<1> DEFINE taken == Taken(r, reqs)
           marked == [c \in Channels |->
              [r.chan[c] EXCEPT
                 !.busy = @ \/ \E i \in DOMAIN taken : taken[i].channel = c]]
<1> HIDE DEF taken
<1>1. Offer(r, reqs) =
        [r EXCEPT
           !.queue = r.queue \o taken,
           !.chan = marked,
           !.lost = r.lost \cup
                      {reqs[i].channel : i \in (Len(taken) + 1) .. Len(reqs)}]
  BY DEF Offer, taken, RackType
<1>2. \A c \in Channels : SameChan(r.chan[c], marked[c])
  BY DEF SameChan, RackType, Chan
<1> HIDE DEF marked
<1>3. Offer(r, reqs).chan = marked
  BY <1>1 DEF RackType
<1>. QED
  BY <1>1, <1>2, <1>3 DEF RackType

LEMMA PlacesInPipeline ==
  ASSUME NEW r \in RackType, NEW c
  PROVE  /\ Len(PipelineOf(r)) \in Nat
         /\ OutputsOf(PipelineOf(r), c) \in SUBSET (1 .. Len(PipelineOf(r)))
  BY PipelineType DEF OutputsOf

(* Whatever is offered, if each channel that loses none of its requests      *)
(* finds them together and they have the effect they should.                 *)
LEMMA OfferKeepsOrder ==
  ASSUME NEW r \in RackType, NEW r2 \in RackType, NEW reqs \in Seq(Request),
         InOrder(r),
         r2.queue = Offer(r, reqs).queue, r2.inflight = r.inflight,
         r2.radio = r.radio, r2.heard = r.heard, r2.lost = Offer(r, reqs).lost,
         \A c \in Channels \ r2.lost :
           \E s \in Seq(Request), b \in Nat :
             Asks(reqs, c, s, b)
               /\ Effect(s, r.chan[c], r.queued[c], r2.chan[c], r2.queued[c])
  PROVE  InOrder(r2)
<1> SUFFICES ASSUME NEW c \in Channels \ r2.lost
             PROVE  LineOf(r2, c) /\ RadioRight(r2, c)
  BY DEF InOrder
<1> DEFINE p == PipelineOf(r)
           p2 == Followed(p, r, reqs)
<1>1. LineOf(r, c) /\ RadioRight(r, c) /\ c \notin Offer(r, reqs).lost
  BY OfferFields DEF InOrder
<1>2. PICK s \in Seq(Request), b \in Nat :
        Asks(reqs, c, s, b)
          /\ Effect(s, r.chan[c], r.queued[c], r2.chan[c], r2.queued[c])
  OBVIOUS
<1>3. p \in Seq(Request) /\ Len(p) + b \in Nat /\ Len(s) \in Nat
  BY PipelineType
<1>4. PipelineOf(r2) = p2
  <2> DEFINE taken == Taken(r, reqs)
  <2>1. taken \in Seq(Request) /\ r2.queue = r.queue \o taken
    BY OfferType
  <2> HIDE DEF taken
  <2>2. PipelineOf(r2) = PipelineOf(r) \o taken
    BY <2>1, PipelineType
  <2>. QED
    BY <2>2 DEF taken, Followed
<1>5. r.chan[c].last_level \in OnLevels
  BY DEF RackType, Chan
<1>6. /\ Grows(OutputsOf(p, c), p, OutputsOf(p2, c), p2, Places(Len(p) + b, s))
      /\ \A k \in Setters(s) : p2[Len(p) + b + k] = s[k]
  <2>1. c \in Channels /\ c \notin Offer(r, reqs).lost
    BY <1>1
  <2>2. p2 = Followed(p, r, reqs)
    OBVIOUS
  <2> HIDE DEF p, p2
  <2>. QED
    BY <1>2, <1>3, <2>1, <2>2, TakenGrows
<1>7. InLine(OutputsOf(p, c), p, r.chan[c], r.queued[c])
  BY <1>1 DEF LineOf
<1>8. InLine(OutputsOf(p2, c), p2, r2.chan[c], r2.queued[c])
  <2> HIDE DEF p, p2
  <2>. QED
    BY <1>2, <1>3, <1>5, <1>6, <1>7, EffectInLine
<1>9. r2.chan[c].output_on = r.chan[c].output_on
  BY <1>2 DEF Effect, NoEffect, OnEffect, OffEffect, LevelEffect, ResumeEffect,
     SameChan, Relevelled
<1>. QED
  BY <1>1, <1>4, <1>8, <1>9 DEF LineOf, RadioRight

(* What each call queues has the effect it should. *)
LEMMA SettersOf ==
  /\ Setters(<<>>) = {}
  /\ \A q : Setters(<<q>>) = IF SetsOutput(q) THEN {1} ELSE {}
  /\ \A q1, q2 : SetsOutput(q1) /\ SetsOutput(q2) => Setters(<<q1, q2>>) = {1, 2}
  /\ \A q1, q2 : ~SetsOutput(q1) /\ SetsOutput(q2) => Setters(<<q1, q2>>) = {2}
  BY DEF Setters

(* A call that is skipped because of the memo finds last_level set already.  *)
LEMMA MemoNamesLast ==
  ASSUME NEW n \in Nat, NEW O \in SUBSET (1 .. n), NEW p, NEW ch,
         NEW level \in OnLevels,
         InLine(O, p, ch, MemoOn(level))
  PROVE  ch.last_level = level
<1> DEFINE L == LevelSetters(O, p)
           On == OnSetters(O, p)
<1>1. MemoRight(O, p, ch, MemoOn(level)) /\ LastLevelAsked(O, p, ch)
  BY DEF InLine
<1>2. level # LEVEL_OFF
  BY OnIsNotOff
<1>3. /\ L = {} => ch.level = level
      /\ \A i \in L : Ends(L, i) => p[i].level = level
  BY <1>1 DEF MemoRight, MemoOn
<1>4. CASE L = {}
  <2>1. On = {}
    BY <1>4 DEF OnSetters
  <2>. QED
    BY <1>1, <1>2, <1>3, <1>4, <2>1 DEF LastLevelAsked
<1>5. CASE L # {}
  <2>1. PICK i \in L : Ends(L, i)
    BY <1>5, LastExists DEF LevelSetters
  <2>2. i \in On /\ Ends(On, i)
    BY <1>2, <1>3, <2>1 DEF OnSetters, Ends
  <2>. QED
    BY <1>1, <1>3, <2>1, <2>2 DEF LastLevelAsked
<1>. QED
  BY <1>4, <1>5

LEMMA OnHasEffect ==
  ASSUME NEW r \in RackType, NEW c \in Channels, NEW ch2, SameChan(r.chan[c], ch2)
  PROVE  Effect(OnRequests(r, c), r.chan[c], r.queued[c], ch2,
                MemoOn(r.chan[c].last_level))
<1> DEFINE q == OnRequest(r, c)
<1>1. CASE r.queued[c] = MemoOn(r.chan[c].last_level)
  <2>1. OnRequests(r, c) = <<>>
    BY <1>1 DEF OnRequests, MemoOn
  <2>. QED
    BY <1>1, <2>1, SettersOf DEF Effect, NoEffect
<1>2. CASE r.queued[c] # MemoOn(r.chan[c].last_level)
  <2>1. OnRequests(r, c) = <<q>>
    BY <1>2 DEF OnRequests, MemoOn
  <2>2. q.kind = "on" /\ q.level = r.chan[c].last_level
    BY DEF OnRequest
  <2>3. Setters(<<q>>) = {1} /\ <<q>>[1] = q
    BY <2>2, SettersOf DEF SetsOutput
  <2> HIDE DEF q
  <2>4. OnEffect(<<q>>, r.chan[c], r.queued[c], ch2, MemoOn(r.chan[c].last_level))
    BY <1>2, <2>2, <2>3 DEF OnEffect
  <2>. QED
    BY <2>1, <2>4 DEF Effect
<1>. QED
  BY <1>1, <1>2

LEMMA OffHasEffect ==
  ASSUME NEW r \in RackType, NEW c \in Channels, NEW ch2,
         SameChan(r.chan[c], ch2), LineOf(r, c)
  PROVE  Effect(OffRequests(r, c), r.chan[c], r.queued[c], ch2, MemoOff)
<1> DEFINE q == OffRequest(r, c)
<1>1. CASE r.queued[c].output = 0
  <2>1. OffRequests(r, c) = <<>>
    BY <1>1 DEF OffRequests
  <2>2. r.queued[c] = MemoOff
    <3>1. \/ r.queued[c].output = -1
          \/ r.queued[c] = MemoOff
          \/ \E level \in OnLevels : r.queued[c] = MemoOn(level)
      BY DEF LineOf, InLine, MemoShaped
    <3>2. \A level : MemoOn(level).output = 1
      BY DEF MemoOn
    <3>. QED
      BY <1>1, <3>1, <3>2
  <2>. QED
    BY <2>1, <2>2, SettersOf DEF Effect, NoEffect
<1>2. CASE r.queued[c].output # 0
  <2>1. OffRequests(r, c) = <<q>>
    BY <1>2 DEF OffRequests
  <2>2. q.kind = "off" /\ q.level = LEVEL_OFF
    BY DEF OffRequest
  <2>3. Setters(<<q>>) = {1} /\ <<q>>[1] = q
    BY <2>2, SettersOf DEF SetsOutput
  <2> HIDE DEF q
  <2>4. OffEffect(<<q>>, r.chan[c], r.queued[c], ch2, MemoOff)
    BY <1>2, <2>2, <2>3 DEF OffEffect
  <2>. QED
    BY <2>1, <2>4 DEF Effect
<1>. QED
  BY <1>1, <1>2

LEMMA ShortConcats ==
  ASSUME NEW a, NEW b
  PROVE  <<a>> \o <<b>> = <<a, b>> /\ <<>> \o <<b>> = <<b>>
<1>1. <<a>> \in Seq({a, b}) /\ <<b>> \in Seq({a, b}) /\ <<>> \in Seq({a, b})
  OBVIOUS
<1>2. <<a>> \o <<b>> = <<a, b>>
  <2> DEFINE s == <<a>> \o <<b>>
  <2>1. s \in Seq({a, b}) /\ Len(s) = 2 /\ s[1] = a /\ s[2] = b
    BY <1>1, ConcatProperties
  <2> HIDE DEF s
  <2>2. s = <<a, b>>
    BY <2>1
  <2>. QED
    BY <2>2 DEF s
<1>3. <<>> \o <<b>> = <<b>>
  BY <1>1, ConcatEmptySeq
<1>. QED
  BY <1>2, <1>3

LEMMA LevelRequestsAre ==
  ASSUME NEW r, NEW c, NEW level
  PROVE  LevelRequests(r, c, level) =
           IF r.queued[c] = [output |-> 1, level |-> level] THEN <<>>
           ELSE IF r.queued[c].output # 1
           THEN <<[LevelRequest(r, c, level) EXCEPT !.kind = "resume"],
                  LevelRequest(r, c, level)>>
           ELSE <<LevelRequest(r, c, level)>>
<1> DEFINE q == LevelRequest(r, c, level)
           resume == [LevelRequest(r, c, level) EXCEPT !.kind = "resume"]
<1>1. LevelRequests(r, c, level) =
        IF r.queued[c] = [output |-> 1, level |-> level] THEN <<>>
        ELSE (IF r.queued[c].output # 1 THEN <<resume>> ELSE <<>>) \o <<q>>
  BY DEF LevelRequests
<1> HIDE DEF q, resume
<1>2. <<resume>> \o <<q>> = <<resume, q>> /\ <<>> \o <<q>> = <<q>>
  BY ShortConcats
<1>3. LevelRequests(r, c, level) =
        IF r.queued[c] = [output |-> 1, level |-> level] THEN <<>>
        ELSE IF r.queued[c].output # 1 THEN <<resume, q>> ELSE <<q>>
  BY <1>1, <1>2
<1>. QED
  BY <1>3 DEF q, resume

LEMMA LevelHasEffect ==
  ASSUME NEW r \in RackType, NEW c \in Channels, NEW level \in OnLevels, NEW ch2,
         Relevelled(r.chan[c], ch2, level), LineOf(r, c)
  PROVE  Effect(LevelRequests(r, c, level), r.chan[c], r.queued[c], ch2,
                MemoOn(level))
<1> DEFINE q == LevelRequest(r, c, level)
           resume == [LevelRequest(r, c, level) EXCEPT !.kind = "resume"]
<1>0. /\ q.kind = "level" /\ q.level = level /\ SetsOutput(q)
      /\ resume.kind = "resume" /\ SetsOutput(resume)
  BY DEF LevelRequest, SetsOutput
<1>1. CASE r.queued[c] = MemoOn(level)
  <2>1. LevelRequests(r, c, level) = <<>>
    BY <1>1 DEF LevelRequests, MemoOn
  <2>2. InLine(OutputsOf(PipelineOf(r), c), PipelineOf(r), r.chan[c], MemoOn(level))
    BY <1>1 DEF LineOf
  <2>3. r.chan[c].last_level = level
    BY <2>2, PlacesInPipeline, MemoNamesLast
  <2>. QED
    BY <1>1, <2>1, <2>3, SettersOf DEF Effect, NoEffect, SameChan, Relevelled
<1>2. CASE r.queued[c] # MemoOn(level) /\ r.queued[c].output = 1
  <2>1. LevelRequests(r, c, level) = <<q>>
    BY <1>2, LevelRequestsAre DEF MemoOn
  <2>3. Setters(<<q>>) = {1} /\ <<q>>[1] = q
    BY <1>0, SettersOf
  <2> HIDE DEF q
  <2>4. LevelEffect(<<q>>, r.chan[c], r.queued[c], ch2, MemoOn(level))
    BY <1>0, <1>2, <2>3 DEF LevelEffect
  <2>. QED
    BY <2>1, <2>4 DEF Effect
<1>3. CASE r.queued[c].output # 1
  <2>1. LevelRequests(r, c, level) = <<resume, q>>
    <3>1. r.queued[c] # [output |-> 1, level |-> level]
      BY <1>3
    <3>. QED
      BY <1>3, <3>1, LevelRequestsAre
  <2>3. Setters(<<resume, q>>) = {1, 1 + 1} /\ <<resume, q>>[1] = resume
          /\ <<resume, q>>[1 + 1] = q
    BY <1>0, SettersOf
  <2> HIDE DEF q, resume
  <2>4. ResumeEffect(<<resume, q>>, r.chan[c], r.queued[c], ch2, MemoOn(level))
    BY <1>0, <1>3, <2>3 DEF ResumeEffect
  <2>. QED
    BY <2>1, <2>4 DEF Effect
<1>. QED
  BY <1>1, <1>2, <1>3

LEMMA ModeHasEffect ==
  ASSUME NEW r \in RackType, NEW c \in Channels, NEW mode \in Modes, NEW ch2,
         SameChan(r.chan[c], ch2)
  PROVE  Effect(ModeRequests(r, c, mode), r.chan[c], r.queued[c], ch2, r.queued[c])
<1>1. PICK q : ModeRequests(r, c, mode) = <<q>> /\ q.kind = "mode"
  <2> DEFINE level == IF r.chan[c].level # LEVEL_OFF THEN r.chan[c].level
                                                    ELSE r.chan[c].last_level
             q == [channel |-> c, kind |-> "mode", mode |-> mode, level |-> level]
  <2>1. ModeRequests(r, c, mode) = <<q>>
    BY DEF ModeRequests
  <2>2. q.kind = "mode"
    OBVIOUS
  <2> HIDE DEF q
  <2>. QED
    BY <2>1, <2>2
<1>2. Setters(<<q>>) = {}
  BY <1>1, SettersOf DEF SetsOutput
<1>. QED
  BY <1>1, <1>2 DEF Effect, NoEffect

(* The requests of a call for one channel are all that channel's. *)
LEMMA CallAsks ==
  ASSUME NEW c, NEW reqs \in Seq(Request),
         \A i \in 1 .. Len(reqs) : reqs[i].channel = c
  PROVE  /\ Asks(reqs, c, reqs, 0)
         /\ \A d : d # c => Asks(reqs, d, <<>>, 0)
<1>1. Len(reqs) \in Nat
  OBVIOUS
<1>. QED
  BY <1>1 DEF Asks

LEMMA CallChannels ==
  ASSUME NEW r \in RackType, NEW c \in Channels
  PROVE  /\ \A i \in 1 .. Len(OnRequests(r, c)) : OnRequests(r, c)[i].channel = c
         /\ \A i \in 1 .. Len(OffRequests(r, c)) :
              OffRequests(r, c)[i].channel = c
         /\ \A level \in OnLevels :
              \A i \in 1 .. Len(LevelRequests(r, c, level)) :
              LevelRequests(r, c, level)[i].channel = c
         /\ \A mode \in Modes : \A i \in 1 .. Len(ModeRequests(r, c, mode)) :
              ModeRequests(r, c, mode)[i].channel = c
<1>1. OnRequest(r, c).channel = c /\ OffRequest(r, c).channel = c
  BY DEF OnRequest, OffRequest
<1>2. \A i \in 1 .. Len(OnRequests(r, c)) : OnRequests(r, c)[i].channel = c
  BY <1>1 DEF OnRequests
<1>3. \A i \in 1 .. Len(OffRequests(r, c)) : OffRequests(r, c)[i].channel = c
  BY <1>1 DEF OffRequests
<1>4. ASSUME NEW level \in OnLevels
      PROVE  \A i \in 1 .. Len(LevelRequests(r, c, level)) :
               LevelRequests(r, c, level)[i].channel = c
  <2> DEFINE q == LevelRequest(r, c, level)
             resume == [LevelRequest(r, c, level) EXCEPT !.kind = "resume"]
  <2>1. q.channel = c /\ resume.channel = c
    BY DEF LevelRequest
  <2>2. LevelRequests(r, c, level) \in {<<>>, <<q>>, <<resume, q>>}
    BY LevelRequestsAre
  <2> HIDE DEF q, resume
  <2>. QED
    BY <2>1, <2>2
<1>5. ASSUME NEW mode \in Modes
      PROVE  \A i \in 1 .. Len(ModeRequests(r, c, mode)) :
               ModeRequests(r, c, mode)[i].channel = c
  BY DEF ModeRequests
<1>. QED
  BY <1>2, <1>3, <1>4, <1>5

-----------------------------------------------------------------------------
(* One call for one channel. *)
LEMMA CallKeepsOrder ==
  ASSUME NEW r \in RackType, NEW r2 \in RackType, NEW c \in Channels,
         NEW reqs \in Seq(Request),
         InOrder(r), \A i \in 1 .. Len(reqs) : reqs[i].channel = c,
         r2.queue = Offer(r, reqs).queue, r2.inflight = r.inflight,
         r2.radio = r.radio, r2.heard = r.heard, r2.lost = Offer(r, reqs).lost,
         \A d \in Channels \ {c} : SameChan(r.chan[d], r2.chan[d])
           /\ r2.queued[d] = r.queued[d],
         LineOf(r, c) =>
           Effect(reqs, r.chan[c], r.queued[c], r2.chan[c], r2.queued[c])
  PROVE  InOrder(r2)
<1> SUFFICES ASSUME NEW d \in Channels \ r2.lost
             PROVE  \E s \in Seq(Request), b \in Nat :
                      Asks(reqs, d, s, b)
                      /\ Effect(s, r.chan[d], r.queued[d], r2.chan[d], r2.queued[d])
  BY OfferKeepsOrder
<1>1. CASE d = c
  <2>1. LineOf(r, c)
    BY <1>1, OfferFields DEF InOrder
  <2>. QED
    BY <1>1, <2>1, CallAsks
<1>2. CASE d # c
  <2>1. Asks(reqs, d, <<>>, 0)
    BY <1>2, CallAsks
  <2>2. Effect(<<>>, r.chan[d], r.queued[d], r2.chan[d], r2.queued[d])
    BY <1>2, SettersOf DEF Effect, NoEffect
  <2>. WITNESS <<>> \in Seq(Request), 0 \in Nat
  <2>. QED
    BY <2>1, <2>2
<1>. QED
  BY <1>1, <1>2

LEMMA TurnOnKeepsOrder ==
  ASSUME NEW r \in RackType, NEW c \in Channels, InOrder(r)
  PROVE  InOrder(TurnOn(r, c))
<1> DEFINE reqs == OnRequests(r, c)
           new == Offer(r, reqs)
           r2 == TurnOn(r, c)
<1>1. reqs \in Seq(Request) /\ r2 \in RackType
        /\ \A i \in 1 .. Len(reqs) : reqs[i].channel = c
  BY OnRequestsType, TurnOnType, CallChannels
<1>2. /\ new \in RackType /\ new.queued = r.queued /\ new.inflight = r.inflight
      /\ new.radio = r.radio /\ new.heard = r.heard
      /\ \A d \in Channels : SameChan(r.chan[d], new.chan[d])
  BY <1>1, OfferType, OfferFields
<1>3. r2 = [new EXCEPT
              !.queued = [new.queued EXCEPT ![c] = MemoOn(r.chan[c].last_level)]]
  BY DEF TurnOn
<1> HIDE DEF new
<1>4. /\ r2.queue = new.queue /\ r2.inflight = r.inflight /\ r2.radio = r.radio
      /\ r2.heard = r.heard /\ r2.lost = new.lost /\ r2.chan = new.chan
      /\ r2.queued[c] = MemoOn(r.chan[c].last_level)
      /\ \A d \in Channels \ {c} : r2.queued[d] = r.queued[d]
  BY <1>2, <1>3 DEF RackType
<1>5. Effect(reqs, r.chan[c], r.queued[c], r2.chan[c], r2.queued[c])
  BY <1>2, <1>4, OnHasEffect
<1> HIDE DEF r2, reqs
<1>6. InOrder(r2)
  BY <1>1, <1>2, <1>4, <1>5, CallKeepsOrder DEF new
<1>. QED
  BY <1>6 DEF r2

LEMMA TurnOffKeepsOrder ==
  ASSUME NEW r \in RackType, NEW c \in Channels, InOrder(r)
  PROVE  InOrder(TurnOff(r, c))
<1> DEFINE reqs == OffRequests(r, c)
           new == Offer(r, reqs)
           r2 == TurnOff(r, c)
<1>1. reqs \in Seq(Request) /\ r2 \in RackType
        /\ \A i \in 1 .. Len(reqs) : reqs[i].channel = c
  BY OffRequestsType, TurnOffType, CallChannels
<1>2. /\ new \in RackType /\ new.queued = r.queued /\ new.inflight = r.inflight
      /\ new.radio = r.radio /\ new.heard = r.heard
      /\ \A d \in Channels : SameChan(r.chan[d], new.chan[d])
  BY <1>1, OfferType, OfferFields
<1>3. r2 = [new EXCEPT !.queued = [new.queued EXCEPT ![c] = MemoOff]]
  BY DEF TurnOff
<1> HIDE DEF new
<1>4. /\ r2.queue = new.queue /\ r2.inflight = r.inflight /\ r2.radio = r.radio
      /\ r2.heard = r.heard /\ r2.lost = new.lost /\ r2.chan = new.chan
      /\ r2.queued[c] = MemoOff
      /\ \A d \in Channels \ {c} : r2.queued[d] = r.queued[d]
  BY <1>2, <1>3 DEF RackType
<1>5. LineOf(r, c)
        => Effect(reqs, r.chan[c], r.queued[c], r2.chan[c], r2.queued[c])
  BY <1>2, <1>4, OffHasEffect
<1> HIDE DEF r2, reqs
<1>6. InOrder(r2)
  BY <1>1, <1>2, <1>4, <1>5, CallKeepsOrder DEF new
<1>. QED
  BY <1>6 DEF r2

LEMMA SetLevelKeepsOrder ==
  ASSUME NEW r \in RackType, NEW c \in Channels, NEW level \in Levels, InOrder(r)
  PROVE  InOrder(SetLevel(r, c, level))
<1>1. CASE level = LEVEL_OFF
  BY <1>1, TurnOffKeepsOrder DEF SetLevel
<1>2. CASE level # LEVEL_OFF
  <2> DEFINE reqs == LevelRequests(r, c, level)
             new == Offer(r, reqs)
             r2 == SetLevel(r, c, level)
  <2>0. level \in OnLevels
    BY <1>2 DEF Levels
  <2>1. reqs \in Seq(Request) /\ r2 \in RackType
          /\ \A i \in 1 .. Len(reqs) : reqs[i].channel = c
    BY <2>0, LevelRequestsType, SetLevelType, CallChannels
  <2>2. /\ new \in RackType /\ new.queued = r.queued /\ new.inflight = r.inflight
        /\ new.radio = r.radio /\ new.heard = r.heard
        /\ \A d \in Channels : SameChan(r.chan[d], new.chan[d])
    BY <2>1, OfferType, OfferFields
  <2>3. r2 = [new EXCEPT !.chan = [new.chan EXCEPT ![c].last_level = level],
                         !.queued = [new.queued EXCEPT ![c] = MemoOn(level)]]
    BY <1>2 DEF SetLevel
  <2> HIDE DEF new
  <2> DEFINE ch == [new.chan EXCEPT ![c].last_level = level]
             memo == [new.queued EXCEPT ![c] = MemoOn(level)]
  <2>4. /\ memo[c] = MemoOn(level)
        /\ \A d \in Channels \ {c} : memo[d] = r.queued[d]
    BY <2>2 DEF RackType
  <2>5. /\ Relevelled(r.chan[c], ch[c], level)
        /\ \A d \in Channels \ {c} : SameChan(r.chan[d], ch[d])
    <3>1. new.chan \in [Channels -> Chan]
      BY <2>2 DEF RackType
    <3>2. ch[c] = [new.chan[c] EXCEPT !.last_level = level]
            /\ \A d \in Channels \ {c} : ch[d] = new.chan[d]
      BY <3>1
    <3>3. /\ ch[c].output_on = new.chan[c].output_on
          /\ ch[c].level = new.chan[c].level
          /\ ch[c].last_level = level
      <4>1. new.chan[c] \in Chan
        BY <3>1
      <4>. QED
        BY <3>2, <4>1 DEF Chan
    <3>. QED
      BY <2>2, <3>2, <3>3 DEF SameChan, Relevelled
  <2> HIDE DEF ch, memo
  <2>6. /\ r2.queue = new.queue /\ r2.inflight = r.inflight /\ r2.radio = r.radio
        /\ r2.heard = r.heard /\ r2.lost = new.lost
        /\ r2.chan = ch /\ r2.queued = memo
    <3>1. r2 = [new EXCEPT !.chan = ch, !.queued = memo]
      BY <2>3 DEF ch, memo
    <3>. QED
      BY <2>2, <3>1 DEF RackType
  <2>7. LineOf(r, c)
          => Effect(reqs, r.chan[c], r.queued[c], r2.chan[c], r2.queued[c])
    BY <2>0, <2>4, <2>5, <2>6, LevelHasEffect
  <2> HIDE DEF r2, reqs
  <2>8. InOrder(r2)
    BY <2>1, <2>2, <2>4, <2>5, <2>6, <2>7, CallKeepsOrder DEF new
  <2>. QED
    BY <2>8 DEF r2
<1>. QED
  BY <1>1, <1>2

LEMMA SetModeKeepsOrder ==
  ASSUME NEW r \in RackType, NEW c \in Channels, NEW mode \in Modes, InOrder(r)
  PROVE  InOrder(SetMode(r, c, mode))
<1> DEFINE reqs == ModeRequests(r, c, mode)
           r2 == Offer(r, reqs)
<1>1. reqs \in Seq(Request) /\ \A i \in 1 .. Len(reqs) : reqs[i].channel = c
  BY ModeRequestsType, CallChannels
<1>2. /\ r2 \in RackType /\ r2.queued = r.queued /\ r2.inflight = r.inflight
      /\ r2.radio = r.radio /\ r2.heard = r.heard
      /\ \A d \in Channels : SameChan(r.chan[d], r2.chan[d])
  BY <1>1, OfferType, OfferFields
<1>3. Effect(reqs, r.chan[c], r.queued[c], r2.chan[c], r2.queued[c])
  BY <1>2, ModeHasEffect
<1> HIDE DEF reqs
<1>4. InOrder(r2)
  <2> DEFINE new == r2
  <2>1. r2.queue = Offer(r, reqs).queue /\ r2.lost = Offer(r, reqs).lost
    OBVIOUS
  <2> HIDE DEF r2
  <2>. QED
    BY <1>1, <1>2, <1>3, <2>1, CallKeepsOrder
<1>. QED
  BY <1>4 DEF SetMode, reqs

(* The two halves of channels_poll(). *)
LEMMA SettleKeepsOrder ==
  ASSUME NEW r \in RackType, r.inflight # NoRequest, InOrder(r)
  PROVE  InOrder(Settle(r))
<1> DEFINE q == r.inflight
           shown == Settled(r.chan[q.channel], q)
           r2 == Settle(r)
           p == PipelineOf(r)
           p2 == PipelineOf(r2)
<1>1. q \in Request /\ q.channel \in Channels /\ r.queue \in Seq(Request)
  BY DEF RackType, Request
<1>2. r2 = [r EXCEPT !.chan = [r.chan EXCEPT ![q.channel] = shown],
                     !.inflight = NoRequest]
  BY <1>1 DEF Settle, RackType
<1>3. r2.queue = r.queue /\ r2.inflight = NoRequest /\ r2.radio = r.radio
      /\ r2.heard = r.heard /\ r2.lost = r.lost /\ r2.queued = r.queued
      /\ r2.chan = [r.chan EXCEPT ![q.channel] = shown]
  <2> HIDE DEF shown, q
  <2>. QED
    BY <1>2 DEF RackType
<1>4. p2 = r.queue /\ p = <<q>> \o r.queue
  BY <1>1, <1>3 DEF PipelineOf
<1>5. /\ p \in Seq(Request) /\ Len(p) = Len(r.queue) + 1 /\ p[1] = q
      /\ \A i \in 1 .. Len(r.queue) : p[i + 1] = r.queue[i]
      /\ Len(r.queue) \in Nat
  <2>1. <<q>> \in Seq(Request) /\ Len(<<q>>) = 1 /\ <<q>>[1] = q
    BY <1>1
  <2>2. /\ <<q>> \o r.queue \in Seq(Request)
        /\ Len(<<q>> \o r.queue) = 1 + Len(r.queue)
        /\ (<<q>> \o r.queue)[1] = q
        /\ \A i \in 1 .. Len(r.queue) : (<<q>> \o r.queue)[1 + i] = r.queue[i]
    BY <1>1, <2>1, ConcatProperties
  <2>3. Len(r.queue) \in Nat
    BY <1>1
  <2>4. \A i \in 1 .. Len(r.queue) : 1 + i = i + 1
    OBVIOUS
  <2> HIDE DEF p, q
  <2>. QED
    BY <1>4, <2>2, <2>3, <2>4
<1> HIDE DEF p, p2
<1>6. ASSUME NEW c \in Channels
      PROVE  /\ r2.chan[c].last_level = r.chan[c].last_level
             /\ q.channel = c /\ SetsOutput(q) =>
                  /\ r2.chan[c].output_on = OutputOf(q)
                  /\ r2.chan[c].level =
                       IF SetsLevel(q) THEN q.level ELSE r.chan[c].level
             /\ ~(q.channel = c /\ SetsOutput(q))
                  => SameChan(r.chan[c], r2.chan[c])
  <2>0. r.chan[c] \in Chan /\ r.chan \in [Channels -> Chan]
    BY DEF RackType
  <2>1. CASE c = q.channel
    <3>1. r2.chan[c] = Settled(r.chan[c], q)
      BY <1>3, <2>0, <2>1
    <3>2. ~SetsOutput(q) => ~SetsLevel(q)
      BY DEF SetsOutput, SetsLevel
    <3> HIDE DEF q
    <3>3. /\ Settled(r.chan[c], q).last_level = r.chan[c].last_level
          /\ Settled(r.chan[c], q).output_on
               = IF SetsOutput(q) THEN OutputOf(q) ELSE r.chan[c].output_on
          /\ Settled(r.chan[c], q).level = IF SetsLevel(q) THEN q.level
               ELSE r.chan[c].level
      BY <2>0 DEF Settled, Chan
    <3>. QED
      BY <2>1, <3>1, <3>2, <3>3 DEF SameChan
  <2>2. CASE c # q.channel
    <3>1. r2.chan[c] = r.chan[c]
      BY <1>3, <2>0, <2>2
    <3>. QED
      BY <2>2, <3>1 DEF SameChan
  <2>. QED
    BY <2>1, <2>2
<1>7. ASSUME NEW c \in Channels \ r2.lost PROVE LineOf(r2, c) /\ RadioRight(r2, c)
  <2>0. LineOf(r, c) /\ RadioRight(r, c)
    BY <1>3 DEF InOrder
  <2>1. 1 \in OutputsOf(p, c) <=> q.channel = c /\ SetsOutput(q)
    BY <1>5 DEF OutputsOf
  <2>2. Shifts(OutputsOf(p, c), p, OutputsOf(p2, c), p2)
    <3> HIDE DEF q
    <3>. QED
      BY <1>4, <1>5, <1>1 DEF Shifts, OutputsOf
  <2>3. InLine(OutputsOf(p2, c), p2, r2.chan[c], r.queued[c])
    <3>1. InLine(OutputsOf(p, c), p, r.chan[c], r.queued[c])
      BY <2>0 DEF LineOf, p
    <3> HIDE DEF r2
    <3>. QED
      BY <1>5, <1>6, <2>1, <2>2, <3>1, SettleKeepsLine
  <2>4. LineOf(r2, c)
    BY <1>3, <2>3 DEF LineOf, p2
  <2>5. RadioRight(r2, c)
    BY <1>3, <1>6, <2>0 DEF RadioRight, SameChan
  <2>. QED
    BY <2>4, <2>5
<1>. QED
  BY <1>7 DEF InOrder

LEMMA SendKeepsOrder ==
  ASSUME NEW r \in RackType, r.inflight = NoRequest, r.queue # <<>>,
         NEW up \in BOOLEAN, InOrder(r)
  PROVE  InOrder(Send(r, up))
<1> DEFINE q == Head(r.queue)
           amp == IF up THEN Received(r.radio[q.channel], q)
             ELSE r.radio[q.channel]
           ears == IF up THEN r.heard \cup {<<q.channel, Frame(q)>>}
                         ELSE r.heard \ {<<q.channel, Frame(q)>>}
           r2 == Send(r, up)
           p == PipelineOf(r)
<1>1. r.queue \in Seq(Request) /\ q \in Request /\ q.channel \in Channels
      /\ Tail(r.queue) \in Seq(Request) /\ r.queue = <<q>> \o Tail(r.queue)
      /\ Len(r.queue) \in Nat \ {0} /\ r.queue[1] = q
  <2>1. r.queue \in Seq(Request) /\ Len(r.queue) \in Nat \ {0}
    BY EmptySeq DEF RackType
  <2>2. q \in Request /\ Tail(r.queue) \in Seq(Request) /\ r.queue[1] = q
    BY <2>1, HeadTailProperties
  <2>3. q.channel \in Channels
    BY <2>2 DEF Request
  <2>4. r.queue = <<q>> \o Tail(r.queue)
    <3> DEFINE s == <<q>> \o Tail(r.queue)
    <3>1. <<q>> \in Seq(Request) /\ Len(<<q>>) = 1 /\ <<q>>[1] = q
      BY <2>2
    <3>2. /\ Len(Tail(r.queue)) = Len(r.queue) - 1
          /\ \A i \in 1 .. Len(r.queue) - 1 : Tail(r.queue)[i] = r.queue[i + 1]
      BY <2>1, HeadTailProperties
    <3>3. /\ s \in Seq(Request) /\ Len(s) = 1 + Len(Tail(r.queue)) /\ s[1] = q
          /\ \A i \in 1 .. Len(Tail(r.queue)) : s[1 + i] = Tail(r.queue)[i]
      <4> HIDE DEF q
      <4>. QED
        BY <2>2, <3>1, ConcatProperties
    <3> HIDE DEF q, s
    <3>4. Len(s) = Len(r.queue)
      BY <2>1, <3>2, <3>3
    <3>5. ASSUME NEW i \in 1 .. Len(r.queue) PROVE s[i] = r.queue[i]
      <4>1. CASE i = 1
        BY <2>2, <3>3, <4>1
      <4>2. CASE i # 1
        <5>1. i - 1 \in 1 .. Len(r.queue) - 1 /\ 1 + (i - 1) = i
                /\ (i - 1) + 1 = i
          BY <2>1, <4>2
        <5>. QED
          BY <3>2, <3>3, <5>1
      <4>. QED
        BY <4>1, <4>2
    <3>6. s = r.queue
      BY <2>1, <3>3, <3>4, <3>5
    <3>. QED
      BY <3>6 DEF s
  <2>. QED
    BY <2>1, <2>2, <2>3, <2>4
<1>2. Send(r, up) = [r EXCEPT !.queue = Tail(r.queue), !.inflight = q,
                              !.radio = [r.radio EXCEPT ![q.channel] = amp],
                              !.heard = ears]
  BY <1>1 DEF Send, RackType
<1>3. /\ r2.queue = Tail(r.queue) /\ r2.inflight = q
      /\ r2.radio = [r.radio EXCEPT ![q.channel] = amp]
      /\ r2.heard = ears /\ r2.lost = r.lost /\ r2.queued = r.queued
      /\ r2.chan = r.chan
  <2> HIDE DEF amp, ears, q
  <2>. QED
    BY <1>2 DEF RackType
<1>4. q # NoRequest
  BY <1>1, ChannelsAssumption
<1> HIDE DEF q, r2
<1>5. p = r.queue
  BY <1>1 DEF PipelineOf
<1>6. PipelineOf(r2) = r.queue
  <2>1. PipelineOf(r2) = <<q>> \o Tail(r.queue)
    BY <1>3, <1>4 DEF PipelineOf
  <2>. QED
    BY <1>1, <2>1
<1>7. ASSUME NEW c \in Channels \ r2.lost PROVE LineOf(r2, c) /\ RadioRight(r2, c)
  <2>0. LineOf(r, c) /\ RadioRight(r, c)
    BY <1>3 DEF InOrder
  <2>1. LineOf(r2, c)
    BY <1>3, <1>5, <1>6, <2>0 DEF LineOf
  <2>2. RadioRight(r2, c)
    <3> SUFFICES ASSUME <<c, "switch">> \in ears
                 PROVE  r2.radio[c].on = IF q.channel = c /\ SetsOutput(q)
                                         THEN OutputOf(q) ELSE r.chan[c].output_on
      BY <1>3, <1>4 DEF RadioRight
    <3>0. r.radio \in [Channels -> Amplifier] /\ r.radio[c] \in Amplifier
      BY DEF RackType
    <3>1. <<c, "switch">> \in r.heard => r.radio[c].on = r.chan[c].output_on
      BY <2>0 DEF RadioRight
    <3>2. CASE q.channel # c
      <4>1. <<c, "switch">> \in r.heard
        BY <3>2
      <4>2. r2.radio[c] = r.radio[c]
        BY <1>1, <1>3, <3>0, <3>2
      <4>. QED
        BY <3>1, <3>2, <4>1, <4>2
    <3>3. CASE q.channel = c /\ IsSwitch(q)
      <4>1. Frame(q) = "switch" /\ SetsOutput(q)
        BY <3>3 DEF Frame, SetsOutput, IsSwitch
      <4>2. up
        BY <3>3, <4>1
      <4>3. r2.radio[c] = Received(r.radio[c], q)
        BY <1>1, <1>3, <3>0, <3>3, <4>2
      <4>4. Received(r.radio[c], q).on = OutputOf(q)
        BY <3>0, <3>3 DEF Received, Amplifier
      <4>. QED
        BY <3>3, <4>1, <4>3, <4>4
    <3>4. CASE q.channel = c /\ ~IsSwitch(q)
      <4>1. Frame(q) = "signal"
        BY <3>4 DEF Frame
      <4>2. <<c, "switch">> \in r.heard
        BY <4>1
      <4>3. r2.radio[c].on = r.radio[c].on
        <5>1. r2.radio[c] = IF up THEN Received(r.radio[c], q) ELSE r.radio[c]
          BY <1>1, <1>3, <3>0, <3>4
        <5>2. Received(r.radio[c], q).on = r.radio[c].on
          BY <3>0, <3>4 DEF Received, Amplifier
        <5>. QED
          BY <5>1, <5>2
      <4>4. ASSUME SetsOutput(q) PROVE OutputOf(q) /\ r.chan[c].output_on
        <5>1. q.kind = "level"
          BY <1>1, <3>4, <4>4 DEF SetsOutput, IsSwitch, Request
        <5>2. 1 \in OutputsOf(p, c) /\ p[1] = q
          BY <1>1, <1>5, <3>4, <4>4 DEF OutputsOf
        <5>3. LevelAfterOn(OutputsOf(p, c), p, r.chan[c])
          BY <2>0 DEF LineOf, InLine
        <5>4. \A k \in OutputsOf(p, c) : 1 <= k
          BY PlacesInPipeline
        <5>. QED
          BY <5>1, <5>2, <5>3, <5>4 DEF LevelAfterOn, OutputOf
      <4>5. r2.radio[c].on = r.chan[c].output_on
        BY <3>1, <4>2, <4>3
      <4>6. r.chan[c].output_on \in BOOLEAN /\ OutputOf(q) \in BOOLEAN
        BY DEF RackType, Chan, OutputOf
      <4>. QED
        BY <3>4, <4>4, <4>5, <4>6
    <3>. QED
      BY <3>2, <3>3, <3>4
  <2>. QED
    BY <2>1, <2>2
<1>. QED
  BY <1>7 DEF InOrder, r2

-----------------------------------------------------------------------------
(* The steps of Channels, and what the invariant says of its state. *)
LEMMA SetRackOrder ==
  ASSUME NEW r \in RackType, SetRack(r), InOrder(r)
  PROVE  InOrder(Rack)'
<1>1. Rack' = r
  BY DEF SetRack, Rack, RackType
<1>. QED
  BY <1>1

LEMMA RackInitInOrder == RackInit => InOrder(Rack)
<1> SUFFICES ASSUME RackInit, NEW c \in Channels
             PROVE  LineOf(Rack, c) /\ RadioRight(Rack, c)
  BY DEF InOrder
<1>1. OutputsOf(PipelineOf(Rack), c) = {}
  BY DEF RackInit, Rack, PipelineOf, OutputsOf
<1>2. Rack.chan[c] = InitChan /\ Rack.queued[c] = [output |-> -1, level |-> -1]
        /\ Rack.heard = {}
  BY DEF RackInit, Rack
<1>3. /\ InitChan.output_on = FALSE /\ InitChan.level = LEVEL_OFF
      /\ InitChan.last_level = LEVEL_LOW
  BY DEF InitChan
<1>4. LineOf(Rack, c)
  <2>1. ASSUME NEW p, NEW ch, NEW m, m.output = -1, ch.output_on = FALSE,
               ch.level = LEVEL_OFF
        PROVE  InLine({}, p, ch, m)
    BY <2>1 DEF InLine, WellFormed, MemoShaped, MemoRight, LevelAfterOn,
       NoneRepeats,
                LastLevelAsked, LevelFollows, LevelSetters, OnSetters
  <2>2. InLine({}, PipelineOf(Rack), Rack.chan[c], Rack.queued[c])
    BY <1>2, <1>3, <2>1
  <2>. QED
    BY <1>1, <2>2, Zenon DEF LineOf
<1>. QED
  BY <1>2, <1>4 DEF RadioRight

LEMMA LastOfPlaces ==
  ASSUME NEW n \in Nat, NEW S \in SUBSET (1 .. n), S # {}
  PROVE  LastOf(S) \in S /\ Ends(S, LastOf(S))
<1>1. \E i \in S : \A j \in S : j <= i
  BY LastExists DEF Ends
<1>. QED
  BY <1>1, Zenon DEF LastOf, Ends

LEMMA OrderIsSafe ==
  ASSUME TypeOK, InOrder(Rack)
  PROVE  /\ MemoMatchesPipeline
         /\ NoRepeatedCommand
         /\ RadioFollowsChannel
         /\ SavedIsShownOrUnderWay
<1>1. /\ Rack \in RackType /\ Pipeline = PipelineOf(Rack)
      /\ Rack.chan = chan /\ Rack.queued = queued /\ Rack.inflight = inflight
      /\ Rack.radio = radio /\ Rack.heard = heard /\ Rack.lost = lost
  <2>1. Rack \in RackType
    BY TypeOfRack
  <2>2. /\ Rack.chan = chan /\ Rack.queued = queued /\ Rack.inflight = inflight
        /\ Rack.radio = radio /\ Rack.heard = heard /\ Rack.lost = lost
        /\ Rack.queue = queue
    BY DEF Rack
  <2>3. Pipeline = PipelineOf(Rack)
    BY <2>2 DEF Pipeline, PipelineOf
  <2>. QED
    BY <2>1, <2>2, <2>3
<1> DEFINE O(c) == OutputsOf(Pipeline, c)
           L(c) == LevelSetters(O(c), Pipeline)
           On(c) == OnSetters(O(c), Pipeline)
<1>2. \A c \in Channels \ lost : InLine(O(c), Pipeline, chan[c], queued[c])
  BY <1>1 DEF InOrder, LineOf
<1>3. PICK n \in Nat : DOMAIN Pipeline = 1 .. n
  BY <1>1, PipelineType
<1>4. ASSUME NEW c \in Channels
      PROVE  /\ O(c) = {i \in PendingFor(c) : SetsOutput(Pipeline[i])}
             /\ L(c) = {i \in PendingFor(c) : SetsLevel(Pipeline[i])}
             /\ O(c) \in SUBSET (1 .. n) /\ L(c) \in SUBSET (1 .. n)
             /\ On(c) \in SUBSET (1 .. n)
  <2>1. \A i \in DOMAIN Pipeline : SetsLevel(Pipeline[i])
          => SetsOutput(Pipeline[i])
    BY DEF SetsLevel, SetsOutput
  <2>. QED
    BY <1>3, <2>1 DEF OutputsOf, LevelSetters, OnSetters, PendingFor
<1>5. MemoMatchesPipeline
  <2> SUFFICES ASSUME NEW c \in Channels \ lost, queued[c].output # -1
               PROVE  /\ queued[c].output = IF OutputToCome(c) THEN 1 ELSE 0
                      /\ queued[c].level = LevelToCome(c)
    BY DEF MemoMatchesPipeline
  <2>1. MemoRight(O(c), Pipeline, chan[c], queued[c])
          /\ MemoShaped(O(c), queued[c])
    BY <1>2 DEF InLine
  <2>2. queued[c].output \in {0, 1}
    <3>1. MemoOff.output = 0 /\ \A level : MemoOn(level).output = 1
      BY DEF MemoOff, MemoOn
    <3>. QED
      BY <2>1, <3>1 DEF MemoShaped
  <2>3. OutputToCome(c) <=> queued[c].output = 1
    <3>0. OutputToCome(c) = IF O(c) = {} THEN chan[c].output_on
            ELSE OutputOf(Pipeline[LastOf(O(c))])
      BY <1>4, Zenon DEF OutputToCome
    <3>1. CASE O(c) = {}
      BY <2>1, <3>0, <3>1 DEF MemoRight
    <3>2. CASE O(c) # {}
      <4>1. LastOf(O(c)) \in O(c) /\ Ends(O(c), LastOf(O(c)))
        BY <1>4, <3>2, LastOfPlaces
      <4>2. OutputOf(Pipeline[LastOf(O(c))]) <=> queued[c].output = 1
        BY <2>1, <4>1 DEF MemoRight
      <4>. QED
        BY <3>0, <3>2, <4>2
    <3>. QED
      BY <3>1, <3>2
  <2>4. LevelToCome(c) = queued[c].level
    <3>0. LevelToCome(c) = IF L(c) = {} THEN chan[c].level
            ELSE Pipeline[LastOf(L(c))].level
      BY <1>4, Zenon DEF LevelToCome
    <3>1. CASE L(c) = {}
      BY <2>1, <3>0, <3>1 DEF MemoRight
    <3>2. CASE L(c) # {}
      <4>1. LastOf(L(c)) \in L(c) /\ Ends(L(c), LastOf(L(c)))
        BY <1>4, <3>2, LastOfPlaces
      <4>2. Pipeline[LastOf(L(c))].level = queued[c].level
        BY <2>1, <4>1 DEF MemoRight
      <4>. QED
        BY <3>0, <3>2, <4>2
    <3>. QED
      BY <3>1, <3>2
  <2>. QED
    BY <2>2, <2>3, <2>4
<1>6. NoRepeatedCommand
  <2> SUFFICES ASSUME NEW c \in Channels \ lost, NEW i \in PendingFor(c),
                      NEW j \in PendingFor(c),
                      i < j, SetsLevel(Pipeline[i]), SetsLevel(Pipeline[j]),
                      \A k \in PendingFor(c) : i < k /\ k < j
                        => ~SetsOutput(Pipeline[k])
               PROVE  Pipeline[i].level # Pipeline[j].level
    BY DEF NoRepeatedCommand
  <2>1. NoneRepeats(O(c), Pipeline)
    BY <1>2 DEF InLine
  <2>2. i \in L(c) /\ j \in L(c) /\ Adjacent(O(c), i, j)
    BY <1>4 DEF Adjacent
  <2>. QED
    BY <2>1, <2>2 DEF NoneRepeats
<1>7. RadioFollowsChannel
  BY <1>1 DEF InOrder, RadioRight, RadioFollowsChannel, Arrived
<1>8. SavedIsShownOrUnderWay
  <2> SUFFICES ASSUME NEW c \in Channels \ lost, SavedLevel(c) # chan[c].level
               PROVE  \E i \in PendingFor(c) :
                        SetsLevel(Pipeline[i])
                          /\ Pipeline[i].level = SavedLevel(c)
    BY DEF SavedIsShownOrUnderWay
  <2>1. /\ WellFormed(O(c), Pipeline) /\ LastLevelAsked(O(c), Pipeline, chan[c])
        /\ LevelFollows(O(c), Pipeline, chan[c])
    BY <1>2 DEF InLine
  <2>2. chan[c].output_on /\ SavedLevel(c) = chan[c].last_level
    BY <2>1 DEF LevelFollows, SavedLevel
  <2>3. CASE On(c) = {}
    <3>1. chan[c].level = LEVEL_OFF
      BY <2>1, <2>2, <2>3 DEF LastLevelAsked
    <3>2. PICK j \in O(c) : Pipeline[j].kind = "level"
      BY <2>1, <2>2, <3>1 DEF LevelFollows
    <3>3. j \in On(c)
      BY <2>1, <3>2, OnIsNotOff DEF WellFormed, OnSetters, LevelSetters, SetsLevel
    <3>. QED
      BY <2>3, <3>3
  <2>4. CASE On(c) # {}
    <3>1. PICK i \in On(c) : Ends(On(c), i)
      BY <1>4, <2>4, LastExists
    <3>2. i \in L(c) /\ Pipeline[i].level = SavedLevel(c)
      BY <2>1, <2>2, <3>1 DEF LastLevelAsked, OnSetters
    <3>. QED
      BY <1>4, <3>2
  <2>. QED
    BY <2>3, <2>4
<1>. QED
  BY <1>5, <1>6, <1>7, <1>8

LEMMA StepKeepsOrder ==
  ASSUME TypeOK, InOrder(Rack), [Next]_chanVars
  PROVE  InOrder(Rack)'
<1>1. Rack \in RackType /\ connected \in BOOLEAN
  BY TypeOfRack
<1>2. Rack.inflight = inflight /\ Rack.queue = queue
  BY DEF Rack
<1>3. ASSUME NEW c \in Channels, channel_turn_output_on(c) PROVE InOrder(Rack)'
  BY <1>1, <1>3, TurnOnType, TurnOnKeepsOrder,
     SetRackOrder DEF channel_turn_output_on
<1>4. ASSUME NEW c \in Channels, channel_turn_output_off(c) PROVE InOrder(Rack)'
  BY <1>1, <1>4, TurnOffType, TurnOffKeepsOrder,
     SetRackOrder DEF channel_turn_output_off
<1>5. ASSUME NEW c \in Channels, NEW level \in Levels, channel_set_level(c, level)
      PROVE  InOrder(Rack)'
  BY <1>1, <1>5, SetLevelType, SetLevelKeepsOrder,
     SetRackOrder DEF channel_set_level
<1>6. ASSUME NEW c \in Channels, NEW mode \in Modes, channel_set_mode(c, mode)
      PROVE  InOrder(Rack)'
  BY <1>1, <1>6, SetModeType, SetModeKeepsOrder, SetRackOrder DEF channel_set_mode
<1>7. CASE PollSettle
  BY <1>1, <1>2, <1>7, SettleType, SettleKeepsOrder, SetRackOrder DEF PollSettle
<1>8. CASE PollSend
  BY <1>1, <1>2, <1>8, SendType, SendKeepsOrder, SetRackOrder DEF PollSend
<1>9. CASE LinkChange \/ UNCHANGED chanVars
  <2>1. Rack' = Rack
    BY <1>9 DEF LinkChange, chanVars, rackVars, Rack
  <2>. QED
    BY <2>1
<1>. QED
  BY <1>3, <1>4, <1>5, <1>6, <1>7, <1>8, <1>9 DEF Next, Call

(* The inductive invariant holds of every rack the calls can produce.        *)
THEOREM RackStaysInOrder == Spec => []InOrder(Rack)
<1>1. Init => InOrder(Rack)
  BY RackInitInOrder DEF Init
<1>2. TypeOK /\ InOrder(Rack) /\ [Next]_chanVars => InOrder(Rack)'
  BY StepKeepsOrder
<1>. QED
  BY <1>1, <1>2, TypeCorrect, PTL DEF Spec

(* A repeated call is skipped only when it may be: however many requests of  *)
(* however many channels wait, the memo of a channel names the output and    *)
(* the level that its pending requests end with.                             *)
THEOREM MemoIsRight == Spec => []MemoMatchesPipeline
  BY OrderIsSafe, TypeCorrect, RackStaysInOrder, PTL

(* No call asks again for what the pending request before it asked for, for  *)
(* any queue capacity and any interleaving of calls and polls.               *)
THEOREM NothingIsRepeated == Spec => []NoRepeatedCommand
  BY OrderIsSafe, TypeCorrect, RackStaysInOrder, PTL

(* The panel shows what the amplifier does, for any number of channels: the  *)
(* level command that sets output_on without a switch frame never shows a    *)
(* channel on whose amplifier is off.                                        *)
THEOREM PanelIsHonest == Spec => []RadioFollowsChannel
  BY OrderIsSafe, TypeCorrect, RackStaysInOrder, PTL

(* A configuration saved at any moment names a level that its channel is     *)
(* shown at or on its way to.                                                *)
THEOREM SavedIsHonest == Spec => []SavedIsShownOrUnderWay
  BY OrderIsSafe, TypeCorrect, RackStaysInOrder, PTL
=============================================================================
