--------------------------- MODULE ConsoleProofs ---------------------------
(***************************************************************************)
(* Theorems about Console for every number of channels, queue capacity and *)
(* retry period, with their proofs.                                        *)
(*                                                                         *)
(* Those about the kill switch rest on one observation: which channels are *)
(* last asked to go on is written by the calls alone, whatever happens to  *)
(* the queue.  So what a handler does to the memo can be read off its      *)
(* calls, and the kill switch's promise needs neither the queue nor its    *)
(* capacity.                                                               *)
(*                                                                         *)
(* Those about the rack show that every handler keeps it Sound, of the     *)
(* right type and in order (ChannelsProofs).  A handler that loops over    *)
(* the channels offers one sequence of requests; by induction on the       *)
(* number of channels, what it asks of a channel stands together in it     *)
(* (LoopAsks), and that is all OfferKeepsOrder needs.                      *)
(***************************************************************************)
EXTENDS Console, ChannelsProofs

LOCAL INSTANCE SequencesExt

Fields == {"queue", "inflight", "chan", "queued", "radio", "heard", "lost"}

IsRack(r) == DOMAIN r = Fields

LEMMA RackIsRack == IsRack(Rack) /\ Rack.queued = queued
  BY DEF IsRack, Rack, Fields

LEMMA OfferMemo ==
  ASSUME NEW r, IsRack(r), NEW reqs
  PROVE  IsRack(Offer(r, reqs)) /\ Offer(r, reqs).queued = r.queued
  BY DEF Offer, IsRack, Fields

(* What each call leaves in the memo. *)
LEMMA TurnOnMemo ==
  ASSUME NEW r, IsRack(r), NEW c
  PROVE  TurnOn(r, c).queued = [r.queued EXCEPT ![c] = MemoOn(r.chan[c].last_level)]
<1> DEFINE offered == Offer(r, OnRequests(r, c))
<1>1. IsRack(offered) /\ offered.queued = r.queued
  BY OfferMemo
<1> HIDE DEF offered
<1>2. [offered EXCEPT !.queued[c] = MemoOn(r.chan[c].last_level)].queued
        = [r.queued EXCEPT ![c] = MemoOn(r.chan[c].last_level)]
  BY <1>1 DEF IsRack, Fields
<1>. QED
  BY <1>2 DEF TurnOn, offered

LEMMA TurnOffMemo ==
  ASSUME NEW r, IsRack(r), NEW c
  PROVE  TurnOff(r, c).queued = [r.queued EXCEPT ![c] = MemoOff]
<1> DEFINE offered == Offer(r, OffRequests(r, c))
<1>1. IsRack(offered) /\ offered.queued = r.queued
  BY OfferMemo
<1> HIDE DEF offered
<1>2. [offered EXCEPT !.queued[c] = MemoOff].queued = [r.queued EXCEPT ![c] = MemoOff]
  BY <1>1 DEF IsRack, Fields
<1>. QED
  BY <1>2 DEF TurnOff, offered

LEMMA SetLevelMemo ==
  ASSUME NEW r, IsRack(r), NEW c, NEW level
  PROVE  SetLevel(r, c, level).queued
           = [r.queued EXCEPT ![c] = IF level = LEVEL_OFF THEN MemoOff ELSE MemoOn(level)]
<1>1. CASE level = LEVEL_OFF
  BY <1>1, TurnOffMemo DEF SetLevel
<1>2. CASE level # LEVEL_OFF
  <2> DEFINE offered == Offer(r, LevelRequests(r, c, level))
  <2>1. IsRack(offered) /\ offered.queued = r.queued
    BY OfferMemo
  <2> HIDE DEF offered
  <2>2. [offered EXCEPT !.chan[c].last_level = level, !.queued[c] = MemoOn(level)].queued
          = [r.queued EXCEPT ![c] = MemoOn(level)]
    BY <2>1 DEF IsRack, Fields
  <2>. QED
    BY <1>2, <2>2 DEF SetLevel, offered
<1>. QED
  BY <1>1, <1>2

(* What each loop over the channels leaves in the memo. *)
LEMMA ApplyLevelsMemo ==
  ASSUME NEW r, IsRack(r), NEW want
  PROVE  ApplyLevels(r, want).queued =
           [c \in Channels |-> CASE want[c] = LeaveAlone -> r.queued[c]
                                 [] want[c] = LEVEL_OFF  -> MemoOff
                                 [] OTHER                -> MemoOn(want[c])]
<1> DEFINE calls == [c \in Channels |-> LevelCalls(r, c, want[c])]
           offered == Offer(r, EachInTurn(calls))
           memo == [c \in Channels |-> CASE want[c] = LeaveAlone -> r.queued[c]
                                         [] want[c] = LEVEL_OFF  -> MemoOff
                                         [] OTHER                -> MemoOn(want[c])]
           ch == [c \in Channels |->
                    IF want[c] \in OnLevels
                    THEN [offered.chan[c] EXCEPT !.last_level = want[c]]
                    ELSE offered.chan[c]]
<1>1. IsRack(offered)
  BY OfferMemo
<1>2. ApplyLevels(r, want) = [offered EXCEPT !.chan = ch, !.queued = memo]
  BY DEF ApplyLevels
<1> HIDE DEF offered, ch, memo
<1>3. [offered EXCEPT !.chan = ch, !.queued = memo].queued = memo
  BY <1>1 DEF IsRack, Fields
<1>. QED
  BY <1>2, <1>3 DEF memo

LEMMA TurnOffAllMemo ==
  ASSUME NEW r, IsRack(r), NEW S
  PROVE  TurnOffAll(r, S).queued =
           [c \in Channels |-> IF c \in S THEN MemoOff ELSE r.queued[c]]
<1> DEFINE want == [c \in Channels |-> IF c \in S THEN LEVEL_OFF ELSE LeaveAlone]
<1>1. ApplyLevels(r, want).queued =
           [c \in Channels |-> CASE want[c] = LeaveAlone -> r.queued[c]
                                 [] want[c] = LEVEL_OFF  -> MemoOff
                                 [] OTHER                -> MemoOn(want[c])]
  BY ApplyLevelsMemo
<1>2. ASSUME NEW c \in Channels
      PROVE  (CASE want[c] = LeaveAlone -> r.queued[c]
                [] want[c] = LEVEL_OFF  -> MemoOff
                [] OTHER                -> MemoOn(want[c]))
             = IF c \in S THEN MemoOff ELSE r.queued[c]
  BY DEF LeaveAlone, LEVEL_OFF
<1>. QED
  BY <1>1, <1>2 DEF TurnOffAll

LEMMA TurnOnAllMemo ==
  ASSUME NEW r, IsRack(r), NEW S
  PROVE  TurnOnAll(r, S).queued = RememberOn(r, S)
<1> DEFINE calls == [c \in Channels |-> IF c \in S THEN OnRequests(r, c) ELSE <<>>]
           offered == Offer(r, EachInTurn(calls))
<1>1. IsRack(offered)
  BY OfferMemo
<1>2. TurnOnAll(r, S) = [offered EXCEPT !.queued = RememberOn(r, S)]
  BY DEF TurnOnAll
<1> HIDE DEF offered
<1>. QED
  BY <1>1, <1>2 DEF IsRack, Fields

LEMMA ResetToDefaultMemo ==
  ASSUME NEW r, IsRack(r), NEW S
  PROVE  /\ IsRack(ResetToDefault(r, S))
         /\ ResetToDefault(r, S).queued = RememberOn(r, S)
<1> DEFINE calls == [c \in Channels |->
                       ModeRequests(r, c, WhiteNoise)
                         \o (IF c \in S THEN OnRequests(r, c) ELSE <<>>)]
           offered == Offer(r, EachInTurn(calls))
<1>1. IsRack(offered)
  BY OfferMemo
<1>2. ResetToDefault(r, S) = [offered EXCEPT !.queued = RememberOn(r, S)]
  BY DEF ResetToDefault
<1> HIDE DEF offered
<1>. QED
  BY <1>1, <1>2 DEF IsRack, Fields

LEMMA PollMemo ==
  ASSUME NEW r, IsRack(r), NEW ripe, NEW up
  PROVE  IsRack(Poll(r, ripe, up)) /\ Poll(r, ripe, up).queued = r.queued
<1>1. IsRack(Settle(r)) /\ Settle(r).queued = r.queued
  BY DEF Settle, IsRack, Fields
<1>2. IsRack(Send(r, up)) /\ Send(r, up).queued = r.queued
  BY DEF Send, IsRack, Fields
<1>. QED
  BY <1>1, <1>2 DEF Poll

-----------------------------------------------------------------------------
(* The inductive invariant: TrippedHeldOff, and what keeps it meaningful.    *)
HeldInv ==
  /\ DOMAIN queued = Channels
  /\ tripped \subseteq Channels
  /\ TrippedHeldOff

LEMMA HeldInvByMemo ==
  ASSUME NEW r, IsRack(r), SetRack(r),
         DOMAIN r.queued = Channels, tripped' \subseteq Channels,
         \A c \in tripped' : r.queued[c].output = 0
  PROVE  HeldInv'
  BY DEF SetRack, HeldInv, TrippedHeldOff

(* A call for one channel: off, or on for a channel that is not tripped.     *)
LEMMA OneMemoHeld ==
  ASSUME HeldInv, UNCHANGED tripped, NEW c, NEW memo,
         c \in tripped => memo.output = 0,
         queued' = [queued EXCEPT ![c] = memo]
  PROVE  HeldInv'
  BY DEF HeldInv, TrippedHeldOff

LEMMA SetRackMemo ==
  ASSUME NEW r, SetRack(r)
  PROVE  queued' = r.queued
  BY DEF SetRack

LEMMA ConnectedChangedMemo ==
  ASSUME HeldInv, NEW up
  PROVE  LET r == OnConnectedChanged(Rack, up) IN
         /\ IsRack(r)
         /\ DOMAIN r.queued = Channels
         /\ \A c \in tripped : r.queued[c].output = 0
<1>1. /\ IsRack(ResetToDefault(Rack, Untripped))
      /\ ResetToDefault(Rack, Untripped).queued = RememberOn(Rack, Untripped)
  BY RackIsRack, ResetToDefaultMemo
<1>2. \A c \in tripped : RememberOn(Rack, Untripped)[c] = queued[c]
  BY RackIsRack DEF RememberOn, Untripped, HeldInv
<1>3. DOMAIN RememberOn(Rack, Untripped) = Channels
  BY DEF RememberOn
<1>. QED
  BY <1>1, <1>2, <1>3, RackIsRack DEF OnConnectedChanged, HeldInv, TrippedHeldOff

LEMMA TickHeld ==
  ASSUME HeldInv, NEW ripe, NEW hot \in BOOLEAN, Tick(ripe, hot)
  PROVE  HeldInv'
<1>1. PICK up, count :
        LET asked == OnConnectedChanged(Rack, up /\ ~connected)
            sent  == Poll(asked, ripe, up)
        IN /\ SetRack(IF hot THEN TripAll(sent) ELSE sent)
           /\ tripped' = IF hot THEN Channels ELSE tripped
  BY DEF Tick
<1> DEFINE asked == OnConnectedChanged(Rack, up /\ ~connected)
           sent == Poll(asked, ripe, up)
<1>2. /\ IsRack(asked)
      /\ DOMAIN asked.queued = Channels
      /\ \A c \in tripped : asked.queued[c].output = 0
  BY ConnectedChangedMemo
<1> HIDE DEF asked
<1>3. IsRack(sent) /\ sent.queued = asked.queued
  BY <1>2, PollMemo
<1>4. SetRack(IF hot THEN TripAll(sent) ELSE sent)
  BY <1>1 DEF asked
<1> HIDE DEF sent
<1>5. CASE hot
  <2>1. queued' = [c \in Channels |-> IF c \in Untripped THEN MemoOff ELSE sent.queued[c]]
    <3>1. queued' = TurnOffAll(sent, Untripped).queued
      BY <1>4, <1>5, SetRackMemo DEF TripAll
    <3>. QED
      BY <1>3, <3>1, TurnOffAllMemo
  <2>2. \A c \in Channels : queued'[c].output = 0
    BY <1>2, <1>3, <2>1 DEF MemoOff, Untripped
  <2>. QED
    BY <1>1, <1>5, <2>1, <2>2 DEF HeldInv, TrippedHeldOff
<1>6. CASE ~hot
  <2>1. queued' = sent.queued
    BY <1>4, <1>6, SetRackMemo
  <2>. QED
    BY <1>1, <1>2, <1>3, <1>6, <2>1 DEF HeldInv, TrippedHeldOff
<1>. QED
  BY <1>5, <1>6

LEMMA ApplyLevelsHeld ==
  ASSUME HeldInv, NEW want, SetRack(ApplyLevels(Rack, want)), UNCHANGED tripped,
         \A c \in tripped : want[c] \in {LeaveAlone, LEVEL_OFF}
  PROVE  HeldInv'
<1>1. queued' = [c \in Channels |-> CASE want[c] = LeaveAlone -> queued[c]
                                      [] want[c] = LEVEL_OFF  -> MemoOff
                                      [] OTHER                -> MemoOn(want[c])]
  <2>1. queued' = ApplyLevels(Rack, want).queued
    BY SetRackMemo
  <2>2. ApplyLevels(Rack, want).queued
          = [c \in Channels |-> CASE want[c] = LeaveAlone -> Rack.queued[c]
                                   [] want[c] = LEVEL_OFF  -> MemoOff
                                   [] OTHER                -> MemoOn(want[c])]
    BY ApplyLevelsMemo, RackIsRack
  <2>. QED
    BY <2>1, <2>2, RackIsRack
<1>2. \A c \in tripped : queued'[c] = queued[c] \/ queued'[c] = MemoOff
  BY <1>1 DEF HeldInv, LeaveAlone, LEVEL_OFF
<1>3. DOMAIN queued' = Channels
  BY <1>1
<1>. QED
  BY <1>2, <1>3 DEF HeldInv, TrippedHeldOff, MemoOff

LEMMA RememberOnHeld ==
  ASSUME HeldInv, NEW S, S \cap tripped = {}, UNCHANGED tripped,
         queued' = RememberOn(Rack, S)
  PROVE  HeldInv'
<1>1. \A c \in tripped : queued'[c] = queued[c]
  BY RackIsRack DEF RememberOn, HeldInv
<1>2. DOMAIN queued' = Channels
  BY DEF RememberOn
<1>. QED
  BY <1>1, <1>2 DEF HeldInv, TrippedHeldOff

LEMMA ClickHeld ==
  ASSUME HeldInv, Click
  PROVE  HeldInv'
<1>1. CASE ConnectClicked
  <2>1. PICK up : SetRack(OnConnectedChanged(Rack, up))
    BY <1>1 DEF ConnectClicked
  <2>2. UNCHANGED tripped
    BY <1>1 DEF ConnectClicked
  <2>. QED
    BY <2>1, <2>2, ConnectedChangedMemo, SetRackMemo DEF HeldInv, TrippedHeldOff
<1>2. ASSUME NEW c \in Channels, OnButton(c) PROVE HeldInv'
  <2>1. /\ UNCHANGED tripped
        /\ queued' = [queued EXCEPT ![c] = MemoOn(Rack.chan[c].last_level)]
    <3>1. UNCHANGED tripped /\ queued' = TurnOn(Rack, c).queued
      BY <1>2, SetRackMemo DEF OnButton, Command
    <3>2. TurnOn(Rack, c).queued = [Rack.queued EXCEPT ![c] = MemoOn(Rack.chan[c].last_level)]
      BY TurnOnMemo, RackIsRack
    <3>. QED
      BY <3>1, <3>2, RackIsRack
  <2>2. c \notin tripped
    BY <1>2 DEF OnButton
  <2>. QED
    BY <2>1, <2>2, OneMemoHeld
<1>3. ASSUME NEW c \in Channels, OffButton(c) PROVE HeldInv'
  <2>1. UNCHANGED tripped /\ queued' = [queued EXCEPT ![c] = MemoOff]
    BY <1>3, TurnOffMemo, RackIsRack, SetRackMemo DEF OffButton, Command
  <2>. QED
    BY <2>1, OneMemoHeld DEF MemoOff
<1>4. ASSUME NEW c \in Channels, NEW level \in Levels, GaugeClick(c, level) PROVE HeldInv'
  <2> DEFINE memo == IF level = LEVEL_OFF THEN MemoOff ELSE MemoOn(level)
  <2>1. UNCHANGED tripped /\ queued' = [queued EXCEPT ![c] = memo]
    <3>1. UNCHANGED tripped /\ queued' = SetLevel(Rack, c, level).queued
      BY <1>4, SetRackMemo DEF GaugeClick, Command
    <3>2. SetLevel(Rack, c, level).queued = [Rack.queued EXCEPT ![c] = memo]
      BY SetLevelMemo, RackIsRack
    <3>. QED
      BY <3>1, <3>2, RackIsRack
  <2>2. c \in tripped => memo.output = 0
    BY <1>4 DEF GaugeClick, MemoOff
  <2>. QED
    BY <2>1, <2>2, OneMemoHeld
<1>5. ASSUME NEW c \in Channels, KillReset(c) PROVE HeldInv'
  BY <1>5 DEF KillReset, HeldInv, TrippedHeldOff, chanVars, rackVars
<1>6. ASSUME NEW S \in SUBSET Channels, BulkOn(S) PROVE HeldInv'
  BY <1>6, TurnOnAllMemo, RackIsRack, SetRackMemo, RememberOnHeld DEF BulkOn, Command
<1>7. ASSUME NEW S \in SUBSET Channels, BulkOff(S) PROVE HeldInv'
  BY <1>7, ApplyLevelsHeld DEF BulkOff, TurnOffAll, Command, HeldInv
<1>8. ASSUME NEW S \in SUBSET Channels, NEW level \in Levels, BulkLevel(S, level)
      PROVE  HeldInv'
  BY <1>8, ApplyLevelsHeld DEF BulkLevel, Command, HeldInv
<1>9. CASE CloseAll
  BY <1>9, ApplyLevelsHeld DEF CloseAll, TurnOffAll, Command, HeldInv
<1>10. CASE OpenAll
  BY <1>10, TurnOnAllMemo, RackIsRack, SetRackMemo, RememberOnHeld
  DEF OpenAll, Command, Untripped
<1>11. CASE ResetClicked
  BY <1>11, ResetToDefaultMemo, RackIsRack, SetRackMemo, RememberOnHeld
  DEF ResetClicked, Command, Untripped
<1>12. ASSUME NEW file \in [Channels -> Levels], LoadConfig(file) PROVE HeldInv'
  BY <1>12, ApplyLevelsHeld DEF LoadConfig, Command, HeldInv
<1>13. ASSUME NEW choice \in {"turned off", "kept running"}, CloseWindow(choice)
       PROVE  HeldInv'
  <2>1. UNCHANGED tripped
    BY <1>13 DEF CloseWindow
  <2>2. CASE choice = "turned off"
    <3> DEFINE want == [c \in Channels |-> IF c \in Channels THEN LEVEL_OFF ELSE LeaveAlone]
    <3>1. SetRack(ApplyLevels(Rack, want))
      BY <1>13, <2>2 DEF CloseWindow, TurnOffAll
    <3>2. \A c \in tripped : want[c] = LEVEL_OFF
      BY DEF HeldInv
    <3> HIDE DEF want
    <3>. QED
      BY <2>1, <3>1, <3>2, ApplyLevelsHeld
  <2>3. CASE choice # "turned off"
    BY <1>13, <2>1, <2>3, RackIsRack, SetRackMemo
    DEF CloseWindow, HeldInv, TrippedHeldOff
  <2>. QED
    BY <2>2, <2>3
<1>. QED
  BY <1>1, <1>2, <1>3, <1>4, <1>5, <1>6, <1>7, <1>8, <1>9, <1>10, <1>11, <1>12, <1>13
  DEF Click

(* The kill switch holds: for any number of channels and any queue capacity, *)
(* no click, loaded file, reconnection or timer tick leaves an ON-type       *)
(* command as the last thing asked of a channel that is tripped.             *)
THEOREM KillSwitchHolds == ConsoleSpec => []TrippedHeldOff
<1>1. ConsoleInit => HeldInv
  BY DEF ConsoleInit, RackInit, HeldInv, TrippedHeldOff
<1>2. HeldInv /\ [ConsoleNext]_consoleVars => HeldInv'
  <2> SUFFICES ASSUME HeldInv, [ConsoleNext]_consoleVars PROVE HeldInv'
    OBVIOUS
  <2>1. CASE Click
    BY <2>1, ClickHeld
  <2>2. ASSUME NEW ripe \in BOOLEAN, NEW hot \in BOOLEAN, Tick(ripe, hot) PROVE HeldInv'
    BY <2>2, TickHeld
  <2>3. CASE PlugChange
    BY <2>3 DEF PlugChange, HeldInv, TrippedHeldOff, chanVars, rackVars
  <2>4. CASE UNCHANGED consoleVars
    BY <2>4 DEF HeldInv, TrippedHeldOff, consoleVars, chanVars, rackVars
  <2>. QED
    BY <2>1, <2>2, <2>3, <2>4 DEF ConsoleNext
<1>3. HeldInv => TrippedHeldOff
  BY DEF HeldInv
<1>. QED
  BY <1>1, <1>2, <1>3, PTL DEF ConsoleSpec

(* Only the first connection powers the rack on: a later one, by a click or  *)
(* by the retry, asks no channel to go on, for any number of channels.       *)
THEOREM ReconnectsSilently == ConsoleSpec => ReconnectIsSilent
<1> DEFINE Silent == ~connected /\ connected' /\ launched =>
                       \A c \in Channels : queued'[c].output = 1 => queued[c].output = 1
<1>1. ConsoleNext => Silent
  <2> SUFFICES ASSUME ConsoleNext, ~connected, connected', launched,
                      NEW d \in Channels, queued'[d].output = 1
               PROVE  queued[d].output = 1
    OBVIOUS
  <2>1. CASE ConnectClicked
    <3>1. PICK up : SetRack(OnConnectedChanged(Rack, up))
      BY <2>1 DEF ConnectClicked
    <3>2. queued' = queued
      BY <3>1, SetRackMemo, RackIsRack DEF OnConnectedChanged
    <3>. QED
      BY <3>2
  <2>2. ASSUME NEW ripe \in BOOLEAN, NEW hot \in BOOLEAN, Tick(ripe, hot)
        PROVE  queued[d].output = 1
    <3>1. PICK up, count :
            LET sent == Poll(OnConnectedChanged(Rack, up /\ ~connected), ripe, up)
            IN  SetRack(IF hot THEN TripAll(sent) ELSE sent)
      BY <2>2 DEF Tick
    <3> DEFINE sent == Poll(OnConnectedChanged(Rack, up /\ ~connected), ripe, up)
    <3>2. IsRack(sent) /\ sent.queued = queued
      BY RackIsRack, PollMemo DEF OnConnectedChanged
    <3> HIDE DEF sent
    <3>3. SetRack(IF hot THEN TripAll(sent) ELSE sent)
      BY <3>1 DEF sent
    <3>4. CASE hot
      <4>1. queued' = TurnOffAll(sent, Untripped).queued
        BY <3>3, <3>4, SetRackMemo DEF TripAll
      <4>2. queued' = [c \in Channels |->
                         IF c \in Untripped THEN MemoOff ELSE sent.queued[c]]
        BY <3>2, <4>1, TurnOffAllMemo
      <4>3. queued'[d] = MemoOff \/ queued'[d] = queued[d]
        BY <3>2, <4>2
      <4>. QED
        BY <4>3 DEF MemoOff
    <3>5. CASE ~hot
      BY <3>2, <3>3, <3>5, SetRackMemo
    <3>. QED
      BY <3>4, <3>5
  <2>3. ASSUME NEW r, Command(r) PROVE FALSE
    BY <2>3 DEF Command
  <2>4. ASSUME NEW c \in Channels,
               \/ OnButton(c) \/ OffButton(c) \/ KillReset(c)
               \/ \E level \in Levels : GaugeClick(c, level)
        PROVE  FALSE
    BY <2>3, <2>4 DEF OnButton, OffButton, GaugeClick, KillReset, chanVars
  <2>5. ASSUME NEW S \in SUBSET Channels,
               BulkOn(S) \/ BulkOff(S) \/ \E level \in Levels : BulkLevel(S, level)
        PROVE  FALSE
    BY <2>3, <2>5 DEF BulkOn, BulkOff, BulkLevel
  <2>6. ASSUME CloseAll \/ OpenAll \/ ResetClicked
                 \/ \E file \in [Channels -> Levels] : LoadConfig(file)
        PROVE  FALSE
    BY <2>3, <2>6 DEF CloseAll, OpenAll, ResetClicked, LoadConfig
  <2>7. ASSUME NEW choice, CloseWindow(choice) PROVE FALSE
    BY <2>7 DEF CloseWindow
  <2>8. CASE PlugChange
    BY <2>8 DEF PlugChange, chanVars
  <2>. QED
    BY <2>1, <2>2, <2>4, <2>5, <2>6, <2>7, <2>8 DEF ConsoleNext, Click
<1>2. [ConsoleNext]_consoleVars => [Silent]_consoleVars
  BY <1>1
<1>. QED
  BY <1>2, PTL DEF ConsoleSpec, ReconnectIsSilent

-----------------------------------------------------------------------------
(* The loops.  First, the partial concatenations of n sequences. *)
Partial(f, n, g) ==
  g = [i \in 1 .. n |-> IF i = 1 THEN f[i] ELSE g[i - 1] \o f[i]]

LEMMA PartialExists ==
  ASSUME NEW f, NEW n \in Nat
  PROVE  \E g : Partial(f, n, g)
<1> DEFINE S == {k \in Nat : \E g : Partial(f, k, g)}
<1>1. 0 \in S
  <2>1. Partial(f, 0, [i \in 1 .. 0 |-> 0])
    BY DEF Partial
  <2>. QED
    BY <2>1
<1>2. ASSUME NEW k \in Nat, k \in S PROVE k + 1 \in S
  <2>1. PICK g : g = [i \in 1 .. k |-> IF i = 1 THEN f[i] ELSE g[i - 1] \o f[i]]
    BY <1>2 DEF Partial
  <2> DEFINE h == [i \in 1 .. (k + 1) |->
                     IF i = k + 1 THEN (IF i = 1 THEN f[i] ELSE g[k] \o f[i]) ELSE g[i]]
  <2>2. ASSUME NEW i \in 1 .. (k + 1)
        PROVE  h[i] = IF i = 1 THEN f[i] ELSE h[i - 1] \o f[i]
    <3>1. CASE i = k + 1
      <4>1. h[i] = IF i = 1 THEN f[i] ELSE g[k] \o f[i]
        BY <3>1
      <4>2. i # 1 => h[i - 1] = g[k]
        BY <3>1
      <4> HIDE DEF h
      <4>. QED
        BY <4>1, <4>2
    <3>2. CASE i # k + 1
      <4>1. i \in 1 .. k /\ h[i] = g[i]
        BY <3>2
      <4>2. i # 1 => h[i - 1] = g[i - 1]
        BY <4>1
      <4>3. g[i] = IF i = 1 THEN f[i] ELSE g[i - 1] \o f[i]
        BY <2>1, <4>1
      <4> HIDE DEF h
      <4>. QED
        BY <4>1, <4>2, <4>3
    <3>. QED
      BY <3>1, <3>2
  <2>3. h = [i \in 1 .. (k + 1) |-> h[i]]
    OBVIOUS
  <2> HIDE DEF h
  <2>4. h = [i \in 1 .. (k + 1) |-> IF i = 1 THEN f[i] ELSE h[i - 1] \o f[i]]
    BY <2>2, <2>3
  <2>5. Partial(f, k + 1, h)
    BY <2>4 DEF Partial
  <2>. QED
    BY <2>5
<1> HIDE DEF S
<1>3. Nat \subseteq S
  BY <1>1, <1>2, SetInduction
<1>. QED
  BY <1>3 DEF S

LEMMA EachInTurnIsPartial ==
  ASSUME NEW T, NEW f \in [Channels -> Seq(T)]
  PROVE  \E g : Partial(f, NumChannels, g) /\ EachInTurn(f) = g[NumChannels]
<1>1. NumChannels \in Nat \ {0} /\ Channels = 1 .. NumChannels
  BY ChannelsAssumption DEF Channels
<1>2. f \in Seq(Seq(T)) /\ Len(f) = NumChannels
  BY <1>1
<1> DEFINE g == CHOOSE g : g = [i \in 1 .. Len(f) |-> IF i = 1 THEN f[i] ELSE g[i - 1] \o f[i]]
<1>3. EachInTurn(f) = g[Len(f)]
  <2>1. Len(f) # 0
    BY <1>1, <1>2
  <2>. QED
    BY <2>1, Zenon DEF EachInTurn, FlattenSeq
<1>4. g = [i \in 1 .. Len(f) |-> IF i = 1 THEN f[i] ELSE g[i - 1] \o f[i]]
  <2>1. \E h : h = [i \in 1 .. Len(f) |-> IF i = 1 THEN f[i] ELSE h[i - 1] \o f[i]]
    BY <1>1, <1>2, PartialExists DEF Partial
  <2>. QED
    BY <2>1, Zenon
<1> HIDE DEF g
<1>5. Partial(f, Len(f), g)
  BY <1>4, Zenon DEF Partial
<1>. QED
  BY <1>2, <1>3, <1>5, Zenon

(* What stands together in s still does when requests of other channels      *)
(* follow.                                                                   *)
LEMMA ConcatAsks ==
  ASSUME NEW s \in Seq(Request), NEW t \in Seq(Request), NEW c
  PROVE  /\ \A u, b : /\ Len(u) \in Nat
                      /\ Asks(s, c, u, b)
                      /\ \A i \in 1 .. Len(t) : t[i].channel # c
                      => Asks(s \o t, c, u, b)
         /\ /\ \A i \in 1 .. Len(s) : s[i].channel # c
            /\ \A i \in 1 .. Len(t) : t[i].channel = c
            => Asks(s \o t, c, t, Len(s))
<1> DEFINE st == s \o t
<1>1. /\ Len(s) \in Nat /\ Len(t) \in Nat /\ Len(st) = Len(s) + Len(t)
      /\ \A i \in 1 .. Len(s) : st[i] = s[i]
      /\ \A i \in 1 .. Len(t) : st[Len(s) + i] = t[i]
  BY ConcatProperties
<1> HIDE DEF st
<1>2. \A i \in 1 .. Len(st) : i \in 1 .. Len(s)
        \/ (i - Len(s) \in 1 .. Len(t) /\ Len(s) + (i - Len(s)) = i)
  BY <1>1
<1>3. ASSUME NEW u, NEW b, Len(u) \in Nat, Asks(s, c, u, b),
             \A i \in 1 .. Len(t) : t[i].channel # c
      PROVE  Asks(st, c, u, b)
  <2>1. /\ b \in Nat /\ b + Len(u) <= Len(s)
        /\ \A i \in 1 .. Len(s) : s[i].channel = c <=> i \in (b + 1) .. (b + Len(u))
        /\ \A k \in 1 .. Len(u) : s[b + k] = u[k]
    BY <1>3 DEF Asks
  <2>2. ASSUME NEW i \in 1 .. Len(st)
        PROVE  st[i].channel = c <=> i \in (b + 1) .. (b + Len(u))
    <3>1. CASE i \in 1 .. Len(s)
      BY <1>1, <2>1, <3>1
    <3>2. CASE i - Len(s) \in 1 .. Len(t) /\ Len(s) + (i - Len(s)) = i
      <4>1. st[i].channel # c
        BY <1>1, <1>3, <3>2
      <4>2. i \notin (b + 1) .. (b + Len(u))
        BY <1>1, <1>3, <2>1, <3>2
      <4>. QED
        BY <4>1, <4>2
    <3>. QED
      BY <1>2, <3>1, <3>2
  <2>3. ASSUME NEW k \in 1 .. Len(u) PROVE st[b + k] = u[k]
    <3>1. b + k \in 1 .. Len(s)
      BY <1>1, <1>3, <2>1
    <3>. QED
      BY <1>1, <2>1, <3>1
  <2>4. b + Len(u) <= Len(st)
    BY <1>1, <1>3, <2>1
  <2>. QED
    BY <2>1, <2>2, <2>3, <2>4 DEF Asks
<1>4. ASSUME \A i \in 1 .. Len(s) : s[i].channel # c,
             \A i \in 1 .. Len(t) : t[i].channel = c
      PROVE  Asks(st, c, t, Len(s))
  <2>1. ASSUME NEW i \in 1 .. Len(st)
        PROVE  st[i].channel = c <=> i \in (Len(s) + 1) .. (Len(s) + Len(t))
    <3>1. CASE i \in 1 .. Len(s)
      BY <1>1, <1>4, <3>1
    <3>2. CASE i - Len(s) \in 1 .. Len(t) /\ Len(s) + (i - Len(s)) = i
      <4>1. st[i].channel = c
        <5>1. st[i] = t[i - Len(s)]
          BY <1>1, <3>2
        <5>2. t[i - Len(s)].channel = c
          BY <1>4, <3>2
        <5>. QED
          BY <5>1, <5>2
      <4>2. i \in (Len(s) + 1) .. (Len(s) + Len(t))
        BY <1>1, <3>2
      <4>. QED
        BY <4>1, <4>2
    <3>. QED
      BY <1>2, <3>1, <3>2
  <2>. QED
    BY <1>1, <2>1 DEF Asks
<1>. QED
  BY <1>3, <1>4 DEF st

(* What a loop queues for a channel stands together, in channel order. *)
LEMMA LoopAsks ==
  ASSUME NEW f \in [Channels -> Seq(Request)],
         \A c \in Channels : \A i \in 1 .. Len(f[c]) : f[c][i].channel = c
  PROVE  /\ EachInTurn(f) \in Seq(Request)
         /\ \A c \in Channels : \E b \in Nat : Asks(EachInTurn(f), c, f[c], b)
<1>1. NumChannels \in Nat \ {0} /\ Channels = 1 .. NumChannels
  BY ChannelsAssumption DEF Channels
<1>2. PICK g : Partial(f, NumChannels, g) /\ EachInTurn(f) = g[NumChannels]
  BY EachInTurnIsPartial
<1>3. \A k \in Channels : g[k] = IF k = 1 THEN f[k] ELSE g[k - 1] \o f[k]
  <2> SUFFICES ASSUME NEW k \in 1 .. NumChannels
               PROVE  g[k] = IF k = 1 THEN f[k] ELSE g[k - 1] \o f[k]
    BY <1>1
  <2>1. g = [i \in 1 .. NumChannels |-> IF i = 1 THEN f[i] ELSE g[i - 1] \o f[i]]
    BY <1>2 DEF Partial
  <2>2. [i \in 1 .. NumChannels |-> IF i = 1 THEN f[i] ELSE g[i - 1] \o f[i]][k]
          = IF k = 1 THEN f[k] ELSE g[k - 1] \o f[k]
    OBVIOUS
  <2>. QED
    BY <2>1, <2>2, Zenon
<1> DEFINE Good(k) == /\ g[k] \in Seq(Request)
                      /\ \A i \in 1 .. Len(g[k]) : g[k][i].channel \in 1 .. k
                      /\ \A c \in 1 .. k : \E b \in Nat : Asks(g[k], c, f[c], b)
           S == {k \in Nat : k \in Channels => Good(k)}
<1>4. 0 \in S
  BY <1>1
<1>5. ASSUME NEW k \in Nat, k \in S PROVE k + 1 \in S
  <2> SUFFICES ASSUME k + 1 \in Channels PROVE Good(k + 1)
    OBVIOUS
  <2>0. /\ f[k + 1] \in Seq(Request) /\ Len(f[k + 1]) \in Nat
        /\ \A i \in 1 .. Len(f[k + 1]) : f[k + 1][i].channel = k + 1
    OBVIOUS
  <2>1. CASE k = 0
    <3>1. g[k + 1] = f[k + 1]
      BY <1>3, <2>1
    <3>2. Asks(g[k + 1], k + 1, f[k + 1], 0)
      BY <2>0, <3>1, CallAsks
    <3>3. \A c \in 1 .. (k + 1) : c = k + 1
      BY <2>1
    <3>4. g[k + 1] \in Seq(Request)
            /\ \A i \in 1 .. Len(g[k + 1]) : g[k + 1][i].channel \in 1 .. (k + 1)
      BY <2>0, <3>1
    <3>5. \A c \in 1 .. (k + 1) : \E b \in Nat : Asks(g[k + 1], c, f[c], b)
      BY <3>2, <3>3, Zenon
    <3>. QED
      BY <3>4, <3>5
  <2>2. CASE k # 0
    <3>1. k \in Channels /\ (k + 1) - 1 = k
      BY <1>1, <2>2
    <3>2. Good(k)
      BY <1>5, <3>1
    <3>3. g[k + 1] = g[k] \o f[k + 1]
      <4>1. g[k + 1] = IF k + 1 = 1 THEN f[k + 1] ELSE g[(k + 1) - 1] \o f[k + 1]
        BY <1>3, Zenon
      <4>2. k + 1 # 1
        BY <2>2
      <4>. QED
        BY <3>1, <4>1, <4>2, Zenon
    <3> DEFINE s == g[k]
               t == f[k + 1]
    <3>4. /\ s \in Seq(Request) /\ t \in Seq(Request) /\ g[k + 1] = s \o t
          /\ \A i \in 1 .. Len(s) : s[i].channel \in 1 .. k
          /\ \A i \in 1 .. Len(t) : t[i].channel = k + 1
      BY <2>0, <3>2, <3>3
    <3>5. ASSUME NEW c \in 1 .. k PROVE \E b \in Nat : Asks(s \o t, c, f[c], b)
      <4>1. PICK b \in Nat : Asks(s, c, f[c], b)
        BY <3>2
      <4>2. \A i \in 1 .. Len(t) : t[i].channel # c
        BY <3>4
      <4>3. c \in Channels
        BY <1>1, <3>1
      <4>4. Len(f[c]) \in Nat
        BY <4>3
      <4> HIDE DEF s, t
      <4>5. Asks(s \o t, c, f[c], b)
        BY <3>4, <4>1, <4>2, <4>4, ConcatAsks
      <4>. QED
        BY <4>5
    <3>6. Asks(s \o t, k + 1, t, Len(s)) /\ Len(s) \in Nat
      <4>1. \A i \in 1 .. Len(s) : s[i].channel # k + 1
        BY <3>4
      <4>2. \A i \in 1 .. Len(t) : t[i].channel = k + 1
        BY <3>4
      <4>3. s \in Seq(Request) /\ t \in Seq(Request)
        BY <3>4
      <4> HIDE DEF s, t
      <4>4. Asks(s \o t, k + 1, t, Len(s))
        BY <4>1, <4>2, <4>3, ConcatAsks
      <4>. QED
        BY <4>3, <4>4
    <3>7. /\ s \o t \in Seq(Request)
          /\ \A i \in 1 .. Len(s \o t) : (s \o t)[i].channel \in 1 .. (k + 1)
      <4> HIDE DEF s, t
      <4>1. /\ s \o t \in Seq(Request) /\ Len(s \o t) = Len(s) + Len(t)
            /\ Len(s) \in Nat /\ Len(t) \in Nat
            /\ \A i \in 1 .. Len(s) : (s \o t)[i] = s[i]
            /\ \A i \in 1 .. Len(t) : (s \o t)[Len(s) + i] = t[i]
        BY <3>4, ConcatProperties
      <4> DEFINE st == s \o t
      <4> HIDE DEF st
      <4>2. ASSUME NEW i \in 1 .. Len(st) PROVE st[i].channel \in 1 .. (k + 1)
        <5>1. CASE i \in 1 .. Len(s)
          <6>1. st[i] = s[i]
            BY <4>1, <5>1 DEF st
          <6>2. s[i].channel \in 1 .. k
            BY <3>4, <5>1
          <6>. QED
            BY <6>1, <6>2
        <5>2. CASE i \notin 1 .. Len(s)
          <6>1. i - Len(s) \in 1 .. Len(t) /\ Len(s) + (i - Len(s)) = i
            BY <4>1, <5>2 DEF st
          <6>2. st[i] = t[i - Len(s)]
            BY <4>1, <6>1 DEF st
          <6>3. t[i - Len(s)].channel = k + 1
            BY <3>4, <6>1
          <6>. QED
            BY <6>2, <6>3
        <5>. QED
          BY <5>1, <5>2
      <4>. QED
        BY <4>1, <4>2 DEF st
    <3>8. \A c \in 1 .. (k + 1) : c \in 1 .. k \/ c = k + 1
      OBVIOUS
    <3>9. \A c \in 1 .. (k + 1) : \E b \in Nat : Asks(s \o t, c, f[c], b)
      BY <3>5, <3>6, <3>8
    <3> HIDE DEF s
    <3>. QED
      BY <3>4, <3>7, <3>9
  <2>. QED
    BY <2>1, <2>2
<1> HIDE DEF S
<1>6. Nat \subseteq S
  BY <1>4, <1>5, SetInduction
<1>7. Good(NumChannels)
  <2>1. NumChannels \in S /\ NumChannels \in Channels
    BY <1>1, <1>6
  <2>. QED
    BY <2>1 DEF S
<1>. QED
  BY <1>1, <1>2, <1>7

-----------------------------------------------------------------------------
(* A request for c waits. *)
Waits(r, c) == \E i \in 1 .. Len(r.queue) : r.queue[i].channel = c

(* What every call does to a rack as far as the cards go: nothing settles,   *)
(* and a channel becomes busy only by a request that waits.                  *)
Called(r, r2) ==
  /\ r2.inflight = r.inflight
  /\ \A c \in Channels :
       /\ r2.chan[c].output_on = r.chan[c].output_on
       /\ r.chan[c].busy => r2.chan[c].busy
       /\ Waits(r, c) => Waits(r2, c)
       /\ r2.chan[c].busy => r.chan[c].busy \/ Waits(r2, c)

LEMMA OfferCalls ==
  ASSUME NEW r \in RackType, NEW reqs \in Seq(Request), NEW r2,
         NEW new, new = Offer(r, reqs),
         r2.queue = new.queue, r2.inflight = r.inflight,
         \A c \in Channels : /\ r2.chan[c].output_on = new.chan[c].output_on
                             /\ r2.chan[c].busy = new.chan[c].busy
  PROVE  Called(r, r2)
<1> DEFINE taken == Taken(r, reqs)
           marked == [c \in Channels |->
              [r.chan[c] EXCEPT
                 !.busy = @ \/ \E i \in DOMAIN taken : taken[i].channel = c]]
<1>1. /\ new.queue = r.queue \o taken
      /\ taken \in Seq(Request)
      /\ r.queue \in Seq(Request)
      /\ \A c \in Channels : r.chan[c] \in Chan
  BY OfferType DEF RackType
<1>2. new.chan = marked
  <2>1. new = [r EXCEPT !.queue = r.queue \o taken, !.chan = marked,
                 !.lost = r.lost \cup
                    {reqs[i].channel : i \in (Len(taken) + 1) .. Len(reqs)}]
    BY DEF Offer, RackType
  <2> HIDE DEF marked, taken
  <2>. QED
    BY <2>1 DEF RackType
<1> HIDE DEF taken
<1>3. /\ Len(r.queue) \in Nat /\ Len(taken) \in Nat
      /\ Len(r2.queue) = Len(r.queue) + Len(taken)
      /\ \A i \in 1 .. Len(r.queue) : r2.queue[i] = r.queue[i]
      /\ \A i \in 1 .. Len(taken) : r2.queue[Len(r.queue) + i] = taken[i]
      /\ DOMAIN taken = 1 .. Len(taken)
  BY <1>1, ConcatProperties
<1>4. ASSUME NEW c \in Channels
      PROVE  /\ new.chan[c].output_on = r.chan[c].output_on
             /\ new.chan[c].busy <=> \/ r.chan[c].busy
                                     \/ \E i \in 1 .. Len(taken) : taken[i].channel = c
  <2> DEFINE b == r.chan[c].busy \/ \E i \in DOMAIN taken : taken[i].channel = c
  <2>1. new.chan[c] = [r.chan[c] EXCEPT !.busy = b]
    BY <1>2
  <2>2. r.chan[c] \in Chan
    BY <1>1
  <2>3. b <=> r.chan[c].busy \/ \E i \in 1 .. Len(taken) : taken[i].channel = c
    BY <1>3, Zenon
  <2> HIDE DEF b
  <2>4. new.chan[c].output_on = r.chan[c].output_on /\ new.chan[c].busy = b
    BY <2>1, <2>2 DEF Chan
  <2>. QED
    BY <2>3, <2>4, Zenon
<1>5. ASSUME NEW c \in Channels, NEW i \in 1 .. Len(r.queue), r.queue[i].channel = c
      PROVE  Waits(r2, c)
  <2>1. i \in 1 .. Len(r2.queue) /\ r2.queue[i] = r.queue[i]
    BY <1>3
  <2>. QED
    BY <1>5, <2>1 DEF Waits
<1>6. ASSUME NEW c \in Channels, NEW i \in 1 .. Len(taken), taken[i].channel = c
      PROVE  Waits(r2, c)
  <2>1. Len(r.queue) + i \in 1 .. Len(r2.queue)
    BY <1>3
  <2>. QED
    BY <1>3, <1>6, <2>1 DEF Waits
<1>7. ASSUME NEW c \in Channels
      PROVE  /\ r2.chan[c].output_on = r.chan[c].output_on
             /\ r.chan[c].busy => r2.chan[c].busy
             /\ r2.chan[c].busy => r.chan[c].busy \/ Waits(r2, c)
  <2>1. r2.chan[c].output_on = r.chan[c].output_on
    BY <1>4
  <2>2. r2.chan[c].busy <=> \/ r.chan[c].busy
                           \/ \E i \in 1 .. Len(taken) : taken[i].channel = c
    BY <1>4
  <2>. QED
    BY <1>6, <2>1, <2>2
<1>8. r2.inflight = r.inflight
  BY OfferType, <1>1 DEF RackType
<1>9. ASSUME NEW c \in Channels, Waits(r, c) PROVE Waits(r2, c)
  BY <1>5, <1>9 DEF Waits
<1>. QED
  BY <1>7, <1>8, <1>9 DEF Called

LEMMA CalledChain ==
  ASSUME NEW r, NEW r2, NEW r3, Called(r, r2), Called(r2, r3)
  PROVE  Called(r, r3)
  BY DEF Called

LEMMA CalledNothing ==
  ASSUME NEW r
  PROVE  Called(r, r)
  BY DEF Called

(* Each call, and each loop of calls. *)
LEMMA TurnOnCalls ==
  ASSUME NEW r \in RackType, NEW c \in Channels
  PROVE  Called(r, TurnOn(r, c))
<1>1. PICK new : new = Offer(r, OnRequests(r, c))
  OBVIOUS
<1> DEFINE r2 == [new EXCEPT !.queued[c] = MemoOn(r.chan[c].last_level)]
<1>2. OnRequests(r, c) \in Seq(Request) /\ new \in RackType /\ new.inflight = r.inflight
  BY <1>1, OnRequestsType, OfferType
<1>3. r2.queue = new.queue /\ r2.inflight = new.inflight /\ r2.chan = new.chan
  BY <1>2 DEF RackType
<1> HIDE DEF r2
<1>4. Called(r, r2)
  BY <1>1, <1>2, <1>3, OfferCalls
<1>. QED
  BY <1>1, <1>4 DEF TurnOn, r2

LEMMA TurnOffCalls ==
  ASSUME NEW r \in RackType, NEW c \in Channels
  PROVE  Called(r, TurnOff(r, c))
<1>1. PICK new : new = Offer(r, OffRequests(r, c))
  OBVIOUS
<1> DEFINE r2 == [new EXCEPT !.queued[c] = MemoOff]
<1>2. OffRequests(r, c) \in Seq(Request) /\ new \in RackType /\ new.inflight = r.inflight
  BY <1>1, OffRequestsType, OfferType
<1>3. r2.queue = new.queue /\ r2.inflight = new.inflight /\ r2.chan = new.chan
  BY <1>2 DEF RackType
<1> HIDE DEF r2
<1>4. Called(r, r2)
  BY <1>1, <1>2, <1>3, OfferCalls
<1>. QED
  BY <1>1, <1>4 DEF TurnOff, r2

LEMMA SetLevelCalls ==
  ASSUME NEW r \in RackType, NEW c \in Channels, NEW level \in Levels
  PROVE  Called(r, SetLevel(r, c, level))
<1>1. CASE level = LEVEL_OFF
  BY <1>1, TurnOffCalls DEF SetLevel
<1>2. CASE level # LEVEL_OFF
  <2>1. PICK new : new = Offer(r, LevelRequests(r, c, level))
    OBVIOUS
  <2> DEFINE ch == [new.chan EXCEPT ![c].last_level = level]
             memo == [new.queued EXCEPT ![c] = MemoOn(level)]
             r2 == [new EXCEPT !.chan = ch, !.queued = memo]
  <2>2. level \in OnLevels
    BY <1>2 DEF Levels
  <2>3. /\ LevelRequests(r, c, level) \in Seq(Request)
        /\ new \in RackType /\ new.inflight = r.inflight
    BY <2>1, <2>2, LevelRequestsType, OfferType
  <2>4. \A d \in Channels : /\ ch[d].output_on = new.chan[d].output_on
                            /\ ch[d].busy = new.chan[d].busy
    BY <2>3 DEF RackType, Chan
  <2>5. SetLevel(r, c, level) = r2
    BY <1>2, <2>1 DEF SetLevel
  <2> HIDE DEF ch, memo
  <2>6. r2.queue = new.queue /\ r2.inflight = new.inflight /\ r2.chan = ch
    BY <2>3 DEF RackType
  <2> HIDE DEF r2
  <2>7. Called(r, r2)
    BY <2>1, <2>3, <2>4, <2>6, OfferCalls
  <2>. QED
    BY <2>5, <2>7
<1>. QED
  BY <1>1, <1>2

-----------------------------------------------------------------------------
(* A loop over the channels, whatever it asks of each. *)
LEMMA LoopKeepsOrder ==
  ASSUME NEW r \in RackType, NEW r2 \in RackType, InOrder(r),
         NEW f \in [Channels -> Seq(Request)],
         \A c \in Channels : \A i \in 1 .. Len(f[c]) : f[c][i].channel = c,
         NEW reqs, reqs = EachInTurn(f),
         r2.queue = Offer(r, reqs).queue, r2.inflight = r.inflight,
         r2.radio = r.radio, r2.heard = r.heard, r2.lost = Offer(r, reqs).lost,
         \A c \in Channels : LineOf(r, c) =>
           Effect(f[c], r.chan[c], r.queued[c], r2.chan[c], r2.queued[c])
  PROVE  InOrder(r2)
<1>1. /\ reqs \in Seq(Request)
      /\ \A c \in Channels : \E b \in Nat : Asks(reqs, c, f[c], b)
  BY LoopAsks
<1> SUFFICES ASSUME NEW c \in Channels \ r2.lost
             PROVE  \E s \in Seq(Request), b \in Nat :
                      Asks(reqs, c, s, b)
                      /\ Effect(s, r.chan[c], r.queued[c], r2.chan[c], r2.queued[c])
  BY <1>1, OfferKeepsOrder
<1>2. LineOf(r, c)
  BY <1>1, OfferFields DEF InOrder
<1>3. f[c] \in Seq(Request)
        /\ Effect(f[c], r.chan[c], r.queued[c], r2.chan[c], r2.queued[c])
  BY <1>2
<1>4. PICK b \in Nat : Asks(reqs, c, f[c], b)
  BY <1>1
<1>. WITNESS f[c] \in Seq(Request), b \in Nat
<1>. QED
  BY <1>3, <1>4

(* What every handler keeps. *)
Sound(r) == r \in RackType /\ InOrder(r)

(* The levels a loop may be told: one for each channel, or none. *)
Wanted == [Channels -> Levels \cup {LeaveAlone}]

(* What ApplyLevels asks of one channel. *)
LEMMA LevelCallsType ==
  ASSUME NEW r \in RackType, NEW c \in Channels,
         NEW level \in Levels \cup {LeaveAlone}
  PROVE  /\ LevelCalls(r, c, level) \in Seq(Request)
         /\ \A i \in 1 .. Len(LevelCalls(r, c, level)) :
              LevelCalls(r, c, level)[i].channel = c
<1>1. CASE level = LeaveAlone
  <2>1. LevelCalls(r, c, level) = <<>>
    BY <1>1 DEF LevelCalls, LEVEL_OFF, LeaveAlone
  <2>. QED
    BY <2>1
<1>2. CASE level = LEVEL_OFF
  <2>1. LevelCalls(r, c, level) = OffRequests(r, c)
    BY <1>2 DEF LevelCalls, LEVEL_OFF, LeaveAlone
  <2>. QED
    BY <2>1, OffRequestsType, CallChannels
<1>3. CASE level # LeaveAlone /\ level # LEVEL_OFF
  <2>1. level \in OnLevels /\ LevelCalls(r, c, level) = LevelRequests(r, c, level)
    BY <1>3 DEF LevelCalls, Levels
  <2>. QED
    BY <2>1, LevelRequestsType, CallChannels
<1>. QED
  BY <1>1, <1>2, <1>3

LEMMA ApplyLevelsSound ==
  ASSUME NEW r, Sound(r), NEW want \in Wanted
  PROVE  Sound(ApplyLevels(r, want)) /\ Called(r, ApplyLevels(r, want))
<1> DEFINE f == [c \in Channels |-> LevelCalls(r, c, want[c])]
           reqs == EachInTurn(f)
           new == Offer(r, reqs)
           ch == [c \in Channels |->
                   IF want[c] \in OnLevels
                   THEN [new.chan[c] EXCEPT !.last_level = want[c]]
                   ELSE new.chan[c]]
           memo == [c \in Channels |->
                     CASE want[c] = LeaveAlone -> r.queued[c]
                       [] want[c] = LEVEL_OFF  -> MemoOff
                       [] OTHER                -> MemoOn(want[c])]
           r2 == ApplyLevels(r, want)
<1>0. r \in RackType /\ InOrder(r)
  BY DEF Sound
<1>1. \A c \in Channels : want[c] \in Levels \cup {LeaveAlone}
  BY DEF Wanted
<1>2. /\ f \in [Channels -> Seq(Request)]
      /\ \A c \in Channels : f[c] = LevelCalls(r, c, want[c])
      /\ \A c \in Channels : \A i \in 1 .. Len(f[c]) : f[c][i].channel = c
  BY <1>0, <1>1, LevelCallsType
<1> HIDE DEF f
<1>3. reqs \in Seq(Request)
  BY <1>2, LoopAsks
<1>4. /\ new \in RackType /\ new.queued = r.queued /\ new.inflight = r.inflight
      /\ new.radio = r.radio /\ new.heard = r.heard
      /\ \A d \in Channels : SameChan(r.chan[d], new.chan[d])
  <2> HIDE DEF reqs
  <2>. QED
    BY <1>0, <1>3, OfferType, OfferFields
<1>5. r2 = [new EXCEPT !.chan = ch, !.queued = memo]
  BY DEF ApplyLevels, f
<1> HIDE DEF new, r2
<1>6. \A c \in Channels : new.chan[c] \in Chan /\ r.queued[c] \in Memo
  BY <1>0, <1>4 DEF RackType
<1>7. ASSUME NEW c \in Channels
      PROVE  /\ ch[c] \in Chan /\ memo[c] \in Memo
             /\ LineOf(r, c) => Effect(f[c], r.chan[c], r.queued[c], ch[c], memo[c])
  <2>0. new.chan[c] \in Chan /\ SameChan(r.chan[c], new.chan[c])
    BY <1>4, <1>6
  <2>1. CASE want[c] = LeaveAlone
    <3>1. ch[c] = new.chan[c] /\ memo[c] = r.queued[c]
      BY <2>1, OnIsNotOff DEF LeaveAlone
    <3>2. f[c] = <<>>
      BY <1>2, <2>1 DEF LevelCalls, LEVEL_OFF, LeaveAlone
    <3> HIDE DEF ch, memo
    <3>3. Effect(<<>>, r.chan[c], r.queued[c], ch[c], memo[c])
      BY <2>0, <3>1, SettersOf DEF Effect, NoEffect
    <3>. QED
      BY <1>6, <2>0, <3>1, <3>2, <3>3
  <2>2. CASE want[c] = LEVEL_OFF
    <3>1. ch[c] = new.chan[c] /\ memo[c] = MemoOff
      BY <2>2, OnIsNotOff DEF LeaveAlone
    <3>2. f[c] = OffRequests(r, c)
      BY <1>2, <2>2 DEF LevelCalls, LeaveAlone, LEVEL_OFF
    <3> HIDE DEF ch, memo
    <3>3. LineOf(r, c)
            => Effect(OffRequests(r, c), r.chan[c], r.queued[c], ch[c], memo[c])
      BY <1>0, <2>0, <3>1, OffHasEffect
    <3>. QED
      BY <2>0, <3>1, <3>2, <3>3, MemoTypes
  <2>3. CASE want[c] \in OnLevels
    <3>0. want[c] # LeaveAlone /\ want[c] # LEVEL_OFF
      BY <2>3, OnIsNotOff DEF LeaveAlone
    <3>1. ch[c] = [new.chan[c] EXCEPT !.last_level = want[c]]
            /\ memo[c] = MemoOn(want[c])
      BY <2>3, <3>0
    <3>2. f[c] = LevelRequests(r, c, want[c])
      BY <1>2, <3>0 DEF LevelCalls
    <3> HIDE DEF ch, memo
    <3>3. ch[c] \in Chan /\ Relevelled(r.chan[c], ch[c], want[c])
      BY <2>0, <2>3, <3>1 DEF Chan, SameChan, Relevelled
    <3>4. LineOf(r, c)
            => Effect(LevelRequests(r, c, want[c]), r.chan[c], r.queued[c],
                      ch[c], memo[c])
      BY <1>0, <2>3, <3>1, <3>3, LevelHasEffect
    <3>. QED
      BY <2>3, <3>1, <3>2, <3>3, <3>4, MemoTypes
  <2>. QED
    BY <1>1, <2>1, <2>2, <2>3 DEF Levels
<1>8. /\ ch = [c \in Channels |-> ch[c]]
      /\ memo = [c \in Channels |-> memo[c]]
  OBVIOUS
<1> HIDE DEF ch, memo
<1>9. ch \in [Channels -> Chan] /\ memo \in [Channels -> Memo]
  BY <1>7, <1>8
<1>10. /\ r2 \in RackType
       /\ r2.queue = new.queue /\ r2.inflight = r.inflight /\ r2.radio = r.radio
       /\ r2.heard = r.heard /\ r2.lost = new.lost
       /\ r2.chan = ch /\ r2.queued = memo
  BY <1>4, <1>5, <1>9 DEF RackType
<1>11. InOrder(r2)
  <2>1. r2.queue = Offer(r, reqs).queue /\ r2.lost = Offer(r, reqs).lost
    BY <1>10 DEF new
  <2>2. \A c \in Channels : LineOf(r, c) =>
           Effect(f[c], r.chan[c], r.queued[c], r2.chan[c], r2.queued[c])
    BY <1>7, <1>10
  <2>3. PICK q : q = reqs
    OBVIOUS
  <2>4. q = EachInTurn(f)
    BY <2>3
  <2>5. r2.queue = Offer(r, q).queue /\ r2.lost = Offer(r, q).lost
    BY <2>1, <2>3
  <2> HIDE DEF reqs
  <2>. QED
    BY <1>0, <1>2, <1>10, <2>2, <2>4, <2>5, LoopKeepsOrder
<1>12. Called(r, r2)
  <2>1. \A c \in Channels : /\ r2.chan[c].output_on = new.chan[c].output_on
                            /\ r2.chan[c].busy = new.chan[c].busy
    BY <1>6, <1>10 DEF ch, Chan
  <2>2. PICK q : q = reqs
    OBVIOUS
  <2>3. new = Offer(r, q)
    BY <2>2 DEF new
  <2>. QED
    BY <1>0, <1>3, <1>10, <2>1, <2>2, <2>3, OfferCalls
<1>. QED
  BY <1>10, <1>11, <1>12 DEF Sound, r2

LEMMA TurnOffAllSound ==
  ASSUME NEW r, Sound(r), NEW S
  PROVE  Sound(TurnOffAll(r, S)) /\ Called(r, TurnOffAll(r, S))
<1> DEFINE want == [c \in Channels |-> IF c \in S THEN LEVEL_OFF ELSE LeaveAlone]
<1>1. want \in Wanted
  BY LevelTypes DEF Wanted
<1>2. TurnOffAll(r, S) = ApplyLevels(r, want)
  BY DEF TurnOffAll
<1> HIDE DEF want
<1>. QED
  BY <1>1, <1>2, ApplyLevelsSound

(* What a loop that turns on leaves of the memo. *)
LEMMA RememberOnType ==
  ASSUME NEW r \in RackType, NEW S
  PROVE  RememberOn(r, S) \in [Channels -> Memo]
<1>1. \A c \in Channels : r.chan[c].last_level \in OnLevels /\ r.queued[c] \in Memo
  BY DEF RackType, Chan
<1>. QED
  BY <1>1, MemoTypes DEF RememberOn

(* s is asked of c alone, and leads to memo. *)
AsksWell(r, c, s, memo) ==
  /\ s \in Seq(Request)
  /\ \A i \in 1 .. Len(s) : s[i].channel = c
  /\ \A ch : SameChan(r.chan[c], ch)
       => Effect(s, r.chan[c], r.queued[c], ch, memo)

(* A loop that sets no levels. *)
LEMMA OnLoopSound ==
  ASSUME NEW r, Sound(r), NEW f, f = [c \in Channels |-> f[c]],
         NEW memo \in [Channels -> Memo],
         NEW offered, offered = Offer(r, EachInTurn(f)),
         \A c \in Channels : AsksWell(r, c, f[c], memo[c])
  PROVE  /\ Sound([offered EXCEPT !.queued = memo])
         /\ Called(r, [offered EXCEPT !.queued = memo])
<1>0. r \in RackType /\ InOrder(r)
  BY DEF Sound
<1>a. /\ f \in [Channels -> Seq(Request)]
      /\ \A c \in Channels : \A i \in 1 .. Len(f[c]) : f[c][i].channel = c
  BY DEF AsksWell
<1>1. PICK reqs : reqs = EachInTurn(f)
  OBVIOUS
<1>2. reqs \in Seq(Request)
  BY <1>a, <1>1, LoopAsks
<1> DEFINE r2 == [offered EXCEPT !.queued = memo]
<1>3. offered = Offer(r, reqs)
  BY <1>1
<1>4. /\ offered \in RackType /\ offered.queued = r.queued
      /\ offered.inflight = r.inflight
      /\ offered.radio = r.radio /\ offered.heard = r.heard
      /\ \A d \in Channels : SameChan(r.chan[d], offered.chan[d])
  <2>1. /\ Offer(r, reqs) \in RackType /\ Offer(r, reqs).queued = r.queued
        /\ Offer(r, reqs).inflight = r.inflight
        /\ Offer(r, reqs).radio = r.radio /\ Offer(r, reqs).heard = r.heard
        /\ \A d \in Channels : SameChan(r.chan[d], Offer(r, reqs).chan[d])
    BY <1>0, <1>2, OfferType, OfferFields
  <2>. QED
    BY <1>3, <2>1, Zenon
<1>6. /\ r2 \in RackType
      /\ r2.queue = offered.queue /\ r2.inflight = r.inflight
      /\ r2.radio = r.radio /\ r2.heard = r.heard /\ r2.lost = offered.lost
      /\ r2.chan = offered.chan /\ r2.queued = memo
  BY <1>4 DEF RackType
<1> HIDE DEF r2
<1>7. \A c \in Channels :
        Effect(f[c], r.chan[c], r.queued[c], r2.chan[c], r2.queued[c])
  BY <1>4, <1>6 DEF AsksWell
<1>8. r2.queue = Offer(r, reqs).queue /\ r2.lost = Offer(r, reqs).lost
  BY <1>3, <1>6
<1>9. InOrder(r2)
  BY <1>0, <1>a, <1>1, <1>6, <1>7, <1>8, LoopKeepsOrder
<1>10. Called(r, r2)
  BY <1>0, <1>2, <1>3, <1>6, OfferCalls
<1>. QED
  BY <1>6, <1>9, <1>10 DEF Sound, r2

LEMMA TurnOnAllSound ==
  ASSUME NEW r, Sound(r), NEW S
  PROVE  Sound(TurnOnAll(r, S)) /\ Called(r, TurnOnAll(r, S))
<1> DEFINE f == [c \in Channels |-> IF c \in S THEN OnRequests(r, c) ELSE <<>>]
           memo == RememberOn(r, S)
           offered == Offer(r, EachInTurn(f))
<1>0. r \in RackType
  BY DEF Sound
<1>1. f = [c \in Channels |-> f[c]] /\ memo \in [Channels -> Memo]
  BY <1>0, RememberOnType
<1>2. TurnOnAll(r, S) = [offered EXCEPT !.queued = memo]
  BY DEF TurnOnAll
<1>3. ASSUME NEW c \in Channels PROVE AsksWell(r, c, f[c], memo[c])
  <2>1. CASE c \in S
    <3>1. f[c] = OnRequests(r, c) /\ memo[c] = MemoOn(r.chan[c].last_level)
      BY <2>1 DEF RememberOn
    <3>2. AsksWell(r, c, OnRequests(r, c), MemoOn(r.chan[c].last_level))
      BY <1>0, OnRequestsType, CallChannels, OnHasEffect DEF AsksWell
    <3>. QED
      BY <3>1, <3>2, Zenon
  <2>2. CASE c \notin S
    <3>1. f[c] = <<>> /\ memo[c] = r.queued[c]
      BY <2>2 DEF RememberOn
    <3>2. AsksWell(r, c, <<>>, r.queued[c])
      BY SettersOf DEF AsksWell, Effect, NoEffect
    <3>. QED
      BY <3>1, <3>2, Zenon
  <2>. QED
    BY <2>1, <2>2
<1>4. offered = Offer(r, EachInTurn(f))
  OBVIOUS
<1> HIDE DEF f, memo, offered
<1>. QED
  BY <1>1, <1>2, <1>3, <1>4, OnLoopSound

(* The mode for a channel, and ON: only the ON counts. *)
LEMMA ModeThenOn ==
  ASSUME NEW r \in RackType, NEW c \in Channels
  PROVE  AsksWell(r, c, ModeRequests(r, c, WhiteNoise) \o OnRequests(r, c),
                  MemoOn(r.chan[c].last_level))
<1> DEFINE s == ModeRequests(r, c, WhiteNoise) \o OnRequests(r, c)
           memo == MemoOn(r.chan[c].last_level)
<1>1. PICK q \in Request : ModeRequests(r, c, WhiteNoise) = <<q>> /\ q.kind = "mode"
                            /\ q.channel = c
  <2> DEFINE level == IF r.chan[c].level # LEVEL_OFF THEN r.chan[c].level
                                                    ELSE r.chan[c].last_level
             q == [channel |-> c, kind |-> "mode", mode |-> WhiteNoise,
                   level |-> level]
  <2>1. ModeRequests(r, c, WhiteNoise) = <<q>>
    BY DEF ModeRequests
  <2>2. q.kind = "mode" /\ q.channel = c
    OBVIOUS
  <2>3. level \in Levels
    BY LevelTypes DEF RackType, Chan
  <2>4. q \in Request
    <3> HIDE DEF level
    <3>. QED
      BY <2>3, LevelTypes DEF Request
  <2> HIDE DEF q
  <2>. QED
    BY <2>1, <2>2, <2>4
<1> SUFFICES AsksWell(r, c, s, memo)
  OBVIOUS
<1>2. CASE r.queued[c] = MemoOn(r.chan[c].last_level)
  <2>1. OnRequests(r, c) = <<>>
    BY <1>2 DEF OnRequests, MemoOn
  <2>2. s = <<q>>
    <3>1. <<q>> \in Seq(Request)
      OBVIOUS
    <3>2. \A t \in Seq(Request) : t \o <<>> = t
      BY ConcatEmptySeq
    <3>. QED
      BY <1>1, <2>1, <3>1, <3>2, Zenon
  <2>3. Setters(<<q>>) = {}
    BY <1>1, SettersOf DEF SetsOutput
  <2>4. AsksWell(r, c, <<q>>, memo)
    BY <1>1, <1>2, <2>3 DEF AsksWell, Effect, NoEffect
  <2> HIDE DEF s, memo
  <2>. QED
    BY <2>2, <2>4, Zenon
<1>3. CASE r.queued[c] # MemoOn(r.chan[c].last_level)
  <2> DEFINE o == OnRequest(r, c)
  <2>1. OnRequests(r, c) = <<o>>
    BY <1>3 DEF OnRequests, MemoOn
  <2>2. /\ o.kind = "on" /\ o.level = r.chan[c].last_level /\ o.channel = c
    BY DEF OnRequest
  <2>3. o \in Request
    BY LevelTypes DEF RackType, Chan, OnRequest, Request
  <2> HIDE DEF o
  <2>4. s = <<q, o>>
    BY <1>1, <2>1, ShortConcats, Zenon
  <2>5. Setters(<<q, o>>) = {2} /\ <<q, o>>[2] = o
    BY <1>1, <2>2, SettersOf DEF SetsOutput
  <2>6. ASSUME NEW ch, SameChan(r.chan[c], ch)
        PROVE  OnEffect(<<q, o>>, r.chan[c], r.queued[c], ch, memo)
    BY <1>3, <2>2, <2>5, <2>6 DEF OnEffect
  <2>7. <<q, o>> \in Seq(Request)
          /\ \A i \in 1 .. Len(<<q, o>>) : <<q, o>>[i].channel = c
    BY <1>1, <2>2, <2>3
  <2>8. AsksWell(r, c, <<q, o>>, memo)
    BY <2>6, <2>7 DEF AsksWell, Effect
  <2> HIDE DEF s, memo
  <2>. QED
    BY <2>4, <2>8, Zenon
<1>. QED
  BY <1>2, <1>3

LEMMA ResetToDefaultSound ==
  ASSUME NEW r, Sound(r), NEW S
  PROVE  Sound(ResetToDefault(r, S)) /\ Called(r, ResetToDefault(r, S))
<1> DEFINE f == [c \in Channels |->
                  ModeRequests(r, c, WhiteNoise)
                    \o (IF c \in S THEN OnRequests(r, c) ELSE <<>>)]
           memo == RememberOn(r, S)
           offered == Offer(r, EachInTurn(f))
<1>0. r \in RackType
  BY DEF Sound
<1>1. f = [c \in Channels |-> f[c]] /\ memo \in [Channels -> Memo]
  BY <1>0, RememberOnType
<1>2. ResetToDefault(r, S) = [offered EXCEPT !.queued = memo]
  BY DEF ResetToDefault
<1>3. ASSUME NEW c \in Channels PROVE AsksWell(r, c, f[c], memo[c])
  <2>1. CASE c \in S
    <3>1. f[c] = ModeRequests(r, c, WhiteNoise) \o OnRequests(r, c)
            /\ memo[c] = MemoOn(r.chan[c].last_level)
      BY <2>1 DEF RememberOn
    <3>2. AsksWell(r, c, ModeRequests(r, c, WhiteNoise) \o OnRequests(r, c),
                   MemoOn(r.chan[c].last_level))
      BY <1>0, ModeThenOn
    <3>. QED
      BY <3>1, <3>2, Zenon
  <2>2. CASE c \notin S
    <3>1. ModeRequests(r, c, WhiteNoise) \in Seq(Request)
      BY <1>0, LevelTypes, ModeRequestsType
    <3>2. \A t \in Seq(Request) : t \o <<>> = t
      BY ConcatEmptySeq
    <3>3. f[c] = ModeRequests(r, c, WhiteNoise) \o <<>>
            /\ memo[c] = r.queued[c]
      BY <2>2 DEF RememberOn
    <3>4. AsksWell(r, c, ModeRequests(r, c, WhiteNoise), r.queued[c])
      BY <1>0, <3>1, LevelTypes, CallChannels, ModeHasEffect DEF AsksWell
    <3> HIDE DEF f, memo
    <3>. QED
      BY <3>1, <3>2, <3>3, <3>4, Zenon
  <2>. QED
    BY <2>1, <2>2
<1>4. offered = Offer(r, EachInTurn(f))
  OBVIOUS
<1> HIDE DEF f, memo, offered
<1>. QED
  BY <1>1, <1>2, <1>3, <1>4, OnLoopSound

LEMMA PollSound ==
  ASSUME NEW r, Sound(r), NEW ripe \in BOOLEAN, NEW up \in BOOLEAN
  PROVE  Sound(Poll(r, ripe, up))
<1>1. r \in RackType /\ InOrder(r)
  BY DEF Sound
<1>2. Poll(r, ripe, up) \in RackType
  BY <1>1, PollType
<1>3. InOrder(Poll(r, ripe, up))
  BY <1>1, SettleKeepsOrder, SendKeepsOrder DEF Poll
<1>. QED
  BY <1>2, <1>3 DEF Sound

-----------------------------------------------------------------------------
(* The inductive invariant of the window. *)
WindowInv == ConsoleTypeOK /\ InOrder(Rack)

(* What the window keeps beside the rack. *)
WindowFields ==
  /\ connected \in BOOLEAN
  /\ plugged \in BOOLEAN
  /\ retry \in 0 .. RetryTicks - 1
  /\ launched \in BOOLEAN
  /\ tripped \subseteq Channels
  /\ window \in {"open", "turned off", "kept running"}

LEMMA WindowInvIs == WindowInv <=> Sound(Rack) /\ WindowFields
  BY TypeOfRack DEF WindowInv, ConsoleTypeOK, Sound, WindowFields

LEMMA SetRackSound ==
  ASSUME NEW r, Sound(r), SetRack(r), WindowFields'
  PROVE  WindowInv' /\ Rack' = r
<1>1. Rack' = r
  BY DEF SetRack, Rack, RackType, Sound
<1>2. Sound(Rack)'
  BY <1>1 DEF Sound
<1>3. TypeOK'
  BY SetRackType DEF Sound, WindowFields
<1>. QED
  BY <1>1, <1>2, <1>3 DEF WindowInv, ConsoleTypeOK, Sound, WindowFields

LEMMA RackStays ==
  ASSUME WindowInv, UNCHANGED rackVars, WindowFields'
  PROVE  WindowInv' /\ Called(Rack, Rack')
<1>1. SetRack(Rack)
  BY DEF SetRack, Rack, rackVars
<1>2. Sound(Rack)
  BY WindowInvIs
<1>. QED
  BY <1>1, <1>2, SetRackSound, CalledNothing

LEMMA ConnectedChangedSound ==
  ASSUME WindowInv, NEW up
  PROVE  /\ Sound(OnConnectedChanged(Rack, up))
         /\ Called(Rack, OnConnectedChanged(Rack, up))
  BY WindowInvIs, ResetToDefaultSound, CalledNothing DEF OnConnectedChanged

LEMMA CommandSound ==
  ASSUME WindowInv, NEW r, Sound(r), Called(Rack, r), Command(r)
  PROVE  WindowInv' /\ Called(Rack, Rack')
<1>1. WindowFields'
  BY WindowInvIs DEF WindowFields, Command
<1>. QED
  BY <1>1, SetRackSound DEF Command

(* The timer and the clicks. *)
LEMMA TickSound ==
  ASSUME WindowInv, NEW ripe \in BOOLEAN, NEW hot \in BOOLEAN, Tick(ripe, hot)
  PROVE  WindowInv'
<1>0. WindowFields
  BY WindowInvIs
<1>1. PICK count, up, asked, sent :
        /\ count = RetryCount(connected /\ plugged)
        /\ up = (plugged /\ (connected \/ count = RetryTicks))
        /\ asked = OnConnectedChanged(Rack, up /\ ~connected)
        /\ sent = Poll(asked, ripe, up)
        /\ connected' = up
        /\ retry' = IF count = RetryTicks THEN 0 ELSE count
        /\ launched' = (launched \/ up)
        /\ SetRack(IF hot THEN TripAll(sent) ELSE sent)
        /\ tripped' = IF hot THEN Channels ELSE tripped
        /\ UNCHANGED <<plugged, window>>
  BY DEF Tick
<1>2. up \in BOOLEAN
  BY <1>0, <1>1 DEF WindowFields
<1>3. Sound(sent)
  BY <1>1, <1>2, ConnectedChangedSound, PollSound
<1>4. Sound(IF hot THEN TripAll(sent) ELSE sent)
  BY <1>3, TurnOffAllSound DEF TripAll
<1>5. WindowFields'
  <2>1. count \in 0 .. RetryTicks
    <3>1. count = IF connected /\ plugged THEN 0 ELSE retry + 1
      BY <1>1 DEF RetryCount
    <3>2. count = 0 \/ count = retry + 1
      BY <3>1, Zenon
    <3>3. retry \in 0 .. RetryTicks - 1 /\ RetryTicks \in Nat \ {0}
      BY <1>0, ConsoleAssumption DEF WindowFields
    <3>. QED
      BY <3>2, <3>3
  <2>2. retry' \in 0 .. RetryTicks - 1
    BY <1>1, <2>1, ConsoleAssumption
  <2>3. connected' \in BOOLEAN /\ launched' \in BOOLEAN
    BY <1>0, <1>1, <1>2 DEF WindowFields
  <2>4. tripped' \subseteq Channels /\ plugged' \in BOOLEAN
          /\ window' \in {"open", "turned off", "kept running"}
    BY <1>0, <1>1 DEF WindowFields
  <2>. QED
    BY <2>2, <2>3, <2>4 DEF WindowFields
<1>. QED
  BY <1>1, <1>4, <1>5, SetRackSound

LEMMA ClickSound ==
  ASSUME WindowInv, Click
  PROVE  WindowInv' /\ Called(Rack, Rack')
<1> DEFINE Goal == WindowInv' /\ Called(Rack, Rack')
<1>0. Sound(Rack) /\ WindowFields
  BY WindowInvIs
<1>1. CASE ConnectClicked
  <2>1. PICK up : /\ up = (~connected /\ plugged)
                  /\ SetRack(OnConnectedChanged(Rack, up))
                  /\ connected' = up
                  /\ launched' = (launched \/ up)
                  /\ UNCHANGED <<plugged, retry, tripped, window>>
    BY <1>1 DEF ConnectClicked
  <2>2. WindowFields'
    BY <1>0, <2>1 DEF WindowFields
  <2>. QED
    BY <2>1, <2>2, ConnectedChangedSound, SetRackSound
<1>2. ASSUME NEW c \in Channels, OnButton(c) PROVE Goal
  BY <1>0, <1>2, TurnOnType, TurnOnCalls, TurnOnKeepsOrder, CommandSound DEF OnButton, Sound
<1>3. ASSUME NEW c \in Channels, OffButton(c) PROVE Goal
  BY <1>0, <1>3, TurnOffType, TurnOffCalls, TurnOffKeepsOrder, CommandSound DEF OffButton, Sound
<1>4. ASSUME NEW c \in Channels, NEW level \in Levels, GaugeClick(c, level)
      PROVE  Goal
  BY <1>0, <1>4, SetLevelType, SetLevelCalls, SetLevelKeepsOrder, CommandSound DEF GaugeClick, Sound
<1>5. ASSUME NEW c \in Channels, KillReset(c) PROVE Goal
  <2>1. WindowFields' /\ UNCHANGED rackVars
    BY <1>0, <1>5 DEF KillReset, chanVars, WindowFields
  <2>. QED
    BY <2>1, RackStays
<1>6. ASSUME NEW S \in SUBSET Channels, BulkOn(S) PROVE Goal
  BY <1>0, <1>6, TurnOnAllSound, CommandSound DEF BulkOn
<1>7. ASSUME NEW S \in SUBSET Channels, BulkOff(S) PROVE Goal
  BY <1>0, <1>7, TurnOffAllSound, CommandSound DEF BulkOff
<1>8. ASSUME NEW S \in SUBSET Channels, NEW level \in Levels, BulkLevel(S, level)
      PROVE  Goal
  <2> DEFINE want == [c \in Channels |->
               IF c \in S /\ (level = LEVEL_OFF \/ (chan[c].output_on /\ c \notin tripped))
               THEN level ELSE LeaveAlone]
  <2>1. want \in Wanted
    BY DEF Wanted
  <2>2. Command(ApplyLevels(Rack, want))
    BY <1>8 DEF BulkLevel
  <2> HIDE DEF want
  <2>. QED
    BY <1>0, <2>1, <2>2, ApplyLevelsSound, CommandSound
<1>9. CASE CloseAll
  BY <1>0, <1>9, TurnOffAllSound, CommandSound DEF CloseAll
<1>10. CASE OpenAll
  BY <1>0, <1>10, TurnOnAllSound, CommandSound DEF OpenAll
<1>11. CASE ResetClicked
  BY <1>0, <1>11, ResetToDefaultSound, CommandSound DEF ResetClicked
<1>12. ASSUME NEW file \in [Channels -> Levels], LoadConfig(file) PROVE Goal
  <2> DEFINE want == [c \in Channels |-> IF file[c] # LEVEL_OFF /\ c \in tripped
                                         THEN LeaveAlone ELSE file[c]]
  <2>1. want \in Wanted
    BY DEF Wanted
  <2>2. Command(ApplyLevels(Rack, want))
    BY <1>12 DEF LoadConfig
  <2> HIDE DEF want
  <2>. QED
    BY <1>0, <2>1, <2>2, ApplyLevelsSound, CommandSound
<1>13. ASSUME NEW choice \in {"turned off", "kept running"}, CloseWindow(choice)
       PROVE  Goal
  <2>1. WindowFields'
    BY <1>0, <1>13 DEF CloseWindow, WindowFields
  <2>2. \A r : r = (IF choice = "turned off" THEN TurnOffAll(Rack, Channels) ELSE Rack)
             => Sound(r) /\ Called(Rack, r)
    BY <1>0, TurnOffAllSound, CalledNothing
  <2>3. SetRack(IF choice = "turned off" THEN TurnOffAll(Rack, Channels) ELSE Rack)
    BY <1>13 DEF CloseWindow
  <2>. QED
    BY <2>1, <2>2, <2>3, SetRackSound
<1>. QED
  BY <1>1, <1>2, <1>3, <1>4, <1>5, <1>6, <1>7, <1>8, <1>9, <1>10, <1>11, <1>12, <1>13
  DEF Click

LEMMA WindowInitSound == ConsoleInit => WindowInv
<1> SUFFICES ASSUME ConsoleInit PROVE WindowInv
  OBVIOUS
<1>1. TypeOK
  BY RackInitType DEF ConsoleInit
<1>2. InOrder(Rack)
  BY RackInitInOrder DEF ConsoleInit
<1>3. retry \in 0 .. RetryTicks - 1
  <2>1. retry = 0
    BY DEF ConsoleInit
  <2>. QED
    BY <2>1, ConsoleAssumption
<1>4. launched \in BOOLEAN /\ tripped \subseteq Channels /\ plugged \in BOOLEAN
        /\ window \in {"open", "turned off", "kept running"}
  BY DEF ConsoleInit
<1>. QED
  BY <1>1, <1>2, <1>3, <1>4 DEF WindowInv, ConsoleTypeOK

LEMMA WindowStepSound == WindowInv /\ [ConsoleNext]_consoleVars => WindowInv'
<1> SUFFICES ASSUME WindowInv, [ConsoleNext]_consoleVars PROVE WindowInv'
  OBVIOUS
<1>1. WindowFields
  BY WindowInvIs
<1>2. CASE Click
  BY <1>2, ClickSound
<1>3. ASSUME NEW ripe \in BOOLEAN, NEW hot \in BOOLEAN, Tick(ripe, hot)
      PROVE  WindowInv'
  BY <1>3, TickSound
<1>4. CASE PlugChange \/ UNCHANGED consoleVars
  <2>1. WindowFields' /\ UNCHANGED rackVars
    BY <1>1, <1>4 DEF PlugChange, consoleVars, chanVars, WindowFields
  <2>. QED
    BY <2>1, RackStays
<1>. QED
  BY <1>2, <1>3, <1>4 DEF ConsoleNext

(* The inductive invariant holds whatever is clicked, loaded or reconnected, *)
(* and whatever the timer finds.                                             *)
THEOREM WindowStaysInOrder == ConsoleSpec => []WindowInv
  BY WindowInitSound, WindowStepSound, PTL DEF ConsoleSpec

(* Type correctness of the window: no handler that loops over the channels   *)
(* makes the queue longer than QUEUE_CAP, and the retry counter stays below  *)
(* RetryTicks.                                                               *)
THEOREM WindowTypeCorrect == ConsoleSpec => []ConsoleTypeOK
<1>1. WindowInv => ConsoleTypeOK
  BY DEF WindowInv
<1>. QED
  BY <1>1, WindowStaysInOrder, PTL

(* What the invariant says of the channels. *)
LEMMA WindowInvSafe ==
  WindowInv => /\ MemoMatchesPipeline
               /\ NoRepeatedCommand
               /\ RadioFollowsChannel
               /\ SavedIsShownOrUnderWay
  BY OrderIsSafe DEF WindowInv, ConsoleTypeOK

(* The memo stays right under the loops over all channels too, of which only *)
(* the first QUEUE_CAP requests may fit.                                     *)
THEOREM WindowMemoIsRight == ConsoleSpec => []MemoMatchesPipeline
  BY WindowInvSafe, WindowStaysInOrder, PTL

(* So do the other promises of Channels, which no run checks of the whole    *)
(* window.                                                                   *)
THEOREM WindowPanelIsHonest ==
  ConsoleSpec => [](NoRepeatedCommand /\ RadioFollowsChannel /\ SavedIsShownOrUnderWay)
  BY WindowInvSafe, WindowStaysInOrder, PTL
=============================================================================
