------------------------------ MODULE Console ------------------------------
(***************************************************************************)
(* The control window of main.c over the channels of channels.c and the    *)
(* connection of connection.c.                                             *)
(*                                                                         *)
(* Everything runs on one thread: each message the window gets is handled  *)
(* to the end before the next one.  So each handler is one action here:    *)
(* the buttons, the gauge, the close dialog, and WM_TIMER, which in one go *)
(* checks the link, retries it, polls the send queue and checks the kill   *)
(* switch.  What the user sees (output_on, level) and what was last queued *)
(* are up to 300 ms per waiting request apart, and most of what can go     *)
(* wrong happens in between.                                               *)
(*                                                                         *)
(* A definition that no action uses, written just before the one it would  *)
(* replace, is a faulty variant of it: PROJECT.json names, under mutants,  *)
(* the property that notices the fault.                                    *)
(***************************************************************************)
EXTENDS Channels

LOCAL INSTANCE SequencesExt

CONSTANT RetryTicks   \* ticks without a link before a retry, 50 in the code

ASSUME ConsoleAssumption == RetryTicks \in Nat \ {0}

VARIABLES
  plugged,    \* external: AutoConnectSDR and CheckConnection say "Connected"
  retry,      \* rs422_retry_counter
  launched,   \* g_launch_power_on_done
  tripped,    \* the channels whose g_kill_switch_tripped is set
  window      \* "open", or how it was closed: "turned off", "kept running"

consoleVars == <<chanVars, plugged, retry, launched, tripped, window>>

-----------------------------------------------------------------------------
(* The loops over all channels.  No call for one channel looks at another,   *)
(* so a loop queues what every call queues, in channel order: requests[c] is *)
(* what it queues for channel c.  want[c] is the level for channel c, or     *)
(* LeaveAlone; LEVEL_OFF turns it off.                                       *)
LeaveAlone == -1

EachInTurn(requests) == FlattenSeq(requests)

LevelCalls(r, c, level) ==
  CASE level = LeaveAlone -> <<>>
    [] level = LEVEL_OFF  -> OffRequests(r, c)
    [] OTHER              -> LevelRequests(r, c, level)

ApplyLevels(r, want) ==
  LET offered == Offer(r, EachInTurn([c \in Channels |-> LevelCalls(r, c, want[c])])) IN
  [offered EXCEPT
     !.chan = [c \in Channels |->
                 IF want[c] \in OnLevels
                 THEN [offered.chan[c] EXCEPT !.last_level = want[c]]
                 ELSE offered.chan[c]],
     !.queued = [c \in Channels |->
                   CASE want[c] = LeaveAlone -> r.queued[c]
                     [] want[c] = LEVEL_OFF  -> MemoOff
                     [] OTHER                -> MemoOn(want[c])]]

TurnOffAll(r, S) ==
  ApplyLevels(r, [c \in Channels |-> IF c \in S THEN LEVEL_OFF ELSE LeaveAlone])

RememberOn(r, S) ==
  [c \in Channels |-> IF c \in S THEN MemoOn(r.chan[c].last_level) ELSE r.queued[c]]

TurnOnAllForgetful(r, S) ==
  Offer(r, EachInTurn([c \in Channels |-> IF c \in S THEN OnRequests(r, c) ELSE <<>>]))
TurnOnAll(r, S) ==
  [Offer(r, EachInTurn([c \in Channels |-> IF c \in S THEN OnRequests(r, c) ELSE <<>>]))
     EXCEPT !.queued = RememberOn(r, S)]

(* on_reset_to_default_clicked(): the mode for every channel, and ON for     *)
(* those that may go on.                                                     *)
ResetEvenTripped(r, S) ==
  [Offer(r, EachInTurn([c \in Channels |->
       ModeRequests(r, c, WhiteNoise) \o OnRequests(r, c)]))
     EXCEPT !.queued = RememberOn(r, Channels)]
ResetToDefault(r, S) ==
  [Offer(r, EachInTurn([c \in Channels |->
       ModeRequests(r, c, WhiteNoise) \o (IF c \in S THEN OnRequests(r, c) ELSE <<>>)]))
     EXCEPT !.queued = RememberOn(r, S)]

Untripped == Channels \ tripped

-----------------------------------------------------------------------------
ConsoleInit ==
  /\ RackInit
  /\ connected = FALSE
  /\ plugged \in BOOLEAN
  /\ retry = 0
  /\ launched = FALSE
  /\ tripped = {}
  /\ window = "open"

(* conn_on_connected_changed(): the first connection of the session powers   *)
(* the rack on.                                                              *)
EveryConnection(r, up) == IF up THEN ResetToDefault(r, Untripped) ELSE r
OnConnectedChanged(r, up) ==
  IF up /\ ~launched THEN ResetToDefault(r, Untripped) ELSE r

(* on_connect_clicked(): Connect or Disconnect.  The button, and the         *)
(* WM_APP_AUTOCONNECT message posted once at startup.                        *)
ConnectClicked ==
  LET up == ~connected /\ plugged IN
  /\ window = "open"
  /\ SetRack(OnConnectedChanged(Rack, up))
  /\ connected' = up
  /\ launched' = (launched \/ up)
  /\ UNCHANGED <<plugged, retry, tripped, window>>

(* WM_TIMER: conn_poll, the reconnect of every RetryTicks ticks,             *)
(* channels_poll and check_kill_switch, in this order.  hot says that the    *)
(* sensors' average has reached KILL_SWITCH_THRESHOLD_C.                     *)
TripShownOn(r) == TurnOffAll(r, {c \in Untripped : r.chan[c].output_on})
TripAll(r) == TurnOffAll(r, Untripped)

RetrySwapped(up) == IF up THEN retry + 1 ELSE 0
RetryCount(up) == IF up THEN 0 ELSE retry + 1

Tick(ripe, hot) ==
  \E count \in {RetryCount(connected /\ plugged)} :
  \E up \in {plugged /\ (connected \/ count = RetryTicks)} :
  \E asked \in {OnConnectedChanged(Rack, up /\ ~connected)} :
  \E sent \in {Poll(asked, ripe, up)} :
    /\ window = "open"
    /\ connected' = up
    /\ retry' = IF count = RetryTicks THEN 0 ELSE count
    /\ launched' = (launched \/ up)
    /\ SetRack(IF hot THEN TripAll(sent) ELSE sent)
    /\ tripped' = IF hot THEN Channels ELSE tripped
    /\ UNCHANGED <<plugged, window>>

-----------------------------------------------------------------------------
(* The handlers that command channels; each leaves the rest alone.  The      *)
(* buttons and gauges of a channel, and the bulk buttons, are disabled       *)
(* without a connection; the rack-wide buttons and the kill-switch reset are *)
(* not.                                                                      *)
Command(r) ==
  /\ window = "open"
  /\ SetRack(r)
  /\ UNCHANGED <<connected, plugged, retry, launched, tripped, window>>

OnButton(c) ==
  /\ connected
  /\ c \notin tripped
  /\ Command(TurnOn(Rack, c))

OffButton(c) ==
  /\ connected
  /\ Command(TurnOff(Rack, c))

(* ch_gauge_apply_click(): OFF always, another level for a channel that is   *)
(* shown on and is not tripped.                                              *)
GaugeClick(c, level) ==
  /\ connected
  /\ level # LEVEL_OFF => chan[c].output_on /\ c \notin tripped
  /\ Command(SetLevel(Rack, c, level))

(* S is g_channel_selected, which the user can make any set of channels.     *)
BulkOn(S) ==
  /\ connected
  /\ Command(TurnOnAll(Rack, S \ tripped))

BulkOff(S) ==
  /\ connected
  /\ Command(TurnOffAll(Rack, S))

BulkLevel(S, level) ==
  /\ connected
  /\ Command(ApplyLevels(Rack,
       [c \in Channels |->
          IF c \in S /\ (level = LEVEL_OFF \/ (chan[c].output_on /\ c \notin tripped))
          THEN level ELSE LeaveAlone]))

CloseAll == Command(TurnOffAll(Rack, Channels))

OpenAll == Command(TurnOnAll(Rack, Untripped))

ResetClicked == Command(ResetToDefault(Rack, Untripped))

(* file[c] is the level the file gives to a channel saved on, or LEVEL_OFF.  *)
LoadConfig(file) ==
  Command(ApplyLevels(Rack,
    [c \in Channels |-> IF file[c] # LEVEL_OFF /\ c \in tripped
                        THEN LeaveAlone ELSE file[c]]))

(* on_unit_kill_reset(): the channel may be commanded again; it stays off.   *)
KillReset(c) ==
  /\ window = "open"
  /\ c \in tripped
  /\ tripped' = tripped \ {c}
  /\ UNCHANGED <<chanVars, plugged, retry, launched, window>>

(* WM_CLOSE to its end.  Between the OFF commands and WM_DESTROY, which      *)
(* kills the timer and disconnects, no message is dispatched.                *)
CloseWindow(choice) ==
  /\ window = "open"
  /\ window' = choice
  /\ SetRack(IF choice = "turned off" THEN TurnOffAll(Rack, Channels) ELSE Rack)
  /\ connected' = FALSE
  /\ UNCHANGED <<plugged, retry, launched, tripped>>

(* The dongle is plugged in or pulled out, or its drivers come up. *)
PlugChange ==
  /\ plugged' = ~plugged
  /\ UNCHANGED <<chanVars, retry, launched, tripped, window>>

Click ==
  \/ ConnectClicked
  \/ \E c \in Channels :
       \/ OnButton(c)
       \/ OffButton(c)
       \/ \E level \in Levels : GaugeClick(c, level)
       \/ KillReset(c)
  \/ \E S \in SUBSET Channels :
       \/ BulkOn(S)
       \/ BulkOff(S)
       \/ \E level \in Levels : BulkLevel(S, level)
  \/ CloseAll
  \/ OpenAll
  \/ ResetClicked
  \/ \E file \in [Channels -> Levels] : LoadConfig(file)
  \/ \E choice \in {"turned off", "kept running"} : CloseWindow(choice)

ConsoleNext ==
  \/ Click
  \/ \E ripe, hot \in BOOLEAN : Tick(ripe, hot)
  \/ PlugChange

(* WM_TIMER keeps coming while the window is open, so that a settle deadline *)
(* is reached; nothing says that the user clicks or the dongle comes back.   *)
RipeTick == \E hot \in BOOLEAN : Tick(TRUE, hot)

ConsoleSpec == ConsoleInit /\ [][ConsoleNext]_consoleVars /\ WF_consoleVars(RipeTick)

-----------------------------------------------------------------------------
ConsoleTypeOK ==
  /\ TypeOK
  /\ plugged \in BOOLEAN
  /\ retry \in 0 .. RetryTicks - 1
  /\ launched \in BOOLEAN
  /\ tripped \subseteq Channels
  /\ window \in {"open", "turned off", "kept running"}

(* The kill switch is reset by hand only (comment on                         *)
(* KILL_SWITCH_THRESHOLD_C): whatever is clicked, loaded or reconnected, the *)
(* last thing queued for a tripped channel is OFF.                           *)
TrippedHeldOff == \A c \in tripped : queued[c].output = 0

(* "not every reconnect (e.g. after a manual Disconnect/Connect mid-session, *)
(* which shouldn't silently power everything back on unasked)": a step that  *)
(* connects, other than the first one, asks no channel to go on.             *)
ReconnectIsSilent ==
  [][~connected /\ connected' /\ launched =>
       \A c \in Channels : queued'[c].output = 1 => queued[c].output = 1]_consoleVars

(* A tripped channel is dark some time later, with or without a link, unless *)
(* it is reset, its request was dropped or the window is closed first.       *)
TrippedGoesDark ==
  \A c \in Channels :
    c \in tripped ~> \/ ~chan[c].output_on /\ (Arrived(c, "switch") => ~radio[c].on)
                     \/ c \notin tripped
                     \/ c \in lost
                     \/ window # "open"

(* The retry of WM_TIMER: while the dongle is there, the link comes up       *)
(* without a click.                                                          *)
Reconnects == plugged /\ ~connected ~> connected \/ ~plugged \/ window # "open"

-----------------------------------------------------------------------------
(* What comments of the code say, and the code refutes.                      *)

(* "once tripped, a channel stays off" (main.c, KILL_SWITCH_THRESHOLD_C),    *)
(* "forced OFF" (check_kill_switch), "queue exhausted - shouldn't happen"    *)
(* (channels.c): a tripped channel with nothing pending shows off, dropped   *)
(* requests or not.                                                          *)
TrippedEndsOff ==
  \A c \in tripped : PendingFor(c) = {} => ~chan[c].output_on

(* "turns every channel OFF for real" (on_app_close_shutdown): after Turn    *)
(* Off and Close, no amplifier that obeyed this program is on.               *)
CloseTurnsOff ==
  window = "turned off" => \A c \in Channels \ lost : Arrived(c, "switch") => ~radio[c].on
=============================================================================
