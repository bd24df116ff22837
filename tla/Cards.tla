-------------------------------- MODULE Cards --------------------------------
(***************************************************************************)
(* What the cards of the control window show, over Console: the status     *)
(* line of each channel, the line in the activity log for each command     *)
(* that settled, and the time a channel has been on.                       *)
(*                                                                         *)
(* A card is redrawn only when the part of the state kept in g_ui_cache    *)
(* has changed since it was drawn, and the same comparison decides what is *)
(* logged.  The status line also depends on the connection, which is not   *)
(* part of the cache, so that every change of the connection must make the *)
(* cache stale.  Time counts in ticks of the timer.                        *)
(*                                                                         *)
(* A definition that no action uses, written just before the one it would  *)
(* replace, is a faulty variant of it: PROJECT.json names, under mutants,  *)
(* the property that notices the fault.                                    *)
(***************************************************************************)
EXTENDS Console

CONSTANTS
  SECOND,       \* ticks in a second, 10 in the code
  LABEL_TICKS,  \* every how many ticks the uptime is shown, 10 in the code
  Stale         \* a cache entry that is not valid

(* A ChannelUiCache; an entry without valid is Stale. *)
Entry == [busy : BOOLEAN, output_on : BOOLEAN, level : Levels, tripped : BOOLEAN]

ASSUME CardsAssumption ==
  /\ SECOND \in Nat \ {0}
  /\ LABEL_TICKS \in Nat \ {0}
  /\ Stale \notin Entry

VARIABLES
  cache,     \* g_ui_cache: what each card was last drawn from, or Stale
  status,    \* the text of each card's status line
  last,      \* last_command of each channel
  log,       \* the activity log, of settled commands
  now,       \* GetTickCount64(), in ticks
  counter,   \* g_uptime_tick_counter, modulo LABEL_TICKS
  base,      \* g_channel_uptime_base_seconds
  since,     \* g_channel_on_since_ms
  prev,      \* g_channel_on_prev
  shown,     \* the uptime on each card, in seconds
  lit        \* history: how long each channel has had output_on set

drawVars == <<cache, status, log>>
timeVars == <<now, counter, base, since, prev, shown, lit>>
cardVars == <<consoleVars, drawVars, last, timeVars>>

-----------------------------------------------------------------------------
(* ui_refresh_channel() for every channel. *)
KeyWithoutTrip(r, c) ==
  [busy |-> r.chan[c].busy, output_on |-> r.chan[c].output_on,
   level |-> r.chan[c].level, tripped |-> FALSE]
Key(r, c) ==
  [busy |-> r.chan[c].busy, output_on |-> r.chan[c].output_on,
   level |-> r.chan[c].level, tripped |-> c \in tripped]

LEVEL_LABELS == [level \in Levels |->
  CASE level = LEVEL_LOW -> "LOW" [] level = LEVEL_MEDIUM -> "MEDIUM"
    [] level = LEVEL_HIGH -> "HIGH" [] OTHER -> "OFF"]

StatusText(r, c, up) ==
  CASE c \in tripped                       -> "TRIPPED"
    [] c \notin tripped /\ r.chan[c].busy  -> "SENDING"
    [] OTHER -> IF r.chan[c].output_on /\ up THEN LEVEL_LABELS[r.chan[c].level]
                ELSE "STANDBY"

(* A send of a drawn channel settled since it was drawn.                     *)
Settles(drawn, r, c) == drawn[c] # Stale /\ drawn[c].busy /\ ~r.chan[c].busy

(* Cards drawn from drawn, showing text, are drawn again.                    *)
Drawn(drawn, text, lines, r, up, commands) ==
  [cache  |-> [c \in Channels |-> Key(r, c)],
   status |-> [c \in Channels |-> IF drawn[c] = Key(r, c) THEN text[c]
                                  ELSE StatusText(r, c, up)],
   log    |-> lines \o LET Line(c) == IF Settles(drawn, r, c)
                                      THEN <<<<c, commands[c]>>>> ELSE <<>>
                       IN EachInTurn([c \in Channels |-> Line(c)])]

SetDrawn(new) ==
  \E d \in {new} : cache' = d.cache /\ status' = d.status /\ log' = d.log

(* conn_on_connected_changed(): every card is stale and drawn at once.       *)
AllStale == [c \in Channels |-> Stale]
CalledBackQuietly(up) == [cache |-> AllStale, status |-> status, log |-> log]
CalledBack(up) == Drawn(AllStale, status, log, Rack, up, last)

-----------------------------------------------------------------------------
(* WM_TIMER as far as the cards go.  conn_poll and the retry call back when  *)
(* they find the link lost or try it; then a request may settle, and the     *)
(* cards are drawn, before the kill switch is looked at.                     *)
CallsBack == (connected /\ ~plugged) \/ RetryCount(connected /\ plugged) = RetryTicks

Sent(ripe) ==
  Poll(OnConnectedChanged(Rack, connected' /\ ~connected), ripe, connected')

SettlesNow(ripe) == inflight # NoRequest /\ ripe

TickDraws(ripe) ==
  LET r == Sent(ripe)
      commands == IF SettlesNow(ripe)
                  THEN [last EXCEPT ![inflight.channel] = inflight.kind] ELSE last
      before == IF CallsBack THEN CalledBack(connected')
                ELSE [cache |-> cache, status |-> status, log |-> log]
  IN /\ SetDrawn(Drawn(before.cache, before.status, before.log, r, connected', commands))
     /\ last' = commands

(* The uptime: an edge of output_on is seen in the tick in which it happens. *)
SinceNow(on, c) == IF on[c] /\ ~prev[c] THEN now' ELSE since[c]

BaseForgotten(on, c) == base[c]
BaseNow(on, c) ==
  IF ~on[c] /\ prev[c] THEN base[c] + (now' - since[c]) \div SECOND ELSE base[c]

channel_uptime_seconds(on, c) ==
  base'[c] + IF on[c] THEN (now' - since'[c]) \div SECOND ELSE 0

TickCounts(ripe) ==
  LET on == [c \in Channels |-> Sent(ripe).chan[c].output_on] IN
  /\ now' \in {now + 1, now + 3}   \* a tick may come late
  /\ lit' = [c \in Channels |-> lit[c] + IF chan[c].output_on THEN now' - now ELSE 0]
  /\ since' = [c \in Channels |-> SinceNow(on, c)]
  /\ base' = [c \in Channels |-> BaseNow(on, c)]
  /\ prev' = on
  /\ counter' = (counter + 1) % LABEL_TICKS
  /\ shown' = IF counter' = 0
              THEN [c \in Channels |-> channel_uptime_seconds(on, c)] ELSE shown

CardsTick(ripe, hot) ==
  /\ Tick(ripe, hot)
  /\ TickDraws(ripe)
  /\ TickCounts(ripe)

(* WM_CREATE has drawn every card once, without a link. *)
CardsInit ==
  /\ ConsoleInit
  /\ cache = [c \in Channels |-> Key(Rack, c)]
  /\ status = [c \in Channels |-> "STANDBY"]
  /\ last = [c \in Channels |-> "none"]
  /\ log = <<>>
  /\ now = 0
  /\ counter = 0
  /\ base = [c \in Channels |-> 0]
  /\ since = [c \in Channels |-> 0]
  /\ prev = [c \in Channels |-> FALSE]
  /\ shown = [c \in Channels |-> 0]
  /\ lit = [c \in Channels |-> 0]

(* Connect, Disconnect and a close with a link call back; no other handler   *)
(* draws a card.                                                             *)
CardsClick ==
  /\ \/ /\ Click
        /\ connected' = connected
        /\ UNCHANGED drawVars
     \/ ConnectClicked /\ SetDrawn(CalledBack(connected'))
     \/ /\ \E choice \in {"turned off", "kept running"} : CloseWindow(choice)
        /\ connected
        /\ SetDrawn(Drawn(AllStale, status, log,
                          [Rack EXCEPT !.chan = chan'], FALSE, last))
  /\ UNCHANGED <<last, timeVars>>

CardsNext ==
  \/ CardsClick
  \/ \E ripe, hot \in BOOLEAN : CardsTick(ripe, hot)
  \/ PlugChange /\ UNCHANGED <<drawVars, last, timeVars>>

CardsSpec == CardsInit /\ [][CardsNext]_cardVars

-----------------------------------------------------------------------------
CardsTypeOK ==
  /\ ConsoleTypeOK
  /\ \A c \in Channels :
       /\ cache[c] \in Entry \cup {Stale}
       /\ status[c] \in {"TRIPPED", "SENDING", "STANDBY"} \cup
                        {LEVEL_LABELS[level] : level \in Levels}
       /\ since[c] \in 0 .. now
       /\ base[c] \in 0 .. now
       /\ prev[c] \in BOOLEAN
  /\ counter \in 0 .. LABEL_TICKS - 1

(* After every tick each card shows the state of its channel and of the link *)
(* as they then are, however many events one tick has handled; only a trip   *)
(* of the kill switch in this very tick shows with the next one.             *)
CardsCurrent ==
  [][now' # now =>
       \A c \in Channels :
         \/ c \in tripped' \ tripped
         \/ status'[c] = StatusText([Rack EXCEPT !.chan = chan'], c, connected')]_cardVars

(* "A send just settled - log what it applied": there is no line but that of *)
(* the send which settles, in the same tick and with its own command; and    *)
(* there is one, also when the link comes or goes in that tick, if nothing   *)
(* else is pending for its channel.  (Of several pending for one channel the *)
(* later ones may go unlogged: the first to settle clears busy.)             *)
LogMatchesSettles ==
  [][LET q == inflight
         line == Append(log, <<q.channel, q.kind>>)
     IN IF q = NoRequest \/ inflight' # NoRequest THEN log' = log
        ELSE /\ log' \in {log, line}
             /\ chan[q.channel].busy /\ Cardinality(PendingFor(q.channel)) = 1
                => log' = line]_cardVars

(* The odometer of a card (comment on g_channel_uptime_base_seconds) never   *)
(* runs back, and counts only time in which the channel was on.              *)
UptimeIsHonest ==
  [][\A c \in Channels :
       /\ shown'[c] >= shown[c]
       /\ shown'[c] * SECOND <= lit'[c]]_cardVars
==============================================================================
