----------------------------- MODULE MCConsole -----------------------------
(***************************************************************************)
(* Console for TLC: the user clicks at most MaxClicks times and the dongle *)
(* changes at most MaxPlugs times; the timer ticks without bound.          *)
(***************************************************************************)
EXTENDS Console

CONSTANTS MaxClicks, MaxPlugs

VARIABLES clicks, plugs

mcVars == <<consoleVars, clicks, plugs>>

MCInit ==
  /\ ConsoleInit
  /\ \A c \in Channels : radio[c].on
  /\ clicks = 0
  /\ plugs = 0

MCClick ==
  /\ clicks < MaxClicks
  /\ clicks' = clicks + 1
  /\ UNCHANGED plugs
  /\ Click

MCTick(ripe, hot) == Tick(ripe, hot) /\ UNCHANGED <<clicks, plugs>>

MCPlugChange ==
  /\ plugs < MaxPlugs
  /\ plugs' = plugs + 1
  /\ UNCHANGED clicks
  /\ PlugChange

(* Both bounds are used up and the window is closed. *)
AllDone == window # "open" /\ plugs = MaxPlugs /\ UNCHANGED mcVars

MCNext ==
  \/ MCClick
  \/ \E ripe, hot \in BOOLEAN : MCTick(ripe, hot)
  \/ MCPlugChange
  \/ AllDone

MCSpec ==
  /\ MCInit
  /\ [][MCNext]_mcVars
  /\ WF_mcVars(\E hot \in BOOLEAN : MCTick(TRUE, hot))
=============================================================================
