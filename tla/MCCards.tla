------------------------------- MODULE MCCards -------------------------------
(***************************************************************************)
(* Cards for TLC: the user clicks at most MaxClicks times, the dongle      *)
(* changes at most MaxPlugs times, the rack is too hot in at most MaxHot   *)
(* ticks, and time ends at MaxTime.                                        *)
(***************************************************************************)
EXTENDS Cards

CONSTANTS MaxClicks, MaxPlugs, MaxHot, MaxTime

VARIABLES clicks, plugs, hots

mcVars == <<cardVars, clicks, plugs, hots>>

MCInit ==
  /\ CardsInit
  /\ \A c \in Channels : ~radio[c].on
  /\ clicks = 0 /\ plugs = 0 /\ hots = 0

MCNext ==
  \/ clicks < MaxClicks /\ CardsClick /\ clicks' = clicks + 1 /\ UNCHANGED <<plugs, hots>>
  \/ /\ now < MaxTime
     /\ \E ripe, hot \in BOOLEAN :
          /\ CardsTick(ripe, hot)
          /\ hots' = hots + IF hot THEN 1 ELSE 0
     /\ hots' <= MaxHot
     /\ UNCHANGED <<clicks, plugs>>
  \/ /\ plugs < MaxPlugs
     /\ PlugChange /\ UNCHANGED <<drawVars, last, timeVars>>
     /\ plugs' = plugs + 1
     /\ UNCHANGED <<clicks, hots>>

MCSpec == MCInit /\ [][MCNext]_mcVars
==============================================================================
