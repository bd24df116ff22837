--------------------------- MODULE SettingsProofs ---------------------------
(***************************************************************************)
(* What holds of the files beside the program for every set of ports and   *)
(* pictures and any number of runs of it.                                  *)
(***************************************************************************)
EXTENDS Settings, TLAPS

USE SettingsAssumption, NamesDiffer

LEMMA NamesAreApart ==
  /\ None \notin AllPorts /\ None \notin Pictures /\ Torn \notin Pictures
  /\ Itself \notin Pictures /\ Icon \notin Pictures /\ Default \notin Pictures
  /\ None # Torn /\ None # Itself /\ Icon # Default
BY DEF None, Torn, Itself, Icon, Default

LEMMA RefreshedIsListed ==
  ASSUME ports \subseteq AllPorts, NEW text, NEW p \in Refreshed(text)
  PROVE  p \in AllPorts \cup {None}
BY DEF Refreshed

(* Every variable keeps its type: the combo shows a port or nothing, the     *)
(* files hold what the program may have written.                             *)
THEOREM SettingsTypeCorrect == SettingsSpec => []SettingsTypeOK
<1> USE NamesAreApart
<1>1. SettingsInit => SettingsTypeOK
  <2>1. 0 \in 0 .. MaxRuns
    OBVIOUS
  <2> QED
    BY <2>1 DEF SettingsInit, SettingsTypeOK
<1>2. ASSUME SettingsTypeOK, [SettingsNext]_settingsVars
      PROVE  SettingsTypeOK'
  <2> USE DEF SettingsTypeOK
  <2>1. CASE Start
    <3>1. combo' \in AllPorts \cup {None}
      BY <1>2, <2>1, RefreshedIsListed DEF Start, StartPort, Recalled
    <3>2. runs' \in 0 .. MaxRuns
      BY <1>2, <2>1 DEF Start
    <3>3. logo' \in Pictures \cup {None} /\ unloaded' \in BOOLEAN
      BY <1>2, <2>1 DEF Start, LoadedLogo
    <3>4. icon' \in Pictures \cup {Icon, Default}
      BY <2>1, <3>3 DEF Start, IconAtStart, IconWith
    <3>5. gone' \in BOOLEAN
      BY <1>2, <2>1 DEF Start, Missed
    <3> QED
      BY <1>2, <2>1, <3>1, <3>2, <3>3, <3>4, <3>5 DEF Start
  <2>2. CASE AutoConnect
    BY <1>2, <2>2 DEF AutoConnect, Connects, portVars, brandVars
  <2>3. CASE ConnectSensor
    <3>1. PICK opens \in BOOLEAN : Connects(opens)
      BY <2>3 DEF ConnectSensor
    <3>2. /\ {combo', open', port', chosen'} \subseteq AllPorts \cup {None}
          /\ list' \subseteq AllPorts /\ gone' \in BOOLEAN
      BY <1>2, <3>1 DEF Connects, portVars
    <3> QED
      BY <1>2, <2>3, <3>2 DEF ConnectSensor, brandVars
  <2>4. CASE DisconnectSensor
    BY <1>2, <2>4 DEF DisconnectSensor, brandVars
  <2>5. CASE RefreshPorts
    <3>1. combo' \in AllPorts \cup {None} /\ gone' \in BOOLEAN
      BY <1>2, <2>5, RefreshedIsListed DEF RefreshPorts, Missed
    <3> QED
      BY <1>2, <2>5, <3>1 DEF RefreshPorts, brandVars
  <2>6. ASSUME NEW p \in AllPorts, ChoosePort(p)
        PROVE  SettingsTypeOK'
    BY <1>2, <2>6 DEF ChoosePort, brandVars
  <2>7. ASSUME NEW picture \in Pictures, NEW outcome \in Outcomes(picture),
               PickLogo(picture, outcome)
        PROVE  SettingsTypeOK'
    <3>1. bmp' \in Pictures \cup {None, Torn}
      BY <1>2, <2>7 DEF PickLogo, Saved
    <3>2. icon' \in Pictures \cup {Icon, Default}
      BY <1>2, <2>7 DEF PickLogo, IconWith
    <3>3. source' \in Pictures \cup {None, Itself} /\ logo' \in Pictures \cup {None}
      BY <1>2, <2>7 DEF PickLogo, Named
    <3>4. halfway' \in BOOLEAN /\ unloaded' \in BOOLEAN
      BY <2>7 DEF PickLogo
    <3> QED
      BY <1>2, <2>7, <3>1, <3>2, <3>3, <3>4 DEF PickLogo, portVars
  <2>8. CASE PickBrandingItself
    BY <1>2, <2>8 DEF PickBrandingItself, IconWith, portVars
  <2>9. CASE ResetLogo
    BY <1>2, <2>9 DEF ResetLogo, IconReset, portVars
  <2>10. CASE Exit
    BY <1>2, <2>10 DEF Exit
  <2>11. ASSUME NEW S \in SUBSET AllPorts, PortsChange(S)
         PROVE  SettingsTypeOK'
    BY <1>2, <2>11 DEF PortsChange, portVars, brandVars
  <2>12. CASE IconFileChanges
    BY <1>2, <2>12 DEF IconFileChanges, portVars, brandVars
  <2>13. CASE UNCHANGED settingsVars
    BY <1>2, <2>13 DEF settingsVars, portVars, brandVars
  <2> QED
    BY <1>2, <2>1, <2>2, <2>3, <2>4, <2>5, <2>6, <2>7, <2>8, <2>9, <2>10, <2>11, <2>12,
       <2>13 DEF SettingsNext
<1> QED
  BY <1>1, <1>2, PTL DEF SettingsSpec

-----------------------------------------------------------------------------
(* The port last opened stays in the .ini and in the list, as long as it was *)
(* there whenever the ports were listed, through any number of restarts.     *)
THEOREM PortStaysRemembered == SettingsSpec => []PortIsRemembered
<1> USE NamesAreApart
<1>1. SettingsInit => PortIsRemembered
  BY DEF SettingsInit, PortIsRemembered
<1>2. ASSUME SettingsTypeOK, PortIsRemembered, [SettingsNext]_settingsVars
      PROVE  PortIsRemembered'
  <2> USE DEF PortIsRemembered
  <2>1. ASSUME Start, chosen # None, ~gone'
        PROVE  combo' = chosen /\ port = chosen
    <3>1. chosen \in ports /\ ~gone
      BY <2>1 DEF Start, Missed
    <3>2. port = chosen
      BY <1>2, <2>1, <3>1
    <3> QED
      BY <2>1, <3>1, <3>2 DEF Start, StartPort, Recalled
  <2>2. CASE Start
    BY <2>1, <2>2 DEF Start
  <2>3. CASE AutoConnect \/ ConnectSensor
    BY <1>2, <2>3 DEF AutoConnect, ConnectSensor, Connects, portVars
  <2>4. CASE DisconnectSensor
    BY <1>2, <2>4 DEF DisconnectSensor
  <2>5. CASE RefreshPorts
    <3>1. SUFFICES ASSUME chosen # None, ~gone'
                   PROVE  combo' = chosen /\ port = chosen
      BY <2>5 DEF RefreshPorts
    <3>2. chosen \in ports /\ ~gone
      BY <2>5, <3>1 DEF RefreshPorts, Missed
    <3>3. combo = chosen /\ port = chosen
      BY <1>2, <2>5, <3>1, <3>2 DEF RefreshPorts
    <3> QED
      BY <2>5, <3>2, <3>3 DEF RefreshPorts, Refreshed
  <2>6. ASSUME NEW p \in AllPorts, ChoosePort(p)
        PROVE  PortIsRemembered'
    BY <2>6 DEF ChoosePort
  <2>7. CASE UNCHANGED <<portVars, running>>
    BY <1>2, <2>7 DEF portVars
  <2>8. CASE Exit
    BY <1>2, <2>8 DEF Exit
  <2> QED
    BY <1>2, <2>2, <2>3, <2>4, <2>5, <2>6, <2>7, <2>8
    DEF SettingsNext, PickLogo, PickBrandingItself, ResetLogo, PortsChange,
        IconFileChanges, settingsVars
<1> QED
  BY <1>1, <1>2, SettingsTypeCorrect, PTL DEF SettingsSpec

(* Memory and file hold the same logo, but for a pick that stopped halfway,  *)
(* a reset that could not delete, and a start that could not load.           *)
THEOREM LogoSurvives == SettingsSpec => []LogoSurvivesRestart
<1> USE NamesAreApart
<1>1. SettingsInit => LogoSurvivesRestart
  BY DEF SettingsInit, LogoSurvivesRestart
<1>2. ASSUME SettingsTypeOK, LogoSurvivesRestart, [SettingsNext]_settingsVars
      PROVE  LogoSurvivesRestart'
  <2> USE DEF LogoSurvivesRestart, LoadedLogo
  <2>1. CASE Start
    BY <2>1 DEF Start
  <2>2. ASSUME NEW picture \in Pictures, NEW outcome \in Outcomes(picture),
               PickLogo(picture, outcome)
        PROVE  LogoSurvivesRestart'
    <3>1. CASE outcome = "nothing"
      BY <1>2, <2>2, <3>1 DEF PickLogo, Saved, Adopted, Named
    <3>2. CASE outcome \in {"cut", "unread"}
      BY <2>2, <3>2 DEF PickLogo
    <3>3. CASE outcome = "done"
      BY <2>2, <3>3 DEF PickLogo, Saved, Adopted
    <3> QED
      BY <2>2, <3>1, <3>2, <3>3 DEF Outcomes
  <2>3. CASE PickBrandingItself
    BY <2>3 DEF PickBrandingItself
  <2>4. CASE ResetLogo
    BY <2>4 DEF ResetLogo
  <2>5. CASE Exit
    BY <2>5 DEF Exit
  <2>6. CASE UNCHANGED <<running, brandVars>>
    BY <1>2, <2>6 DEF brandVars
  <2> QED
    BY <1>2, <2>1, <2>2, <2>3, <2>4, <2>5, <2>6
    DEF SettingsNext, AutoConnect, ConnectSensor, DisconnectSensor, RefreshPorts,
        ChoosePort, PortsChange, IconFileChanges, settingsVars
<1> QED
  BY <1>1, <1>2, SettingsTypeCorrect, PTL DEF SettingsSpec

(* Name and picture belong together, but for a pick that stopped halfway,    *)
(* and the icon is the logo's or that of branding\icon.ico.                  *)
THEOREM BrandingStaysTogether == SettingsSpec => []BrandingAgrees
<1> USE NamesAreApart
<1>1. SettingsInit => BrandingAgrees
  BY DEF SettingsInit, BrandingAgrees
<1>2. ASSUME SettingsTypeOK, BrandingAgrees, [SettingsNext]_settingsVars
      PROVE  BrandingAgrees'
  <2> USE DEF BrandingAgrees
  <2>1. CASE Start
    BY <1>2, <2>1 DEF Start, IconAtStart, IconWith
  <2>2. ASSUME NEW picture \in Pictures, NEW outcome \in Outcomes(picture),
               PickLogo(picture, outcome)
        PROVE  BrandingAgrees'
    <3>1. CASE outcome = "nothing"
      BY <1>2, <2>2, <3>1 DEF PickLogo, Saved, Adopted, Named
    <3>2. CASE outcome \in {"cut", "unread"}
      BY <1>2, <2>2, <3>2 DEF PickLogo, Adopted
    <3>3. CASE outcome = "done"
      BY <2>2, <3>3 DEF PickLogo, Saved, Adopted, Named, IconWith
    <3> QED
      BY <2>2, <3>1, <3>2, <3>3 DEF Outcomes
  <2>3. CASE PickBrandingItself
    BY <2>3 DEF PickBrandingItself, IconWith
  <2>4. CASE ResetLogo
    BY <2>4 DEF ResetLogo, IconReset
  <2>5. CASE Exit
    BY <1>2, <2>5 DEF Exit
  <2>6. CASE UNCHANGED <<running, brandVars>>
    BY <1>2, <2>6 DEF brandVars
  <2> QED
    BY <1>2, <2>1, <2>2, <2>3, <2>4, <2>5, <2>6
    DEF SettingsNext, AutoConnect, ConnectSensor, DisconnectSensor, RefreshPorts,
        ChoosePort, PortsChange, IconFileChanges, settingsVars
<1> QED
  BY <1>1, <1>2, SettingsTypeCorrect, PTL DEF SettingsSpec
=============================================================================
