------------------------------ MODULE Settings ------------------------------
(***************************************************************************)
(* What the control window of main.c keeps in files beside the program,    *)
(* and takes from them at its next start: the port of the temperature      *)
(* sensors ([Sensor] Port in the .ini), the user's logo (branding.bmp, and *)
(* its name under [Branding] SourceFile), and an icon somebody may have    *)
(* put there (branding\icon.ico).  The serial ports come and go, the logo  *)
(* is written by a CREATE_ALWAYS and three writes any of which may fail,   *)
(* and the program may end at any time: the files are all that is left.    *)
(*                                                                         *)
(* A definition that no action uses, written just before the one it would  *)
(* replace, is a faulty variant of it: PROJECT.json names, under mutants,  *)
(* the property that notices the fault.                                    *)
(***************************************************************************)
EXTENDS Naturals

CONSTANTS
  AllPorts,    \* external: the serial ports there can be
  Pictures,    \* the files the user can pick as a logo
  Webp,        \* those that are WebP files, whatever they are called
  MaxRuns      \* bound: how often the program is started

ASSUME SettingsAssumption ==
  /\ Webp \subseteq Pictures
  /\ MaxRuns \in Nat

None   == "none"      \* nothing there
Torn   == "torn"      \* a branding.bmp cut short: LoadImageA cannot read it
Itself == "branding.bmp"
Icon   == "icon.ico"
Default == "default"

ASSUME NamesDiffer == {None, Torn, Itself, Icon, Default} \cap (Pictures \cup AllPorts) = {}

VARIABLES
  running,    \* the window exists
  asked,      \* WM_APP_AUTOCONNECT has been handled
  ports,      \* external: the ports present
  list,       \* the ports the list of IDC_SENSOR_PORT_COMBO was last filled with
  combo,      \* the text of IDC_SENSOR_PORT_COMBO
  open,       \* the port g_sensor has open
  port,       \* .ini: [Sensor] Port
  bmp,        \* branding.bmp: the picture in it, Torn or None
  ico,        \* external: there is a branding\icon.ico
  logo,       \* g_custom_logo_bmp: the picture in it
  icon,       \* the icon the window shows: a picture, Icon or Default
  source,     \* .ini: [Branding] SourceFile
  halfway,    \* history: the last pick wrote branding.bmp but did not take it over
  unloaded,   \* history: WM_CREATE could not load a branding.bmp that is whole
  runs,       \* how often the program was started
  chosen,     \* history: the port last opened, unless the user chose another since
  gone        \* history: that port was missing when the ports were listed since

portVars  == <<list, combo, open, port, chosen, gone>>
brandVars == <<bmp, logo, icon, source, halfway, unloaded>>
settingsVars == <<running, asked, ports, portVars, brandVars, ico, runs>>

-----------------------------------------------------------------------------
(* serial_list_ports() and refresh_combo_ports(): the list is rebuilt, and   *)
(* the text the combo had is chosen again if it is still in the list, else   *)
(* the first entry, which may be any: the registry and the device manager    *)
(* list the ports in an order of their own.  An empty list leaves the combo  *)
(* empty.                                                                    *)
RefreshedToFirst(text) == IF ports = {} THEN {None} ELSE ports
Refreshed(text) ==
  CASE ports = {}                    -> {None}
    [] text \in ports                -> {text}
    [] ports # {} /\ text \notin ports -> ports

(* load_sensor_port(): the port of the .ini, if it is listed.                *)
Recalled(texts) == IF port \in ports THEN {port} ELSE texts

(* history: listing the ports while the one last opened is away.             *)
Missed == gone \/ (chosen # None /\ chosen \notin ports)

-----------------------------------------------------------------------------
(* load_custom_logo(), apply_custom_app_icon() and load_branding_icon(), in  *)
(* this order: the icon of the window follows the logo, if there is one, and *)
(* an icon file is applied over it.  A branding.bmp that is whole may still   *)
(* fail to load, which nobody is told.                                       *)
LoadedLogo == IF bmp = Torn THEN None ELSE bmp

IconWith(picture, before) == IF picture = None THEN before ELSE picture

IconAtStart(picture) == IF ico THEN Icon ELSE IconWith(picture, Default)

SettingsInit ==
  /\ running = FALSE
  /\ asked = FALSE
  /\ ports \in SUBSET AllPorts
  /\ list = {} /\ combo = None /\ open = None /\ port = None
  /\ bmp = None
  /\ ico \in BOOLEAN
  /\ logo = None /\ icon = Default /\ source = None
  /\ halfway = FALSE /\ unloaded = FALSE
  /\ runs = 0
  /\ chosen = None /\ gone = FALSE

(* WM_CREATE.                                                                *)
StartPort == Recalled(Refreshed(None))

Start ==
  /\ ~running
  /\ runs < MaxRuns
  /\ running' = TRUE
  /\ asked' = FALSE
  /\ runs' = runs + 1
  /\ list' = ports
  /\ combo' \in StartPort
  /\ open' = None
  /\ gone' = Missed
  /\ logo' \in {LoadedLogo, None}
  /\ icon' = IconAtStart(logo')
  /\ unloaded' = (logo' # LoadedLogo)
  /\ UNCHANGED <<ports, port, bmp, ico, source, halfway, chosen>>

(* sensor_connect() and save_sensor_port(), which on_sensor_connect_clicked  *)
(* and auto_connect_sensor_on_startup share: the port is stored only once it *)
(* has been opened, which may fail while it is present, held by the service. *)
Connects(opens) ==
  \/ /\ opens /\ combo \in ports
     /\ open' = combo
     /\ port' = combo
     /\ chosen' = combo
     /\ gone' = FALSE
     /\ UNCHANGED <<list, combo>>
  \/ /\ ~(opens /\ combo \in ports)
     /\ UNCHANGED portVars

AutoConnect ==
  /\ running /\ ~asked
  /\ asked' = TRUE
  /\ IF open # None \/ combo = None
     THEN UNCHANGED portVars
     ELSE \E opens \in BOOLEAN : Connects(opens)
  /\ UNCHANGED <<running, ports, brandVars, ico, runs>>

ConnectSensor ==
  /\ running
  /\ open = None /\ combo # None
  /\ \E opens \in BOOLEAN : Connects(opens)
  /\ UNCHANGED <<running, asked, ports, brandVars, ico, runs>>

DisconnectSensor ==
  /\ running
  /\ open # None
  /\ open' = None
  /\ UNCHANGED <<running, asked, ports, list, combo, port, chosen, gone, brandVars, ico, runs>>

RefreshPorts ==
  /\ running
  /\ list' = ports
  /\ combo' \in Refreshed(combo)
  /\ gone' = Missed
  /\ UNCHANGED <<running, asked, ports, open, port, chosen, brandVars, ico, runs>>

ChoosePort(p) ==
  /\ running
  /\ p \in list \ {combo}
  /\ combo' = p
  /\ chosen' = None
  /\ gone' = FALSE
  /\ UNCHANGED <<running, asked, ports, list, open, port, brandVars, ico, runs>>

-----------------------------------------------------------------------------
(* browse_and_set_logo(): the picture is decoded and saved as branding.bmp,  *)
(* loaded from there, and its name noted.  outcome says how far that got:    *)
(* nothing was written (not decoded, or the file not created), it was cut    *)
(* short, it is complete but could not be loaded again, or all went well.    *)
(* A WebP file is refused at once.                                           *)
Outcomes(picture) == IF picture \in Webp THEN {"nothing"}
                                         ELSE {"nothing", "cut", "unread", "done"}

SavedOnce(picture, outcome) ==
  CASE outcome = "nothing" \/ bmp # None -> bmp
    [] outcome = "cut"     -> Torn
    [] OTHER               -> picture
Saved(picture, outcome) ==
  CASE outcome = "nothing" -> bmp
    [] outcome = "cut"     -> Torn
    [] OTHER               -> picture

Adopted(outcome) == outcome = "done"

NamedWhenPicked(picture, outcome) == picture
Named(picture, outcome) == IF Adopted(outcome) THEN picture ELSE source

PickLogo(picture, outcome) ==
  /\ running
  /\ bmp' = Saved(picture, outcome)
  /\ logo' = IF Adopted(outcome) THEN picture ELSE logo
  /\ icon' = IF Adopted(outcome) THEN IconWith(picture, icon) ELSE icon
  /\ source' = Named(picture, outcome)
  /\ halfway' = (outcome \in {"cut", "unread"} \/ (halfway /\ outcome = "nothing"))
  /\ unloaded' = (unloaded /\ ~Adopted(outcome))
  /\ UNCHANGED <<running, asked, ports, portVars, ico, runs>>

(* Picking branding.bmp itself saves nothing, and loads and names it.        *)
PickBrandingItself ==
  /\ running
  /\ bmp \notin {None, Torn}
  /\ logo' = bmp
  /\ icon' = IconWith(bmp, icon)
  /\ source' = Itself
  /\ halfway' = FALSE /\ unloaded' = FALSE
  /\ UNCHANGED <<running, asked, ports, portVars, bmp, ico, runs>>

(* reset_custom_logo(): the file is deleted, or cannot be, unnoticed.        *)
IconReset == Default

ResetLogo ==
  /\ running
  /\ bmp' \in {None, bmp}
  /\ logo' = None
  /\ icon' = IconReset
  /\ source' = None
  /\ halfway' = FALSE /\ unloaded' = FALSE
  /\ UNCHANGED <<running, asked, ports, portVars, ico, runs>>

-----------------------------------------------------------------------------
(* WM_DESTROY, or the end of the process without it: the files stay.         *)
Exit ==
  /\ running
  /\ running' = FALSE
  /\ open' = None /\ list' = {} /\ combo' = None
  /\ logo' = None
  /\ icon' = Default
  /\ unloaded' = FALSE
  /\ UNCHANGED <<asked, ports, port, chosen, gone, bmp, ico, source, halfway, runs>>

(* external: adapters are plugged and unplugged, the icon file comes and     *)
(* goes while the program is not running.                                    *)
PortsChange(S) ==
  /\ S # ports
  /\ ports' = S
  /\ UNCHANGED <<running, asked, portVars, brandVars, ico, runs>>

IconFileChanges ==
  /\ ~running
  /\ ico' = ~ico
  /\ UNCHANGED <<running, asked, ports, portVars, brandVars, runs>>

SettingsNext ==
  \/ Start
  \/ AutoConnect
  \/ ConnectSensor
  \/ DisconnectSensor
  \/ RefreshPorts
  \/ \E p \in AllPorts : ChoosePort(p)
  \/ \E picture \in Pictures : \E outcome \in Outcomes(picture) : PickLogo(picture, outcome)
  \/ PickBrandingItself
  \/ ResetLogo
  \/ Exit
  \/ \E S \in SUBSET AllPorts : PortsChange(S)
  \/ IconFileChanges

SettingsSpec == SettingsInit /\ [][SettingsNext]_settingsVars

-----------------------------------------------------------------------------
SettingsTypeOK ==
  /\ running \in BOOLEAN /\ asked \in BOOLEAN
  /\ ports \subseteq AllPorts /\ list \subseteq AllPorts
  /\ {combo, open, port, chosen} \subseteq AllPorts \cup {None}
  /\ bmp \in Pictures \cup {None, Torn}
  /\ ico \in BOOLEAN /\ gone \in BOOLEAN /\ halfway \in BOOLEAN /\ unloaded \in BOOLEAN
  /\ logo \in Pictures \cup {None}
  /\ icon \in Pictures \cup {Icon, Default}
  /\ source \in Pictures \cup {None, Itself}
  /\ runs \in 0 .. MaxRuns

(* The sensors' port is remembered: from when it was opened until the user   *)
(* chooses another in the list, through refreshes, reconnects and restarts,  *)
(* it is the port in the .ini and, while the window runs, the one selected,  *)
(* as long as it was plugged in whenever the ports were listed.  (Missing    *)
(* once is enough: the first port listed takes its place, and AutoConnect    *)
(* stores that.)                                                             *)
PortIsRemembered ==
  chosen # None /\ ~gone =>
    /\ port = chosen
    /\ running => combo = chosen

(* A restart shows the logo the window shows: memory and branding.bmp hold   *)
(* the same picture after any number of picks and restarts, unless the last  *)
(* pick stopped after it had opened the file for writing, a reset could not  *)
(* delete it, or the start could not load a file that was whole.             *)
LogoSurvivesRestart ==
  running =>
    logo = LoadedLogo \/ halfway \/ unloaded \/ (logo = None /\ source = None)

(* Name, picture and icon belong together: SourceFile names the picture in   *)
(* branding.bmp, which no pick that fails before it writes, no reset and no  *)
(* restart parts from it (one cut short while writing does, although they    *)
(* "can never disagree", as browse_and_set_logo() has it); and the icon in the task bar is the logo's, unless *)
(* the one from branding\icon.ico was put over it when the window was        *)
(* created; then it stays until a logo is picked or reset.                   *)
BrandingAgrees ==
  /\ source \in {None, Itself, bmp} \/ halfway
  /\ running => icon = Icon \/ icon = (IF logo = None THEN Default ELSE logo)
=============================================================================
