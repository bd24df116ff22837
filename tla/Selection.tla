----------------------------- MODULE Selection ------------------------------
(***************************************************************************)
(* Which cards the Bulk Actions of main.c are for, and how the user picks  *)
(* them: by a card's checkbox, by a click on its background while "Card    *)
(* Click" is on, by row, all or none.  A background click is no message of *)
(* the card: the window gets it with its coordinates and finds the card    *)
(* from the size it was last laid out for.  What the window shows of the   *)
(* selection (borders, checkboxes, buttons, row list, count) is stored in  *)
(* the controls and set piecemeal by every handler; the properties relate  *)
(* it to the selection.  What a bulk button commands is in Console.        *)
(*                                                                         *)
(* A definition that no action uses, written just before the one it would  *)
(* replace, is a faulty variant of it: PROJECT.json names, under mutants,  *)
(* the property that notices the fault.                                    *)
(***************************************************************************)
EXTENDS Layout, FiniteSets

CONSTANTS
  ScreenSizes,   \* the client sizes the window is given
  Points,        \* the pixels clicked on, <<x, y>>
  BusySets,      \* the sets of channels that may have a send on its way
  MaxClicks      \* bound: the clicks that change the selection

ASSUME SelectionAssumption ==
  /\ ScreenSizes \subseteq Sizes
  /\ Points \subseteq Int \X Int
  /\ BusySets \subseteq SUBSET Cards
  /\ MaxClicks \in Nat

VARIABLES
  size,       \* g_last_client_w, g_last_client_h
  drawn,      \* the size the controls were last moved for
  linked,     \* conn_is_connected()
  armed,      \* g_bulk_select_mode, "Card Click: On"
  picked,     \* the channels whose g_channel_selected is set
  lit,        \* the cards last painted with the border of a selected one
  boxes,      \* the checkboxes are visible
  usable,     \* the buttons of BULK_ALWAYS_BTN_IDS and of the cards are enabled
  targets,    \* the buttons of BULK_TARGET_BTN_IDS are enabled
  combo,      \* the entry IDC_BULK_ROWSELECT_COMBO shows
  label,      \* the number IDC_BULK_SELECTED_LBL shows, or Sending
  marker,     \* g_bulk_last_power_action
  busy,       \* channels_get(c)->busy: the channels with a send on its way
  clicks      \* how many clicks have changed the selection

shownVars == <<lit, boxes, usable, targets, combo, label, marker>>
selectionVars == <<size, drawn, linked, armed, picked, shownVars, busy, clicks>>

SelectAllEntry == GRID_ROWS
CustomEntry    == GRID_ROWS + 1
Sending        == -1
PowerActions   == {"none", "on", "off"}

RowOf(r) == {c \in Cards : Row(c) = r}
Toggled(S, T) == (S \ T) \cup (T \ S)

-----------------------------------------------------------------------------
(* WM_CREATE ends with everything built, set_channel_controls_enabled of     *)
(* FALSE and every card refreshed, which hides the checkboxes add_ctrl()     *)
(* made visible; WinMain lays the window out before it is shown.             *)
SelectionInit ==
  /\ size \in ScreenSizes
  /\ drawn = size
  /\ linked = FALSE
  /\ armed = FALSE
  /\ picked = {}
  /\ lit = {}
  /\ boxes = FALSE
  /\ usable = FALSE
  /\ targets = FALSE
  /\ combo = CustomEntry
  /\ label = 0
  /\ marker = "none"
  /\ busy = {}
  /\ clicks = 0

(* ui_refresh_bulk_selected_label(), with the count of the selection S.      *)
LabelFor(S) == IF S \cap busy # {} THEN Sending ELSE Cardinality(S)

(* What every change of the selection ends with: the cards in changed are    *)
(* repainted, the count and the target buttons refreshed, the row list set.  *)
RowListUnlessCustom(entry) == IF entry = CustomEntry THEN combo ELSE entry
RowList(entry) == entry

Repainted(S, changed) == (lit \ changed) \cup (S \cap changed)

Pick(S, changed, entry) ==
  /\ clicks < MaxClicks
  /\ clicks' = clicks + 1
  /\ picked' = S
  /\ lit' = Repainted(S, changed)
  /\ label' = LabelFor(S)
  /\ targets' = (linked /\ armed)
  /\ combo' = RowList(entry)
  /\ UNCHANGED <<size, drawn, linked, armed, boxes, usable, marker, busy>>

-----------------------------------------------------------------------------
(* A card's checkbox: visible or hidden, but never disabled.  The button     *)
(* sends its id, and the handler finds the card from it.                     *)
CheckboxClicked(c) ==
  /\ boxes
  /\ \E id \in {IdOf(c, "select")} :
       \E d \in channel_index_from_id(id) :
         Pick(Toggled(picked, {d}), {d}, CustomEntry)

(* A click reaches the window unless a control that takes clicks is drawn    *)
(* there, and the window then finds the card by its coordinates.             *)
ClaimedAt ==
  [s \in ScreenSizes |-> [p \in Points |->
     {name \in Clickable \cup {"select"} :
        \E c \in Cards : Covers(OnCard(s, c, Parts(s)[name]), p[1], p[2])}]]

Claimed(p) == \E name \in ClaimedAt[drawn][p] : name = "select" => boxes

FoundAt == [s \in ScreenSizes |-> [p \in Points |-> FirstHit(s, p[1], p[2])]]

ClickedCard(p) == FoundAt[size][p]

BackgroundClicked(p) ==
  /\ armed
  /\ ~Claimed(p)
  /\ ClickedCard(p) # {}
  /\ Pick(Toggled(picked, ClickedCard(p)), ClickedCard(p), CustomEntry)

ClearClicked ==
  /\ usable
  /\ Pick({}, picked, CustomEntry)

SelectAllClicked ==
  /\ usable
  /\ Pick(Cards, Cards \ picked, SelectAllEntry)

(* The row list is never disabled.  Its last entry leaves the selection be,  *)
(* and the list shows the entry chosen.                                      *)
RowChosen(r) == Pick(RowOf(r), Toggled(picked, RowOf(r)), r)
SelectAllChosen == Pick(Cards, Cards \ picked, SelectAllEntry)
CustomChosen ==
  /\ combo # CustomEntry
  /\ combo' = CustomEntry
  /\ UNCHANGED <<size, drawn, linked, armed, picked, lit, boxes, usable, targets,
                 label, marker, busy, clicks>>

(* ui_update_select_checkbox_visibility(), for every card.                   *)
BoxesByLink(mode, up) == up
BoxesShown(mode, up) == mode /\ up

(* IDC_BULK_TOGGLE_BTN, "Card Click".                                        *)
CardClickToggled ==
  /\ usable
  /\ armed' = ~armed
  /\ boxes' = BoxesShown(armed', linked)
  /\ targets' = (armed' /\ linked)
  /\ UNCHANGED <<size, drawn, linked, picked, lit, usable, combo, label, marker,
                 busy, clicks>>

(* Bulk ON, OFF and levels: the sends of the selected channels are on their  *)
(* way afterwards (in Console), and ON and OFF leave a marker.  The count is *)
(* not refreshed, here or when a send settles.                               *)
BulkPower(action) ==
  /\ targets
  /\ marker' = action
  /\ busy' \in {B \in BusySets : busy \subseteq B}
  /\ UNCHANGED <<size, drawn, linked, armed, picked, lit, boxes, usable, targets,
                 combo, label, clicks>>

(* channels_poll(), and the calls of handlers that are not of this module:    *)
(* sends start and settle at any time (how is Channels' matter).             *)
BusyChanges ==
  /\ busy' \in BusySets \ {busy}
  /\ UNCHANGED <<size, drawn, linked, armed, picked, shownVars, clicks>>

-----------------------------------------------------------------------------
(* conn_on_connected_changed(): set_channel_controls_enabled(), which on a   *)
(* disconnect also turns Card Click off, the checkboxes, and all cards       *)
(* repainted.                                                                *)
StillArmed(up) == armed
ArmedAfter(up) == armed /\ up

LinkChanged(up) ==
  /\ up # linked
  /\ linked' = up
  /\ armed' = ArmedAfter(up)
  /\ marker' = IF up THEN marker ELSE "none"
  /\ usable' = up
  /\ targets' = (up /\ armed')
  /\ boxes' = BoxesShown(armed', up)
  /\ lit' = picked
  /\ UNCHANGED <<size, drawn, picked, combo, label, busy, clicks>>

(* WM_SIZE: an unchanged size is skipped; otherwise relayout_for_size()      *)
(* moves every control and repaints the window.                              *)
LaidOut(s) == s

Resized(s) ==
  /\ s # size
  /\ size' = s
  /\ drawn' = LaidOut(s)
  /\ lit' = picked
  /\ UNCHANGED <<linked, armed, picked, boxes, usable, targets, combo, label,
                 marker, busy, clicks>>

SelectionNext ==
  \/ \E c \in Cards : CheckboxClicked(c)
  \/ \E p \in Points : BackgroundClicked(p)
  \/ ClearClicked
  \/ SelectAllClicked
  \/ \E r \in 0 .. GRID_ROWS - 1 : RowChosen(r)
  \/ SelectAllChosen
  \/ CustomChosen
  \/ CardClickToggled
  \/ \E action \in {"on", "off"} : BulkPower(action)
  \/ BusyChanges
  \/ \E up \in BOOLEAN : LinkChanged(up)
  \/ \E s \in ScreenSizes : Resized(s)

SelectionSpec == SelectionInit /\ [][SelectionNext]_selectionVars

-----------------------------------------------------------------------------
SelectionTypeOK ==
  /\ size \in ScreenSizes /\ drawn \in ScreenSizes
  /\ linked \in BOOLEAN /\ armed \in BOOLEAN
  /\ picked \in SUBSET Cards /\ lit \in SUBSET Cards
  /\ boxes \in BOOLEAN /\ usable \in BOOLEAN /\ targets \in BOOLEAN
  /\ combo \in 0 .. CustomEntry
  /\ label \in {Sending} \cup 0 .. MAX_CHANNELS
  /\ marker \in PowerActions
  /\ busy \in SUBSET Cards
  /\ clicks \in 0 .. MaxClicks

DrawnAt ==
  [s \in ScreenSizes |-> [p \in Points |-> {c \in Cards : Covers(Card(s, c), p[1], p[2])}]]

(* A click on the window finds the card the user sees under the mouse, and   *)
(* none in the gaps: WM_LBUTTONDOWN recomputes the rectangles, and must do   *)
(* it for the size relayout_for_size() last drew them for.                   *)
ClickFindsDrawnCard == \A p \in Points : ClickedCard(p) = DrawnAt[drawn][p]

(* Card Click is never left on without a link, and the buttons that command  *)
(* the selection are enabled exactly while it is on: a disconnect turns it   *)
(* off, a reconnect does not turn it back on, and no path enables one        *)
(* without the other.                                                        *)
NeverArmedDark ==
  /\ armed => linked
  /\ targets <=> armed
  /\ marker # "none" => linked

(* The row list names what is selected: whatever changed the selection last, *)
(* an entry for a row or for all is only shown while just these are picked.  *)
RowListHonest ==
  /\ combo < SelectAllEntry => picked = RowOf(combo)
  /\ combo = SelectAllEntry => picked = Cards

(* The window shows what is selected after any order of clicks, resizes and  *)
(* reconnects: every card whether it is, the count how many are (or that a   *)
(* command is on its way), and the row list; each handler repaints just the  *)
(* cards it changed.                                                         *)
SelectionIsShown ==
  /\ lit = picked
  /\ label \in {Sending, Cardinality(picked)}
  /\ RowListHonest

(* The checkboxes are visible exactly while there is a link and Card Click   *)
(* is on, whichever of the two changed last, and in which order: what        *)
(* ui_update_select_checkbox_visibility() does and the comment before it     *)
(* says.  It contradicts older comments, at g_channel_selected,              *)
(* g_bulk_select_mode and IDC_BULK_TOGGLE_BTN, by which Card Click "does NOT *)
(* hide anything" and the checkbox "always works regardless": the code does  *)
(* not do what they say.                                                     *)
BoxesFollowMode == boxes <=> armed /\ linked

(* Of the cards, their parts, the header with heatmap and bulk actions, the  *)
(* sidebar with plot and log, and the Summary card with its four blocks, no  *)
(* two cover the same pixel and none sticks out of what it lies in, at any   *)
(* size from the smallest WM_GETMINMAXINFO lets the user drag the window to: *)
(* they scale and round separately.  Two overlaps are part of the claim,     *)
(* each up to the very width at which it ends: Highest Temp lies over        *)
(* AVG TEMP below BlocksApartWidth, at 1920 too, although the comment in      *)
(* relayout_for_size() has "equal breathing room on both sides"; and the bulk *)
(* actions stick out of the header below BulkInHeaderWidth.                  *)
TidySizes == {s \in ScreenSizes : AtLeastDesign(s) => Tidy(s)}
OverlapsAsStated == drawn \in TidySizes

(* The grid reaches the right margin of the window and never crosses it,     *)
(* short of it by less than a pixel per column unless the cards are at their *)
(* largest; and the Summary card is all on the screen exactly from a client  *)
(* height of 1060 on.  A window maximized at 1920 x 1080 is lower: there the *)
(* card is cut off, though channel_card_height()'s comment says the grid     *)
(* makes room for it.                                                        *)
FilledSizes == {s \in ScreenSizes : AtLeastDesign(s) => Filled(s)}
FillsTheWindow == drawn \in FilledSizes

(* The gauge of a card selects what it shows: a click on the row where the   *)
(* handle is drawn for a level, or on the row a level's label is centred on, *)
(* selects that level, whatever height the gauge was scaled to.              *)
ReadableSizes == {s \in ScreenSizes : Readable(s)}
GaugeReadsBack == drawn \in ReadableSizes

(* All three hold of what relayout_for_size() last drew.                     *)
LayoutHolds == OverlapsAsStated /\ FillsTheWindow /\ GaugeReadsBack
=============================================================================
