------------------------------- MODULE Layout -------------------------------
(***************************************************************************)
(* Where main.c puts its controls.  The window is laid out twice: once by  *)
(* build_controls() with the numbers of its design, and from then on by    *)
(* relayout_for_size(), which computes every rectangle from the size of    *)
(* the client area.  The operators below are that computation.  s is a     *)
(* size [w, h] of the client area, c a channel (0 .. 15), and a rectangle  *)
(* [x, y, w, h] covers the pixels x .. x + w - 1 and y .. y + h - 1.       *)
(*                                                                         *)
(* A definition that nothing uses, written just before the one it would    *)
(* replace, is a faulty variant of it: PROJECT.json names, under mutants,  *)
(* the property that notices the fault.                                    *)
(***************************************************************************)
EXTENDS Integers

-----------------------------------------------------------------------------
(* The numbers of the design.                                                *)
CLIENT_WIDTH  == 1764
CLIENT_HEIGHT == 794
HEADER_H      == 180
CONTENT_TOP   == 194
MAX_CHANNELS  == 16
GRID_COLS     == 4
GRID_ROWS     == 4
CARD_W        == 272
CARD_H        == 110
CARD_GAP      == 12
CARD_H_MAX    == 160
CARD_W_MAX    == 400
GRID_BOTTOM_MARGIN == 20
SIDEBAR_X     == 10
SIDEBAR_W     == 430
SIDEBAR_W_MAX == 600
LOG_PANEL_H   == 260
HEATMAP_LEFT  == 781
HEATMAP_RIGHT == 1352
BULK_X_SHIFT  == 922

(* The Summary card: four blocks side by side.                               *)
COMMANDS_COL_W          == 280
COMMANDS_COL_GAP        == 40
SUMMARY_CMD_RESET_Y     == 234
SUMMARY_CMD_ROW_H       == 64
SUMMARY_CONTENT_BLOCK_Y == 60
MODE_ICON_SIZE          == 220
MODE_ICON_MARGIN        == 60
HIGHEST_TEMP_BLOCK_W    == 560
AVG_TEMP_BLOCK_W        == 420

SUMMARY_CMD_TOTAL_H == SUMMARY_CMD_RESET_Y + SUMMARY_CMD_ROW_H
MIN_SUMMARY_H ==
  SUMMARY_CONTENT_BLOCK_Y
  + (IF SUMMARY_CMD_TOTAL_H > MODE_ICON_SIZE THEN SUMMARY_CMD_TOTAL_H ELSE MODE_ICON_SIZE)
  + 20

-----------------------------------------------------------------------------
Sizes == [w : Nat, h : Nat]
Cards == 0 .. MAX_CHANNELS - 1
Row(c) == c \div GRID_COLS
Col(c) == c % GRID_COLS

Rect(x, y, w, h) == [x |-> x, y |-> y, w |-> w, h |-> h]

Covers(r, px, py) ==
  /\ r.x <= px /\ px < r.x + r.w
  /\ r.y <= py /\ py < r.y + r.h

Apart(r, q) ==
  \/ r.x + r.w <= q.x  \/ q.x + q.w <= r.x
  \/ r.y + r.h <= q.y  \/ q.y + q.h <= r.y

Inside(r, q) ==
  /\ q.x <= r.x /\ r.x + r.w <= q.x + q.w
  /\ q.y <= r.y /\ r.y + r.h <= q.y + q.h

Clamped(v, low, high) == IF v < low THEN low ELSE IF v > high THEN high ELSE v

-----------------------------------------------------------------------------
(* The grid.  It gets taller only with what the Summary card leaves, and     *)
(* wider with what the sidebar leaves.                                       *)
channel_card_height(s) ==
  Clamped((s.h - CONTENT_TOP - GRID_BOTTOM_MARGIN - (GRID_ROWS - 1) * CARD_GAP
             - MIN_SUMMARY_H - CARD_GAP) \div GRID_ROWS, CARD_H, CARD_H_MAX)

sidebar_width_for(s) ==
  LET extra == s.w - CLIENT_WIDTH
      grown == IF extra > 0 THEN SIDEBAR_W + (extra * 25) \div 100 ELSE SIDEBAR_W IN
  IF grown > SIDEBAR_W_MAX THEN SIDEBAR_W_MAX ELSE grown

grid_left_for(s) == SIDEBAR_X + sidebar_width_for(s) + 10

channel_card_width(s) ==
  Clamped((s.w - SIDEBAR_X - grid_left_for(s) - (GRID_COLS - 1) * CARD_GAP) \div GRID_COLS,
          CARD_W, CARD_W_MAX)

Card(s, c) ==
  Rect(grid_left_for(s) + Col(c) * (channel_card_width(s) + CARD_GAP),
       CONTENT_TOP + Row(c) * (channel_card_height(s) + CARD_GAP),
       channel_card_width(s), channel_card_height(s))

(* The hit test of WM_LBUTTONDOWN: the first card whose rectangle, computed  *)
(* anew from the size s last laid out for, covers the click.                 *)
HitRectOfDesign(s, c) ==
  Rect(grid_left_for(s) + Col(c) * (CARD_W + CARD_GAP),
       CONTENT_TOP + Row(c) * (CARD_H + CARD_GAP), CARD_W, CARD_H)
HitRect(s, c) ==
  Rect(grid_left_for(s) + Col(c) * (channel_card_width(s) + CARD_GAP),
       CONTENT_TOP + Row(c) * (channel_card_height(s) + CARD_GAP),
       channel_card_width(s), channel_card_height(s))

Hits(s, px, py) == {c \in Cards : Covers(HitRect(s, c), px, py)}

FirstHit(s, px, py) ==
  {c \in Hits(s, px, py) : \A d \in Hits(s, px, py) : c <= d}

-----------------------------------------------------------------------------
(* position_channel_card(): the parts of a card, drawn on a card of the      *)
(* design's size and scaled to the card's, each number rounded on its own.   *)
(* Icon and checkbox keep their size.                                        *)
ScaledX(s, v) == (2 * v * channel_card_width(s) + CARD_W) \div (2 * CARD_W)
ScaledY(s, v) == (2 * v * channel_card_height(s) + CARD_H) \div (2 * CARD_H)

Scaled(s, dx, dy, dw, dh) ==
  Rect(ScaledX(s, dx), ScaledY(s, dy), ScaledX(s, dw), ScaledY(s, dh))

LevelLabels == <<"off", "low", "medium", "high">>

CheckboxX_OfDesign(s) == CARD_W - 24
CheckboxX(s) == channel_card_width(s) - ScaledX(s, 24)

Parts(s) ==
  [select |-> Rect(CheckboxX(s), ScaledY(s, 6), 16, 16),
   icon   |-> Rect(ScaledX(s, 8), ScaledY(s, 6), 14, 14),
   header |-> Scaled(s, 26, 6, 58, 16),
   mode   |-> Scaled(s, 8, 24, 134, 16),
   on     |-> Scaled(s, 8, 47, 60, 21),
   off_button |-> Scaled(s, 72, 47, 60, 21),
   status |-> Scaled(s, 8, 70, 130, 14),
   uptime |-> Scaled(s, 8, 86, 130, 12),
   freq   |-> Scaled(s, 88, 8, 110, 14),
   track  |-> Scaled(s, 148, 24, 40, 72),
   high   |-> Scaled(s, 194, 24, 44, 14),
   medium |-> Scaled(s, 194, 42, 44, 14),
   low    |-> Scaled(s, 194, 60, 44, 14),
   off    |-> Scaled(s, 194, 78, 44, 14)]

OnCard(s, c, part) ==
  [part EXCEPT !.x = @ + Card(s, c).x, !.y = @ + Card(s, c).y]

(* The controls of a card that take a click; the panel and the other labels  *)
(* let it through to the window.                                             *)
Clickable == {"on", "off_button", "status", "track"}

(* The gauge: the level a click at row y of its h rows selects, and the row  *)
(* its handle is drawn at for a level.                                       *)
ch_gauge_level_from_y(y, h) ==
  3 - Clamped(IF h > 0 THEN (y * 4) \div h ELSE 0, 0, 3)

HandleRow(level, h) == ((2 * (3 - level) + 1) * h) \div 8

-----------------------------------------------------------------------------
(* The panels around the grid.                                               *)
log_panel_y_for(s) == s.h - GRID_BOTTOM_MARGIN - LOG_PANEL_H

Header(s)  == Rect(SIDEBAR_X, 6, s.w - 2 * SIDEBAR_X, HEADER_H)
Heatmap    == Rect(HEATMAP_LEFT, 14, HEATMAP_RIGHT - HEATMAP_LEFT, 150)
BulkCorner == Rect(470 + BULK_X_SHIFT, 22, 408, 116)
Sidebar(s) ==
  Rect(SIDEBAR_X, CONTENT_TOP, sidebar_width_for(s),
       log_panel_y_for(s) + LOG_PANEL_H - CONTENT_TOP)
Spectrum(s) ==
  Rect(22, CONTENT_TOP + 34, sidebar_width_for(s) + SIDEBAR_X - 34,
       log_panel_y_for(s) - 12 - (CONTENT_TOP + 34))
LogList(s) ==
  Rect(22, log_panel_y_for(s) + 34, sidebar_width_for(s) + SIDEBAR_X - 34, LOG_PANEL_H - 46)

GridBottom(s) ==
  CONTENT_TOP + GRID_ROWS * channel_card_height(s) + (GRID_ROWS - 1) * CARD_GAP

Summary(s) ==
  LET y    == GridBottom(s) + CARD_GAP
      left == s.h - GRID_BOTTOM_MARGIN - y IN
  Rect(grid_left_for(s), y, s.w - SIDEBAR_X - grid_left_for(s),
       IF left < MIN_SUMMARY_H THEN MIN_SUMMARY_H ELSE left)

AvgX(s)  == grid_left_for(s) + 12 + COMMANDS_COL_W + COMMANDS_COL_GAP
ModeX(s) == s.w - SIDEBAR_X - MODE_ICON_MARGIN - MODE_ICON_SIZE

HighestXCentred(s) ==
  (AvgX(s) + AVG_TEMP_BLOCK_W + ModeX(s)) \div 2 - HIGHEST_TEMP_BLOCK_W \div 2
HighestX(s) ==
  IF HighestXCentred(s) + HIGHEST_TEMP_BLOCK_W > ModeX(s)
  THEN ModeX(s) - HIGHEST_TEMP_BLOCK_W
  ELSE HighestXCentred(s)

BlockY(s)       == Summary(s).y + SUMMARY_CONTENT_BLOCK_Y
Commands(s)     == Rect(grid_left_for(s) + 12, BlockY(s), COMMANDS_COL_W, SUMMARY_CMD_TOTAL_H)
AvgBlock(s)     == Rect(AvgX(s), BlockY(s), AVG_TEMP_BLOCK_W, MODE_ICON_SIZE)
HighestBlock(s) == Rect(HighestX(s), BlockY(s), HIGHEST_TEMP_BLOCK_W, MODE_ICON_SIZE)
ModeButton(s)   == Rect(ModeX(s), BlockY(s), MODE_ICON_SIZE, MODE_ICON_SIZE)

-----------------------------------------------------------------------------
(* The ids of the controls.  WM_COMMAND carries an id and nothing else: the  *)
(* fixed controls are told from one another, and the sixteen cards' controls *)
(* from them and from one another, by that number.                           *)
IDC_CH_BASE   == 2000
IDC_CH_STRIDE == 13
Offsets == [on |-> 2, off_button |-> 3, status |-> 4, track |-> 5, high |-> 6,
            medium |-> 7, low |-> 8, off |-> 9, select |-> 10, uptime |-> 11, freq |-> 12]

FixedIds ==
  (1001 .. 1007) \cup (1010 .. 1013) \cup (1015 .. 1024) \cup (1030 .. 1032)
    \cup (1038 .. 1050) \cup (1060 .. 1062) \cup (1065 .. 1076) \cup (1078 .. 1082)

IdOf(c, part) == IDC_CH_BASE + c * IDC_CH_STRIDE + Offsets[part]

channel_index_from_id(id) ==
  {c \in Cards : id >= IDC_CH_BASE /\ c = (id - IDC_CH_BASE) \div IDC_CH_STRIDE}

OffsetOf(id) == (id - IDC_CH_BASE) % IDC_CH_STRIDE

-----------------------------------------------------------------------------
(* What a layout for the size s should be.  Of the rectangles above, none    *)
(* covers another that is not meant to lie in it, with two exceptions that   *)
(* are stated by the width below which they occur: the Highest Temp block,   *)
(* which is kept off the Mode button, lies over AVG TEMP, and the Bulk       *)
(* Actions, which do not move, stick out of the header.                      *)
AtLeastDesign(s) == s.w >= CLIENT_WIDTH /\ s.h >= CLIENT_HEIGHT

BlocksApartWidth == 2147
BulkInHeaderWidth == 1810

CardsApart(s) == \A c, d \in Cards : c # d => Apart(Card(s, c), Card(s, d))

PartsApart(s) ==
  LET card  == Rect(0, 0, channel_card_width(s), channel_card_height(s))
      parts == Parts(s) IN
  \A m \in DOMAIN parts :
    /\ Inside(parts[m], card)
    /\ \A n \in DOMAIN parts \ {m} : Apart(parts[m], parts[n])

PanelsApart(s) ==
  /\ \A c \in Cards : /\ Apart(Card(s, c), Sidebar(s))
                      /\ Apart(Card(s, c), Header(s))
                      /\ Apart(Card(s, c), Summary(s))
  /\ Apart(Summary(s), Sidebar(s))
  /\ Apart(Heatmap, BulkCorner)
  /\ Inside(Heatmap, Header(s))
  /\ Inside(BulkCorner, Header(s)) <=> s.w >= BulkInHeaderWidth
  /\ Inside(Spectrum(s), Sidebar(s)) /\ Inside(LogList(s), Sidebar(s))
  /\ Apart(Spectrum(s), LogList(s))

BlocksApart(s) ==
  /\ \A b \in {Commands(s), AvgBlock(s), HighestBlock(s), ModeButton(s)} :
       Inside(b, Summary(s))
  /\ \A b \in {AvgBlock(s), HighestBlock(s), ModeButton(s)} : Apart(Commands(s), b)
  /\ \A b \in {AvgBlock(s), HighestBlock(s)} : Apart(b, ModeButton(s))
  /\ Apart(AvgBlock(s), HighestBlock(s)) <=> s.w >= BlocksApartWidth

Tidy(s) == CardsApart(s) /\ PartsApart(s) /\ PanelsApart(s) /\ BlocksApart(s)

(* It uses the width of the window, and the Summary card is all on the       *)
(* screen from a height of FullSummaryHeight on, and only then:              *)
FullSummaryHeight == 1060

GridRight(s) == Card(s, GRID_COLS - 1).x + channel_card_width(s)

GridFillsWidth(s) ==
  /\ GridRight(s) <= s.w - SIDEBAR_X
  /\ channel_card_width(s) < CARD_W_MAX => GridRight(s) > s.w - SIDEBAR_X - GRID_COLS

SummaryFits(s) == Summary(s).y + Summary(s).h <= s.h

Filled(s) ==
  /\ GridFillsWidth(s)
  /\ SummaryFits(s) <=> s.h >= FullSummaryHeight

(* And a gauge of any height reads back what it shows.                       *)
Readable(s) ==
  LET parts == Parts(s)
      h     == parts.track.h IN
  \A level \in 0 .. 3 :
    LET tick == parts[LevelLabels[level + 1]] IN
    /\ ch_gauge_level_from_y(HandleRow(level, h), h) = level
    /\ ch_gauge_level_from_y(tick.y + tick.h \div 2 - parts.track.y, h) = level
=====================
