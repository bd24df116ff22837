-------------------------- MODULE SelectionProofs ---------------------------
(***************************************************************************)
(* What holds of the selection and of the layout it clicks on for every    *)
(* size of the window, every set of pixels and any number of clicks.       *)
(***************************************************************************)
EXTENDS Selection, FiniteSetTheorems, TLAPS

USE SelectionAssumption

-----------------------------------------------------------------------------
(* The layout. *)

LEMMA CardsAreNumbers == Cards = 0 .. 15
BY DEF Cards, MAX_CHANNELS

LEMMA RowsAndColumns ==
  ASSUME NEW c \in Cards
  PROVE  /\ Row(c) \in 0 .. 3 /\ Col(c) \in 0 .. 3
         /\ c = 4 * Row(c) + Col(c)
BY DEF Row, Col, Cards, MAX_CHANNELS, GRID_COLS

LEMMA CardSizes ==
  ASSUME NEW s \in Sizes
  PROVE  /\ channel_card_width(s) \in 272 .. 400
         /\ channel_card_height(s) \in 110 .. 160
         /\ grid_left_for(s) \in Int
<1>1. sidebar_width_for(s) \in Int
  BY DEF Sizes, sidebar_width_for, CLIENT_WIDTH, SIDEBAR_W, SIDEBAR_W_MAX
<1>2. grid_left_for(s) \in Int
  BY <1>1 DEF grid_left_for, SIDEBAR_X
<1>3. /\ SIDEBAR_X \in Int /\ GRID_COLS \in Int \ {0} /\ GRID_ROWS \in Int \ {0}
      /\ CARD_GAP \in Int /\ GRID_BOTTOM_MARGIN \in Int /\ CONTENT_TOP \in Int
      /\ MIN_SUMMARY_H \in Int
  BY DEF SIDEBAR_X, GRID_COLS, GRID_ROWS, CARD_GAP, GRID_BOTTOM_MARGIN, CONTENT_TOP,
         MIN_SUMMARY_H, SUMMARY_CMD_TOTAL_H, SUMMARY_CONTENT_BLOCK_Y, SUMMARY_CMD_RESET_Y,
         SUMMARY_CMD_ROW_H, MODE_ICON_SIZE
<1>4. channel_card_width(s) \in 272 .. 400
  <2> DEFINE fit == (s.w - SIDEBAR_X - grid_left_for(s) - (GRID_COLS - 1) * CARD_GAP)
                      \div GRID_COLS
  <2>1. fit \in Int
    BY <1>2 DEF Sizes, SIDEBAR_X, GRID_COLS, CARD_GAP
  <2>2. channel_card_width(s) = Clamped(fit, 272, 400)
    BY Zenon DEF channel_card_width, CARD_W, CARD_W_MAX
  <2> HIDE DEF fit
  <2> QED
    BY <2>1, <2>2 DEF Clamped
<1>5. channel_card_height(s) \in 110 .. 160
  <2> DEFINE fit == (s.h - CONTENT_TOP - GRID_BOTTOM_MARGIN - (GRID_ROWS - 1) * CARD_GAP
                       - MIN_SUMMARY_H - CARD_GAP) \div GRID_ROWS
  <2>1. fit \in Int
    BY <1>3 DEF Sizes, GRID_ROWS
  <2>2. channel_card_height(s) = Clamped(fit, 110, 160)
    BY Zenon DEF channel_card_height, CARD_H, CARD_H_MAX
  <2> HIDE DEF fit
  <2> QED
    BY <2>1, <2>2 DEF Clamped
<1> QED
  BY <1>2, <1>4, <1>5

(* No pixel is on two cards, whatever the size of the window.                *)
LEMMA CardsAreDisjoint ==
  ASSUME NEW s \in Sizes, NEW c \in Cards, NEW d \in Cards,
         NEW px \in Int, NEW py \in Int,
         Covers(Card(s, c), px, py), Covers(Card(s, d), px, py)
  PROVE  c = d
<1> DEFINE W == channel_card_width(s)
           H == channel_card_height(s)
           L == grid_left_for(s)
<1>1. W \in 272 .. 400 /\ H \in 110 .. 160 /\ L \in Int
  BY CardSizes
<1> HIDE DEF W, H, L
<1>2. ASSUME NEW e \in Cards, Covers(Card(s, e), px, py)
      PROVE  /\ L + Col(e) * (W + 12) <= px /\ px < L + Col(e) * (W + 12) + W
             /\ 194 + Row(e) * (H + 12) <= py /\ py < 194 + Row(e) * (H + 12) + H
  BY <1>2 DEF Covers, Card, Rect, CONTENT_TOP, CARD_GAP, W, H, L
<1>3. ASSUME NEW i \in 0 .. 3, NEW j \in 0 .. 3, NEW S \in Int, NEW o \in Int, NEW p \in Int,
             S > 0,
             o + i * (S + 12) <= p, p < o + i * (S + 12) + S,
             o + j * (S + 12) <= p, p < o + j * (S + 12) + S
      PROVE  i = j
  <2>1. /\ i = 0 \/ i = 1 \/ i = 2 \/ i = 3
        /\ j = 0 \/ j = 1 \/ j = 2 \/ j = 3
    OBVIOUS
  <2> QED
    BY <1>3, <2>1
<1>4. Col(c) = Col(d)
  BY <1>1, <1>2, <1>3, RowsAndColumns
<1>5. Row(c) = Row(d)
  BY <1>1, <1>2, <1>3, RowsAndColumns
<1> QED
  BY <1>4, <1>5, RowsAndColumns

(* So the first card the hit test finds is the only one, and the one drawn.  *)
LEMMA HitIsTheDrawnCard ==
  ASSUME NEW s \in Sizes, NEW px \in Int, NEW py \in Int
  PROVE  FirstHit(s, px, py) = {c \in Cards : Covers(Card(s, c), px, py)}
<1>1. Hits(s, px, py) = {c \in Cards : Covers(Card(s, c), px, py)}
  BY DEF Hits, HitRect, Card
<1>2. \A c, d \in Hits(s, px, py) : c = d
  BY <1>1, CardsAreDisjoint
<1>3. \A c \in Hits(s, px, py) : c <= c
  BY <1>1, CardsAreNumbers
<1> QED
  BY <1>1, <1>2, <1>3 DEF FirstHit

(* A number scaled to a card is the nearest whole one.                       *)
LEMMA ScaledXIsNear ==
  ASSUME NEW s \in Sizes, NEW v \in Int
  PROVE  /\ ScaledX(s, v) \in Int
         /\ 544 * ScaledX(s, v) <= 2 * v * channel_card_width(s) + 272
         /\ 2 * v * channel_card_width(s) + 272 < 544 * ScaledX(s, v) + 544
<1> DEFINE n == 2 * v * channel_card_width(s) + 272
<1>1. n \in Int
  BY CardSizes
<1>2. ScaledX(s, v) = n \div 544
  BY DEF ScaledX, CARD_W
<1> HIDE DEF n
<1>3. n \div 544 \in Int /\ 544 * (n \div 544) <= n /\ n < 544 * (n \div 544) + 544
  BY <1>1
<1> QED
  BY <1>2, <1>3 DEF n

LEMMA ScaledYIsNear ==
  ASSUME NEW s \in Sizes, NEW v \in Int
  PROVE  /\ ScaledY(s, v) \in Int
         /\ 220 * ScaledY(s, v) <= 2 * v * channel_card_height(s) + 110
         /\ 2 * v * channel_card_height(s) + 110 < 220 * ScaledY(s, v) + 220
<1> DEFINE n == 2 * v * channel_card_height(s) + 110
<1>1. n \in Int
  BY CardSizes
<1>2. ScaledY(s, v) = n \div 220
  BY DEF ScaledY, CARD_H
<1> HIDE DEF n
<1>3. n \div 220 \in Int /\ 220 * (n \div 220) <= n /\ n < 220 * (n \div 220) + 220
  BY <1>1
<1> QED
  BY <1>2, <1>3 DEF n

(* A click on row y of a gauge h rows high is in the quarter it is drawn in. *)
LEMMA LevelOfRow ==
  ASSUME NEW h \in Int, h > 0, NEW y \in Int, NEW level \in 0 .. 3,
         (3 - level) * h <= 4 * y, 4 * y < (4 - level) * h
  PROVE  ch_gauge_level_from_y(y, h) = level
<1> DEFINE k == (y * 4) \div h
<1>1. k \in Int /\ h * k <= 4 * y /\ 4 * y < h * k + h
  OBVIOUS
<1> HIDE DEF k
<1>2. CASE level = 0
  <2>1. k = 3
    BY <1>1, <1>2
  <2> QED
    BY <1>2, <2>1 DEF ch_gauge_level_from_y, Clamped, k
<1>3. CASE level = 1
  <2>1. k = 2
    BY <1>1, <1>3
  <2> QED
    BY <1>3, <2>1 DEF ch_gauge_level_from_y, Clamped, k
<1>4. CASE level = 2
  <2>1. k = 1
    BY <1>1, <1>4
  <2> QED
    BY <1>4, <2>1 DEF ch_gauge_level_from_y, Clamped, k
<1>5. CASE level = 3
  <2>1. k = 0
    BY <1>1, <1>5
  <2> QED
    BY <1>5, <2>1 DEF ch_gauge_level_from_y, Clamped, k
<1> QED
  BY <1>2, <1>3, <1>4, <1>5

(* A gauge is high enough for its four levels to be told apart.              *)
LEMMA GaugeHeight ==
  ASSUME NEW s \in Sizes
  PROVE  ScaledY(s, 72) \in 72 .. 105
<1> DEFINE H == channel_card_height(s)
<1>1. H \in 110 .. 160
  BY CardSizes
<1>2. /\ ScaledY(s, 72) \in Int
      /\ 220 * ScaledY(s, 72) <= 144 * H + 110 /\ 144 * H + 110 < 220 * ScaledY(s, 72) + 220
  BY <1>1, ScaledYIsNear
<1> HIDE DEF H
<1> QED
  BY <1>1, <1>2

(* The handle is drawn inside the quarter of its level.                      *)
LEMMA HandlesReadBack ==
  ASSUME NEW h \in Int, h >= 8, NEW level \in 0 .. 3
  PROVE  ch_gauge_level_from_y(HandleRow(level, h), h) = level
<1> DEFINE n == (2 * (3 - level) + 1) * h
           y == n \div 8
<1>1. \/ level = 0 /\ n = 7 * h
      \/ level = 1 /\ n = 5 * h
      \/ level = 2 /\ n = 3 * h
      \/ level = 3 /\ n = h
  OBVIOUS
<1> HIDE DEF n
<1>2. y \in Int /\ 8 * y <= n /\ n < 8 * y + 8
  BY <1>1
<1>3. HandleRow(level, h) = y
  BY DEF HandleRow, n
<1> HIDE DEF y
<1>4. (3 - level) * h <= 4 * y /\ 4 * y < (4 - level) * h
  BY <1>1, <1>2
<1> QED
  BY <1>2, <1>3, <1>4, LevelOfRow

(* The row a level's label is centred on, against the gauge.                 *)
TickRow(s, v) == ScaledY(s, v) + ScaledY(s, 14) \div 2 - ScaledY(s, 24)

(* The labels are scaled and rounded apart from the gauge, and each still    *)
(* ends up beside its quarter: 78, 60, 42 and 24 are the design's rows.      *)
LEMMA TicksReadBack ==
  ASSUME NEW s \in Sizes,
         NEW level \in 0 .. 3, NEW v \in Int, v = 78 - 18 * level
  PROVE  ch_gauge_level_from_y(TickRow(s, v), ScaledY(s, 72)) = level
<1> DEFINE h == ScaledY(s, 72)
           m == ScaledY(s, 14) \div 2
           y == ScaledY(s, v) + m - ScaledY(s, 24)
<1>1. ScaledY(s, 14) \in Int /\ ScaledY(s, 24) \in Int /\ ScaledY(s, v) \in Int /\ h \in 72 .. 105
  BY ScaledYIsNear, GaugeHeight
<1>2. m \in Int /\ 2 * m <= ScaledY(s, 14) /\ ScaledY(s, 14) <= 2 * m + 1
  BY <1>1
<1> HIDE DEF m
<1>3. (3 - level) * h <= 4 * y /\ 4 * y < (4 - level) * h
  <2> DEFINE H == channel_card_height(s)
  <2>1. H \in 110 .. 160
    BY CardSizes
  <2>2. /\ 220 * h <= 144 * H + 110 /\ 144 * H + 110 < 220 * h + 220
        /\ 220 * ScaledY(s, 14) <= 28 * H + 110 /\ 28 * H + 110 < 220 * ScaledY(s, 14) + 220
        /\ 220 * ScaledY(s, 24) <= 48 * H + 110 /\ 48 * H + 110 < 220 * ScaledY(s, 24) + 220
    BY <2>1, ScaledYIsNear
  <2>3. 220 * ScaledY(s, v) <= 2 * v * H + 110 /\ 2 * v * H + 110 < 220 * ScaledY(s, v) + 220
    BY <2>1, ScaledYIsNear
  <2> HIDE DEF H, h
  <2>4. \/ level = 0 /\ 2 * v * H = 156 * H
        \/ level = 1 /\ 2 * v * H = 120 * H
        \/ level = 2 /\ 2 * v * H = 84 * H
        \/ level = 3 /\ 2 * v * H = 48 * H
    BY <2>1
  <2>5. h \in Int
    BY <1>1
  <2> QED
    BY <1>1, <1>2, <2>1, <2>2, <2>3, <2>4, <2>5
<1>4. y \in Int /\ h > 0 /\ h \in Int
  BY <1>1, <1>2
<1>5. TickRow(s, v) = y
  BY DEF TickRow, m
<1> QED
  BY <1>3, <1>4, <1>5, LevelOfRow

(* So a gauge reads back what it shows, at any size, the design's or not.    *)
LEMMA AlwaysReadable ==
  ASSUME NEW s \in Sizes
  PROVE  Readable(s)
<1> DEFINE parts == Parts(s)
           h == ScaledY(s, 72)
<1>1. /\ parts.track.h = h /\ parts.track.y = ScaledY(s, 24)
      /\ parts.off.y = ScaledY(s, 78) /\ parts.off.h = ScaledY(s, 14)
      /\ parts.low.y = ScaledY(s, 60) /\ parts.low.h = ScaledY(s, 14)
      /\ parts.medium.y = ScaledY(s, 42) /\ parts.medium.h = ScaledY(s, 14)
      /\ parts.high.y = ScaledY(s, 24) /\ parts.high.h = ScaledY(s, 14)
  BY DEF Parts, Scaled, Rect
<1>2. h \in Int /\ h >= 8
  BY GaugeHeight
<1> HIDE DEF parts, h
<1> SUFFICES ASSUME NEW level \in 0 .. 3
             PROVE  LET tick == parts[LevelLabels[level + 1]] IN
                    /\ ch_gauge_level_from_y(HandleRow(level, h), h) = level
                    /\ ch_gauge_level_from_y(tick.y + tick.h \div 2 - parts.track.y, h) = level
  BY <1>1, Zenon DEF Readable, parts
<1> DEFINE tick == parts[LevelLabels[level + 1]]
           v == 78 - 18 * level
<1>3. v \in Int
  OBVIOUS
<1>4. tick.y = ScaledY(s, v) /\ tick.h = ScaledY(s, 14)
  <2>1. \/ level = 0 /\ v = 78 /\ tick = parts.off
        \/ level = 1 /\ v = 60 /\ tick = parts.low
        \/ level = 2 /\ v = 42 /\ tick = parts.medium
        \/ level = 3 /\ v = 24 /\ tick = parts.high
    BY DEF LevelLabels
  <2> HIDE DEF tick, v
  <2> QED
    BY <1>1, <2>1, Zenon
<1> HIDE DEF tick
<1>5. tick.y + tick.h \div 2 - parts.track.y = TickRow(s, v)
  BY <1>1, <1>4, Zenon DEF TickRow
<1>6. ch_gauge_level_from_y(TickRow(s, v), h) = level
  BY <1>3, TicksReadBack DEF h
<1>7. ch_gauge_level_from_y(HandleRow(level, h), h) = level
  BY <1>2, HandlesReadBack
<1> QED
  BY <1>5, <1>6, <1>7, Zenon DEF tick

(* q is v scaled from the design's extent to full and rounded.               *)
Near(q, v, full, design) ==
  /\ q \in Int
  /\ 2 * design * q <= 2 * v * full + design
  /\ 2 * v * full + design < 2 * design * q + 2 * design

At(r, x, y, w, h) == r.x = x /\ r.y = y /\ r.w = w /\ r.h = h

(* The parts of a card stay on it and off one another however it is scaled:  *)
(* a row of four at the top, and below it the buttons, the gauge and its     *)
(* labels side by side.  Each rounding is off by half a pixel at most, and   *)
(* two neighbours are three roundings and at least two pixels apart.         *)
LEMMA PartsAreApart ==
  ASSUME NEW s \in Sizes
  PROVE  PartsApart(s)
<1> DEFINE W == channel_card_width(s)
           H == channel_card_height(s)
           X(v) == ScaledX(s, v)
           Y(v) == ScaledY(s, v)
           P == Parts(s)
<1>1. W \in 272 .. 400 /\ H \in 110 .. 160
  BY CardSizes
<1>2. ASSUME NEW v \in Int
      PROVE  Near(X(v), v, W, 272) /\ Near(Y(v), v, H, 110)
  BY ScaledXIsNear, ScaledYIsNear DEF Near
<1>3. /\ At(P.select, W - X(24), Y(6), 16, 16)
      /\ At(P.icon, X(8), Y(6), 14, 14)
      /\ At(P.header, X(26), Y(6), X(58), Y(16))
      /\ At(P.freq, X(88), Y(8), X(110), Y(14))
      /\ At(P.mode, X(8), Y(24), X(134), Y(16))
      /\ At(P.on, X(8), Y(47), X(60), Y(21))
      /\ At(P.off_button, X(72), Y(47), X(60), Y(21))
      /\ At(P.status, X(8), Y(70), X(130), Y(14))
      /\ At(P.uptime, X(8), Y(86), X(130), Y(12))
      /\ At(P.track, X(148), Y(24), X(40), Y(72))
      /\ At(P.high, X(194), Y(24), X(44), Y(14))
      /\ At(P.medium, X(194), Y(42), X(44), Y(14))
      /\ At(P.low, X(194), Y(60), X(44), Y(14))
      /\ At(P.off, X(194), Y(78), X(44), Y(14))
  <2>1. /\ At(P.select, W - X(24), Y(6), 16, 16)
        /\ At(P.icon, X(8), Y(6), 14, 14)
        /\ At(P.header, X(26), Y(6), X(58), Y(16))
        /\ At(P.freq, X(88), Y(8), X(110), Y(14))
    BY DEF Parts, Scaled, Rect, CheckboxX, At
  <2>2. /\ At(P.mode, X(8), Y(24), X(134), Y(16))
        /\ At(P.on, X(8), Y(47), X(60), Y(21))
        /\ At(P.off_button, X(72), Y(47), X(60), Y(21))
    BY DEF Parts, Scaled, Rect, CheckboxX, At
  <2>3. /\ At(P.status, X(8), Y(70), X(130), Y(14))
        /\ At(P.uptime, X(8), Y(86), X(130), Y(12))
        /\ At(P.track, X(148), Y(24), X(40), Y(72))
    BY DEF Parts, Scaled, Rect, CheckboxX, At
  <2>4. /\ At(P.high, X(194), Y(24), X(44), Y(14))
        /\ At(P.medium, X(194), Y(42), X(44), Y(14))
        /\ At(P.low, X(194), Y(60), X(44), Y(14))
        /\ At(P.off, X(194), Y(78), X(44), Y(14))
    BY DEF Parts, Scaled, Rect, CheckboxX, At
  <2> QED
    BY <2>1, <2>2, <2>3, <2>4
<1>4. DOMAIN P = {"select", "icon", "header", "mode", "on", "off_button", "status", "uptime",
                  "freq", "track", "high", "medium", "low", "off"}
  BY DEF Parts
<1> HIDE DEF W, H, X, Y, P
<1>5. /\ Near(X(8), 8, W, 272)
      /\ Near(X(24), 24, W, 272)
      /\ Near(X(26), 26, W, 272)
      /\ Near(X(40), 40, W, 272)
      /\ Near(X(44), 44, W, 272)
      /\ Near(X(58), 58, W, 272)
      /\ Near(X(60), 60, W, 272)
      /\ Near(X(72), 72, W, 272)
      /\ Near(X(88), 88, W, 272)
      /\ Near(X(110), 110, W, 272)
      /\ Near(X(130), 130, W, 272)
      /\ Near(X(134), 134, W, 272)
      /\ Near(X(148), 148, W, 272)
      /\ Near(X(194), 194, W, 272)
  BY <1>2
<1>6. /\ Near(Y(6), 6, H, 110)
      /\ Near(Y(8), 8, H, 110)
      /\ Near(Y(12), 12, H, 110)
      /\ Near(Y(14), 14, H, 110)
      /\ Near(Y(16), 16, H, 110)
      /\ Near(Y(21), 21, H, 110)
      /\ Near(Y(24), 24, H, 110)
      /\ Near(Y(42), 42, H, 110)
      /\ Near(Y(47), 47, H, 110)
      /\ Near(Y(60), 60, H, 110)
      /\ Near(Y(70), 70, H, 110)
      /\ Near(Y(72), 72, H, 110)
      /\ Near(Y(78), 78, H, 110)
      /\ Near(Y(86), 86, H, 110)
  BY <1>2
<1>7. /\ X(8) >= 0
      /\ X(8) + 14 <= X(26)
      /\ X(26) + X(58) <= X(88)
      /\ X(88) + X(110) <= W - X(24)
      /\ 16 <= X(24)
      /\ X(8) + X(134) <= X(148)
      /\ X(8) + X(60) <= X(72)
      /\ X(72) + X(60) <= X(148)
      /\ X(8) + X(130) <= X(148)
      /\ X(148) + X(40) <= X(194)
      /\ X(194) + X(44) <= W
  BY <1>1, <1>5 DEF Near
<1>8. /\ Y(6) >= 0 /\ Y(8) >= 0
      /\ Y(6) + 16 <= Y(24)
      /\ Y(6) + Y(16) <= Y(24)
      /\ Y(8) + Y(14) <= Y(24)
      /\ Y(24) + Y(16) <= Y(47)
      /\ Y(47) + Y(21) <= Y(70)
      /\ Y(70) + Y(14) <= Y(86)
      /\ Y(86) + Y(12) <= H
      /\ Y(24) + Y(14) <= Y(42)
      /\ Y(42) + Y(14) <= Y(60)
      /\ Y(60) + Y(14) <= Y(78)
      /\ Y(78) + Y(14) <= H
      /\ Y(24) + Y(72) <= H
  BY <1>1, <1>6 DEF Near
<1>9. /\ X(8) \in Int /\ X(8) > 0
      /\ X(24) \in Int /\ X(24) > 0
      /\ X(26) \in Int /\ X(26) > 0
      /\ X(40) \in Int /\ X(40) > 0
      /\ X(44) \in Int /\ X(44) > 0
      /\ X(58) \in Int /\ X(58) > 0
      /\ X(60) \in Int /\ X(60) > 0
      /\ X(72) \in Int /\ X(72) > 0
      /\ X(88) \in Int /\ X(88) > 0
      /\ X(110) \in Int /\ X(110) > 0
      /\ X(130) \in Int /\ X(130) > 0
      /\ X(134) \in Int /\ X(134) > 0
      /\ X(148) \in Int /\ X(148) > 0
      /\ X(194) \in Int /\ X(194) > 0
  BY <1>1, <1>5 DEF Near
<1>10. /\ Y(6) \in Int /\ Y(6) > 0
       /\ Y(8) \in Int /\ Y(8) > 0
       /\ Y(12) \in Int /\ Y(12) > 0
       /\ Y(14) \in Int /\ Y(14) > 0
       /\ Y(16) \in Int /\ Y(16) > 0
       /\ Y(21) \in Int /\ Y(21) > 0
       /\ Y(24) \in Int /\ Y(24) > 0
       /\ Y(42) \in Int /\ Y(42) > 0
       /\ Y(47) \in Int /\ Y(47) > 0
       /\ Y(60) \in Int /\ Y(60) > 0
       /\ Y(70) \in Int /\ Y(70) > 0
       /\ Y(72) \in Int /\ Y(72) > 0
       /\ Y(78) \in Int /\ Y(78) > 0
       /\ Y(86) \in Int /\ Y(86) > 0
  BY <1>1, <1>6 DEF Near
<1>11. ASSUME NEW m \in DOMAIN P
       PROVE  Inside(P[m], Rect(0, 0, W, H))
  BY <1>1, <1>3, <1>4, <1>7, <1>8, <1>9, <1>10 DEF Inside, Rect, At
<1>12. \A n \in DOMAIN P \ {"select"} : Apart(P.select, P[n])
  BY <1>1, <1>3, <1>4, <1>7, <1>8, <1>9, <1>10 DEF Apart, At
<1>13. \A n \in DOMAIN P \ {"icon"} : Apart(P.icon, P[n])
  BY <1>1, <1>3, <1>4, <1>7, <1>8, <1>9, <1>10 DEF Apart, At
<1>14. \A n \in DOMAIN P \ {"header"} : Apart(P.header, P[n])
  BY <1>1, <1>3, <1>4, <1>7, <1>8, <1>9, <1>10 DEF Apart, At
<1>15. \A n \in DOMAIN P \ {"mode"} : Apart(P.mode, P[n])
  BY <1>1, <1>3, <1>4, <1>7, <1>8, <1>9, <1>10 DEF Apart, At
<1>16. \A n \in DOMAIN P \ {"on"} : Apart(P.on, P[n])
  BY <1>1, <1>3, <1>4, <1>7, <1>8, <1>9, <1>10 DEF Apart, At
<1>17. \A n \in DOMAIN P \ {"off_button"} : Apart(P.off_button, P[n])
  BY <1>1, <1>3, <1>4, <1>7, <1>8, <1>9, <1>10 DEF Apart, At
<1>18. \A n \in DOMAIN P \ {"status"} : Apart(P.status, P[n])
  BY <1>1, <1>3, <1>4, <1>7, <1>8, <1>9, <1>10 DEF Apart, At
<1>19. \A n \in DOMAIN P \ {"uptime"} : Apart(P.uptime, P[n])
  BY <1>1, <1>3, <1>4, <1>7, <1>8, <1>9, <1>10 DEF Apart, At
<1>20. \A n \in DOMAIN P \ {"freq"} : Apart(P.freq, P[n])
  BY <1>1, <1>3, <1>4, <1>7, <1>8, <1>9, <1>10 DEF Apart, At
<1>21. \A n \in DOMAIN P \ {"track"} : Apart(P.track, P[n])
  BY <1>1, <1>3, <1>4, <1>7, <1>8, <1>9, <1>10 DEF Apart, At
<1>22. \A n \in DOMAIN P \ {"high"} : Apart(P.high, P[n])
  BY <1>1, <1>3, <1>4, <1>7, <1>8, <1>9, <1>10 DEF Apart, At
<1>23. \A n \in DOMAIN P \ {"medium"} : Apart(P.medium, P[n])
  BY <1>1, <1>3, <1>4, <1>7, <1>8, <1>9, <1>10 DEF Apart, At
<1>24. \A n \in DOMAIN P \ {"low"} : Apart(P.low, P[n])
  BY <1>1, <1>3, <1>4, <1>7, <1>8, <1>9, <1>10 DEF Apart, At
<1>25. \A n \in DOMAIN P \ {"off"} : Apart(P.off, P[n])
  BY <1>1, <1>3, <1>4, <1>7, <1>8, <1>9, <1>10 DEF Apart, At
<1>26. \A m \in DOMAIN P : \A n \in DOMAIN P \ {m} : Apart(P[m], P[n])
  BY <1>4, <1>12, <1>13, <1>14, <1>15, <1>16, <1>17, <1>18, <1>19, <1>20, <1>21, <1>22,
     <1>23, <1>24, <1>25
<1> QED
  BY <1>11, <1>26 DEF PartsApart, P, W, H

(* The numbers every panel is placed by.                                     *)
LEMMA LayoutNumbers ==
  ASSUME NEW s \in Sizes, AtLeastDesign(s)
  PROVE  /\ s.w \in Int /\ s.w >= 1764 /\ s.h \in Int /\ s.h >= 794
         /\ sidebar_width_for(s) \in 430 .. 600
         /\ grid_left_for(s) = 20 + sidebar_width_for(s)
         /\ MIN_SUMMARY_H = 378
<1>1. s.w \in Int /\ s.w >= 1764 /\ s.h \in Int /\ s.h >= 794
  BY DEF Sizes, AtLeastDesign, CLIENT_WIDTH, CLIENT_HEIGHT
<1>2. sidebar_width_for(s) \in 430 .. 600
  BY <1>1 DEF sidebar_width_for, CLIENT_WIDTH, SIDEBAR_W, SIDEBAR_W_MAX
<1>3. grid_left_for(s) = 20 + sidebar_width_for(s)
  BY <1>2 DEF grid_left_for, SIDEBAR_X
<1>4. MIN_SUMMARY_H = 378
  BY DEF MIN_SUMMARY_H, SUMMARY_CMD_TOTAL_H, SUMMARY_CONTENT_BLOCK_Y, SUMMARY_CMD_RESET_Y,
         SUMMARY_CMD_ROW_H, MODE_ICON_SIZE
<1> QED
  BY <1>1, <1>2, <1>3, <1>4

LEMMA SidebarGrowsSlowly ==
  ASSUME NEW s \in Sizes, AtLeastDesign(s)
  PROVE  4 * sidebar_width_for(s) <= 1720 + (s.w - 1764)
<1>1. s.w \in Int /\ s.w >= 1764
  BY LayoutNumbers
<1> QED
  BY <1>1 DEF sidebar_width_for, CLIENT_WIDTH, SIDEBAR_W, SIDEBAR_W_MAX

(* The cards share what the sidebar leaves of the width, but for less than   *)
(* a pixel each.                                                             *)
LEMMA WidthIsShared ==
  ASSUME NEW s \in Sizes, AtLeastDesign(s)
  PROVE  /\ 4 * channel_card_width(s) <= s.w - 46 - grid_left_for(s)
         /\ channel_card_width(s) < 400
              => s.w - 46 - grid_left_for(s) < 4 * channel_card_width(s) + 4
<1> DEFINE L == grid_left_for(s)
           sw == sidebar_width_for(s)
           extra == s.w - 1764
           room == s.w - 46 - L
           fit == room \div 4
<1>1. s.w \in Int /\ s.w >= 1764 /\ sw \in 430 .. 600 /\ L = 20 + sw
  BY LayoutNumbers
<1>2. 4 * sw <= 1720 + extra
  BY SidebarGrowsSlowly
<1>3. channel_card_width(s) = Clamped(fit, 272, 400)
  <2>1. L \in Int
    BY <1>1
  <2> HIDE DEF L
  <2>2. (s.w - SIDEBAR_X - L - (GRID_COLS - 1) * CARD_GAP) \div GRID_COLS = fit
    BY <1>1, <2>1 DEF SIDEBAR_X, GRID_COLS, CARD_GAP
  <2> QED
    BY <2>2, Zenon DEF channel_card_width, CARD_W, CARD_W_MAX, L
<1> HIDE DEF L, sw
<1>4. room \in Int /\ room >= 1088
  BY <1>1, <1>2
<1> HIDE DEF room
<1>5. fit \in Int /\ 4 * fit <= room /\ room < 4 * fit + 4
  BY <1>4
<1> HIDE DEF fit
<1>6. channel_card_width(s) = IF fit > 400 THEN 400 ELSE fit
  BY <1>3, <1>4, <1>5 DEF Clamped
<1> QED
  BY <1>4, <1>5, <1>6 DEF room, L

(* The cards grow with the height only once the Summary card is all there.   *)
LEMMA HeightIsShared ==
  ASSUME NEW s \in Sizes, AtLeastDesign(s)
  PROVE  /\ channel_card_height(s) > 110 => 4 * channel_card_height(s) <= s.h - 640
         /\ channel_card_height(s) < 160 => s.h - 640 < 4 * channel_card_height(s) + 4
<1> DEFINE room == s.h - 640
           fit == room \div 4
<1>1. s.h \in Int
  BY LayoutNumbers
<1>2. channel_card_height(s) = Clamped(fit, 110, 160)
  <2>1. s.h - CONTENT_TOP - GRID_BOTTOM_MARGIN - (GRID_ROWS - 1) * CARD_GAP
          - MIN_SUMMARY_H - CARD_GAP = room
    BY <1>1, LayoutNumbers DEF CONTENT_TOP, GRID_BOTTOM_MARGIN, GRID_ROWS, CARD_GAP
  <2> HIDE DEF room
  <2> QED
    BY <2>1, Zenon DEF channel_card_height, CARD_H, CARD_H_MAX, GRID_ROWS
<1>3. fit \in Int /\ 4 * fit <= room /\ room < 4 * fit + 4
  BY <1>1
<1> HIDE DEF fit
<1> QED
  BY <1>1, <1>2, <1>3 DEF Clamped

(* Two cards are in different rows or different columns.                     *)
LEMMA AlwaysCardsApart ==
  ASSUME NEW s \in Sizes
  PROVE  CardsApart(s)
<1> DEFINE W == channel_card_width(s)
           H == channel_card_height(s)
           L == grid_left_for(s)
<1>1. W \in 272 .. 400 /\ H \in 110 .. 160 /\ L \in Int
  BY CardSizes
<1> SUFFICES ASSUME NEW c \in Cards, NEW d \in Cards, c # d
             PROVE  Apart(Card(s, c), Card(s, d))
  BY DEF CardsApart
<1>2. ASSUME NEW e \in Cards
      PROVE  /\ Card(s, e).x = L + Col(e) * (W + 12)
             /\ Card(s, e).y = 194 + Row(e) * (H + 12)
             /\ Card(s, e).w = W /\ Card(s, e).h = H
  BY DEF Card, Rect, CONTENT_TOP, CARD_GAP
<1> HIDE DEF W, H, L
<1>3. ASSUME NEW i \in 0 .. 3, NEW j \in 0 .. 3, i < j, NEW S \in Int, S > 0, NEW o \in Int
      PROVE  o + i * (S + 12) + S <= o + j * (S + 12)
  <2>1. /\ i = 0 \/ i = 1 \/ i = 2 \/ i = 3
        /\ j = 0 \/ j = 1 \/ j = 2 \/ j = 3
    OBVIOUS
  <2> QED
    BY <1>3, <2>1
<1>4. /\ Row(c) \in 0 .. 3 /\ Col(c) \in 0 .. 3 /\ Row(d) \in 0 .. 3 /\ Col(d) \in 0 .. 3
      /\ Row(c) # Row(d) \/ Col(c) # Col(d)
  BY RowsAndColumns
<1>5. CASE Col(c) < Col(d)
  BY <1>1, <1>2, <1>3, <1>4, <1>5 DEF Apart
<1>6. CASE Col(d) < Col(c)
  BY <1>1, <1>2, <1>3, <1>4, <1>6 DEF Apart
<1>7. CASE Row(c) < Row(d)
  BY <1>1, <1>2, <1>3, <1>4, <1>7 DEF Apart
<1>8. CASE Row(d) < Row(c)
  BY <1>1, <1>2, <1>3, <1>4, <1>8 DEF Apart
<1> QED
  BY <1>4, <1>5, <1>6, <1>7, <1>8

SummaryRoom(s) == s.h - 262 - 4 * channel_card_height(s)

(* The Summary card gets what the grid leaves, and never less than 378 rows. *)
LEMMA SummaryNumbers ==
  ASSUME NEW s \in Sizes, AtLeastDesign(s)
  PROVE  /\ Summary(s).x = grid_left_for(s)
         /\ Summary(s).y = 242 + 4 * channel_card_height(s)
         /\ Summary(s).w = s.w - 10 - grid_left_for(s)
         /\ Summary(s).h = IF SummaryRoom(s) < 378 THEN 378 ELSE SummaryRoom(s)
<1> DEFINE H == channel_card_height(s)
           left == SummaryRoom(s)
           y == GridBottom(s) + CARD_GAP
<1>1. H \in Int /\ s.h \in Int
  BY CardSizes, LayoutNumbers
<1>2. y = 242 + 4 * H
  BY <1>1 DEF GridBottom, CONTENT_TOP, GRID_ROWS, CARD_GAP
<1> HIDE DEF H, left, y
<1>3. s.h - GRID_BOTTOM_MARGIN - y = left
  BY <1>1, <1>2 DEF GRID_BOTTOM_MARGIN, left, SummaryRoom, H
<1>4. /\ Summary(s).x = grid_left_for(s) /\ Summary(s).y = y
      /\ Summary(s).w = s.w - SIDEBAR_X - grid_left_for(s)
      /\ Summary(s).h = IF s.h - GRID_BOTTOM_MARGIN - y < MIN_SUMMARY_H
                        THEN MIN_SUMMARY_H ELSE s.h - GRID_BOTTOM_MARGIN - y
  BY Zenon DEF Summary, Rect, y
<1>5. Summary(s).h = IF left < 378 THEN 378 ELSE left
  <2> DEFINE rest == s.h - GRID_BOTTOM_MARGIN - y
  <2>1. rest = left
    BY <1>3
  <2>2. Summary(s).h = IF rest < MIN_SUMMARY_H THEN MIN_SUMMARY_H ELSE rest
    BY <1>4
  <2>3. MIN_SUMMARY_H = 378
    BY LayoutNumbers
  <2> HIDE DEF rest
  <2> QED
    BY <2>1, <2>2, <2>3, Zenon
<1>6. Summary(s).w = s.w - 10 - grid_left_for(s)
  BY <1>4, Zenon DEF SIDEBAR_X
<1> QED
  BY <1>2, <1>4, <1>5, <1>6, Zenon DEF H, left

(* The panels stay off the grid and off one another.                         *)
LEMMA PanelsAreApart ==
  ASSUME NEW s \in Sizes, AtLeastDesign(s)
  PROVE  PanelsApart(s)
<1> DEFINE W == channel_card_width(s)
           H == channel_card_height(s)
           L == grid_left_for(s)
           sw == sidebar_width_for(s)
<1>1. /\ s.w \in Int /\ s.w >= 1764 /\ s.h \in Int /\ s.h >= 794
      /\ sw \in 430 .. 600 /\ L = 20 + sw
  BY LayoutNumbers
<1>2. W \in 272 .. 400 /\ H \in 110 .. 160
  BY CardSizes
<1>3. /\ Summary(s).x = L /\ Summary(s).y = 242 + 4 * H
  BY SummaryNumbers
<1>4. /\ Sidebar(s).x = 10 /\ Sidebar(s).y = 194 /\ Sidebar(s).w = sw
      /\ Sidebar(s).h = (s.h - 280) + 260 - 194
      /\ Spectrum(s).x = 22 /\ Spectrum(s).y = 228 /\ Spectrum(s).w = sw + 10 - 34
      /\ Spectrum(s).h = (s.h - 280) - 12 - 228
      /\ LogList(s).x = 22 /\ LogList(s).y = (s.h - 280) + 34 /\ LogList(s).w = sw + 10 - 34
      /\ LogList(s).h = 214
      /\ Header(s).x = 10 /\ Header(s).w = s.w - 20
      /\ Header(s).y = 6 /\ Header(s).h = 180
  BY <1>1 DEF Sidebar, Spectrum, LogList, Header, Rect, log_panel_y_for, SIDEBAR_X,
              CONTENT_TOP, LOG_PANEL_H, GRID_BOTTOM_MARGIN, HEADER_H
<1> HIDE DEF W, H, L, sw
<1>5. ASSUME NEW c \in Cards
      PROVE  /\ Apart(Card(s, c), Sidebar(s))
             /\ Apart(Card(s, c), Header(s))
             /\ Apart(Card(s, c), Summary(s))
  <2>1. Row(c) \in 0 .. 3 /\ Col(c) \in 0 .. 3
    BY RowsAndColumns
  <2>2. /\ Card(s, c).x = L + Col(c) * (W + 12) /\ Card(s, c).y = 194 + Row(c) * (H + 12)
        /\ Card(s, c).h = H
    BY DEF Card, Rect, CONTENT_TOP, CARD_GAP, W, H, L
  <2>3. Col(c) * (W + 12) >= 0
    BY <1>2, <2>1
  <2>4. Row(c) * (H + 12) >= 0 /\ Row(c) * (H + 12) <= 3 * (H + 12)
    <3>1. Row(c) = 0 \/ Row(c) = 1 \/ Row(c) = 2 \/ Row(c) = 3
      BY <2>1
    <3> QED
      BY <1>2, <3>1
  <2> DEFINE x == Col(c) * (W + 12)
             y == Row(c) * (H + 12)
  <2>5. x \in Int /\ y \in Int
    BY <1>2, <2>1
  <2> HIDE DEF x, y
  <2>6. Card(s, c).x = L + x /\ Card(s, c).y = 194 + y /\ x >= 0 /\ y >= 0 /\ y <= 3 * (H + 12)
    BY <2>2, <2>3, <2>4 DEF x, y
  <2>7. Sidebar(s).x + Sidebar(s).w <= Card(s, c).x
    BY <1>1, <1>4, <2>5, <2>6
  <2>8. Header(s).y + Header(s).h <= Card(s, c).y
    BY <1>4, <2>5, <2>6
  <2>9. Card(s, c).y + Card(s, c).h <= Summary(s).y
    BY <1>2, <1>3, <2>2, <2>5, <2>6
  <2> QED
    BY <2>7, <2>8, <2>9 DEF Apart
<1>6. Apart(Summary(s), Sidebar(s))
  BY <1>1, <1>3, <1>4 DEF Apart
<1>7. Apart(Heatmap, BulkCorner)
  BY DEF Apart, Heatmap, BulkCorner, Rect, HEATMAP_LEFT, HEATMAP_RIGHT, BULK_X_SHIFT
<1>8. Inside(Spectrum(s), Sidebar(s)) /\ Inside(LogList(s), Sidebar(s))
  BY <1>1, <1>4 DEF Inside
<1>9. Apart(Spectrum(s), LogList(s))
  BY <1>1, <1>4 DEF Apart
<1>10. Inside(Heatmap, Header(s)) /\ (Inside(BulkCorner, Header(s)) <=> s.w >= BulkInHeaderWidth)
  BY <1>1, <1>4 DEF Inside, Heatmap, BulkCorner, Rect, HEATMAP_LEFT, HEATMAP_RIGHT,
                    BULK_X_SHIFT, BulkInHeaderWidth
<1> QED
  BY <1>5, <1>6, <1>7, <1>8, <1>9, <1>10 DEF PanelsApart

(* Where the room between AVG TEMP and Mode is as wide as Highest Temp.       *)
LEMMA RoomForHighest ==
  ASSUME NEW s \in Sizes, AtLeastDesign(s)
  PROVE  s.w >= BlocksApartWidth <=> sidebar_width_for(s) + 1622 <= s.w
<1> DEFINE sw == sidebar_width_for(s)
           part == (s.w - 1764) * 25
           share == part \div 100
           grown == 430 + share
<1>1. s.w \in Int /\ s.w >= 1764
  BY LayoutNumbers
<1>2. sw = IF grown > 600 THEN 600 ELSE grown
  BY <1>1 DEF sidebar_width_for, CLIENT_WIDTH, SIDEBAR_W, SIDEBAR_W_MAX
<1>3. part \in Int /\ part = 25 * s.w - 44100
  BY <1>1
<1> HIDE DEF part
<1>4. share \in Int /\ 100 * share <= part /\ part < 100 * share + 100
  BY <1>3
<1> HIDE DEF sw, share
<1>5. s.w >= 2147 <=> sw + 1622 <= s.w
  BY <1>1, <1>2, <1>3, <1>4
<1> QED
  BY <1>5 DEF BlocksApartWidth, sw

(* The blocks of the Summary card lie in it, side by side; but there is room *)
(* for Highest Temp between AVG TEMP and Mode from a width of 2147 on only.  *)
LEMMA BlocksAreApart ==
  ASSUME NEW s \in Sizes, AtLeastDesign(s)
  PROVE  BlocksApart(s)
<1> DEFINE L == grid_left_for(s)
           sw == sidebar_width_for(s)
           y == BlockY(s)
           avg == AvgX(s)
           hc == HighestXCentred(s)
           high == HighestX(s)
           mode == ModeX(s)
<1>1. /\ s.w \in Int /\ s.w >= 1764 /\ s.h \in Int /\ s.h >= 794
      /\ sw \in 430 .. 600 /\ L = 20 + sw
  BY LayoutNumbers
<1>2. /\ Summary(s).x = L /\ Summary(s).w = s.w - 10 - L
      /\ Summary(s).h \in Int /\ Summary(s).h >= 378
      /\ Summary(s).y \in Int /\ y = Summary(s).y + 60
  <2> DEFINE room == SummaryRoom(s)
  <2>1. room \in Int /\ channel_card_height(s) \in Int
    BY <1>1, CardSizes DEF SummaryRoom
  <2>2. /\ Summary(s).x = L /\ Summary(s).w = s.w - 10 - L
        /\ Summary(s).y = 242 + 4 * channel_card_height(s)
        /\ Summary(s).h = IF room < 378 THEN 378 ELSE room
    BY SummaryNumbers
  <2>3. y = Summary(s).y + 60
    BY DEF BlockY, SUMMARY_CONTENT_BLOCK_Y
  <2> HIDE DEF room, y, L
  <2> QED
    BY <2>1, <2>2, <2>3
<1>3. avg = L + 332
  BY <1>1 DEF AvgX, COMMANDS_COL_W, COMMANDS_COL_GAP
<1>4. mode = s.w - 290
  BY <1>1 DEF ModeX, SIDEBAR_X, MODE_ICON_MARGIN, MODE_ICON_SIZE
<1>5. /\ Commands(s).x = L + 12 /\ Commands(s).y = y
      /\ Commands(s).w = 280 /\ Commands(s).h = 298
      /\ AvgBlock(s).x = avg /\ AvgBlock(s).y = y
      /\ AvgBlock(s).w = 420 /\ AvgBlock(s).h = 220
      /\ HighestBlock(s).x = high /\ HighestBlock(s).y = y
      /\ HighestBlock(s).w = 560 /\ HighestBlock(s).h = 220
      /\ ModeButton(s).x = mode /\ ModeButton(s).y = y
      /\ ModeButton(s).w = 220 /\ ModeButton(s).h = 220
  BY DEF Commands, AvgBlock, HighestBlock, ModeButton, Rect, COMMANDS_COL_W,
         SUMMARY_CMD_TOTAL_H, SUMMARY_CMD_RESET_Y, SUMMARY_CMD_ROW_H, AVG_TEMP_BLOCK_W,
         HIGHEST_TEMP_BLOCK_W, MODE_ICON_SIZE
<1>6. hc = (avg + 420 + mode) \div 2 - 280
  BY DEF HighestXCentred, AVG_TEMP_BLOCK_W, HIGHEST_TEMP_BLOCK_W
<1>7. high = IF hc + 560 > mode THEN mode - 560 ELSE hc
  BY Zenon DEF HighestX, HIGHEST_TEMP_BLOCK_W
<1>8. s.w >= BlocksApartWidth <=> L + 1602 <= s.w
  BY <1>1, RoomForHighest
<1>9. L \in Int /\ L >= 450 /\ L + 1042 <= s.w
  <2>1. 4 * sw <= 1720 + (s.w - 1764)
    BY <1>1, SidebarGrowsSlowly
  <2> HIDE DEF L, sw
  <2> QED
    BY <1>1, <2>1
<1> HIDE DEF L, sw, y, avg, hc, high, mode
<1>10. hc \in Int /\ 2 * hc <= avg + mode - 140 /\ avg + mode - 140 <= 2 * hc + 1
  BY <1>1, <1>3, <1>4, <1>6, <1>9
<1>11. high \in Int /\ high + 560 <= mode /\ L + 292 <= high
  BY <1>1, <1>3, <1>4, <1>7, <1>9, <1>10
<1>12. avg + 420 <= high <=> s.w >= BlocksApartWidth
  BY <1>1, <1>3, <1>4, <1>7, <1>8, <1>9, <1>10
<1>13. \A b \in {Commands(s), AvgBlock(s), HighestBlock(s), ModeButton(s)} :
         Inside(b, Summary(s))
  BY <1>1, <1>2, <1>3, <1>4, <1>5, <1>9, <1>11 DEF Inside
<1>14. \A b \in {AvgBlock(s), HighestBlock(s), ModeButton(s)} : Apart(Commands(s), b)
  BY <1>1, <1>3, <1>4, <1>5, <1>9, <1>11 DEF Apart
<1>15. \A b \in {AvgBlock(s), HighestBlock(s)} : Apart(b, ModeButton(s))
  BY <1>1, <1>3, <1>4, <1>5, <1>9, <1>11 DEF Apart
<1>16. Apart(AvgBlock(s), HighestBlock(s)) <=> s.w >= BlocksApartWidth
  BY <1>1, <1>2, <1>3, <1>5, <1>9, <1>11, <1>12 DEF Apart
<1> QED
  BY <1>13, <1>14, <1>15, <1>16 DEF BlocksApart

(* The grid reaches the right margin, and the Summary card is all on the     *)
(* screen from a height of 1060 on: below it the cards do not grow.          *)
LEMMA AlwaysFilled ==
  ASSUME NEW s \in Sizes, AtLeastDesign(s)
  PROVE  Filled(s)
<1> DEFINE W == channel_card_width(s)
           H == channel_card_height(s)
           L == grid_left_for(s)
           left == SummaryRoom(s)
<1>1. /\ s.w \in Int /\ s.w >= 1764 /\ s.h \in Int /\ s.h >= 794
      /\ L \in Int /\ W \in 272 .. 400 /\ H \in 110 .. 160
  BY LayoutNumbers, CardSizes
<1>2. /\ 4 * W <= s.w - 46 - L
      /\ W < 400 => s.w - 46 - L < 4 * W + 4
  BY WidthIsShared
<1>3. /\ H > 110 => 4 * H <= s.h - 640
      /\ H < 160 => s.h - 640 < 4 * H + 4
  BY HeightIsShared
<1>4. /\ Summary(s).x = L /\ Summary(s).y = 242 + 4 * H /\ Summary(s).w = s.w - 10 - L
      /\ Summary(s).h = IF left < 378 THEN 378 ELSE left
  BY SummaryNumbers
<1>5. GridRight(s) = L + 4 * W + 36
  <2>1. Col(GRID_COLS - 1) = 3
    BY DEF Col, GRID_COLS
  <2>2. GridRight(s) = L + Col(GRID_COLS - 1) * (W + CARD_GAP) + W
    BY DEF GridRight, Card, Rect
  <2> QED
    BY <1>1, <2>1, <2>2 DEF CARD_GAP
<1> HIDE DEF left
<1>9. left = s.h - 262 - 4 * H
  BY DEF left, SummaryRoom
<1> HIDE DEF W, H, L
<1>6. GridFillsWidth(s)
  BY <1>1, <1>2, <1>5 DEF GridFillsWidth, SIDEBAR_X, CARD_W_MAX, GRID_COLS, W
<1>7. SummaryFits(s) <=> s.h >= FullSummaryHeight
  <2>1. CASE s.h >= 1060
    BY <1>1, <1>3, <1>4, <1>9, <2>1 DEF SummaryFits, FullSummaryHeight
  <2>2. CASE s.h < 1060
    BY <1>1, <1>3, <1>4, <1>9, <2>2 DEF SummaryFits, FullSummaryHeight
  <2> QED
    BY <1>1, <2>1, <2>2
<1> QED
  BY <1>6, <1>7 DEF Filled

-----------------------------------------------------------------------------
(* The ids of the controls. *)

(* WM_COMMAND tells the controls apart by their ids alone: every control of  *)
(* every card has one from which channel_index_from_id() and the offset find *)
(* it again, and which is none of resource.h's for the controls there is one *)
(* of (IDC_CH_STRIDE must exceed every offset for that).                     *)
THEOREM IdsAreUnambiguous ==
  ASSUME NEW c \in Cards, NEW part \in DOMAIN Offsets
  PROVE  /\ channel_index_from_id(IdOf(c, part)) = {c}
         /\ OffsetOf(IdOf(c, part)) = Offsets[part]
         /\ IdOf(c, part) \notin FixedIds
<1>1. Offsets[part] \in 2 .. 12
  BY DEF Offsets
<1> DEFINE o == Offsets[part]
<1> HIDE DEF o
<1>2. IdOf(c, part) = 2000 + c * 13 + o /\ o \in 2 .. 12 /\ c \in 0 .. 15
  BY <1>1, CardsAreNumbers DEF IdOf, IDC_CH_BASE, IDC_CH_STRIDE, o
<1>3. (c * 13 + o) \div 13 = c /\ (c * 13 + o) % 13 = o
  BY <1>2
<1>4. IdOf(c, part) - 2000 = c * 13 + o
  BY <1>2
<1>5. channel_index_from_id(IdOf(c, part)) = {c}
  BY <1>2, <1>3, <1>4 DEF channel_index_from_id, IDC_CH_BASE, IDC_CH_STRIDE
<1>6. OffsetOf(IdOf(c, part)) = Offsets[part]
  BY <1>3, <1>4 DEF OffsetOf, IDC_CH_BASE, IDC_CH_STRIDE, o
<1>7. IdOf(c, part) \notin FixedIds
  BY <1>2 DEF FixedIds
<1> QED
  BY <1>5, <1>6, <1>7

-----------------------------------------------------------------------------
(* The selection. *)

LEMMA CountOfCards ==
  ASSUME NEW S \in SUBSET Cards
  PROVE  Cardinality(S) \in 0 .. MAX_CHANNELS
<1>0. 0 \in Int /\ 15 \in Int /\ ~ (0 > 15) /\ 15 - 0 + 1 = 16
  OBVIOUS
<1>1. IsFiniteSet(Cards) /\ Cardinality(Cards) = 16
  BY <1>0, FS_Interval, CardsAreNumbers, Zenon
<1>2. IsFiniteSet(S) /\ Cardinality(S) <= 16
  BY <1>1, FS_Subset, Zenon
<1>3. Cardinality(S) \in Nat
  BY <1>2, FS_CardinalityType
<1> QED
  BY <1>2, <1>3 DEF MAX_CHANNELS

LEMMA EntriesDiffer ==
  /\ SelectAllEntry = 4 /\ CustomEntry = 5 /\ Sending = -1
  /\ 0 .. GRID_ROWS - 1 = 0 .. 3
BY DEF SelectAllEntry, CustomEntry, Sending, GRID_ROWS

LEMMA RowsAreCards ==
  ASSUME NEW r
  PROVE  RowOf(r) \in SUBSET Cards
BY DEF RowOf

LEMMA ToggledAreCards ==
  ASSUME NEW S \in SUBSET Cards, NEW T \in SUBSET Cards
  PROVE  Toggled(S, T) \in SUBSET Cards
BY DEF Toggled

LEMMA ClickedAreCards ==
  ASSUME NEW p \in Points, size \in ScreenSizes
  PROVE  ClickedCard(p) \in SUBSET Cards
BY DEF ClickedCard, FoundAt, FirstHit, Hits

(* Every change of the selection, as Pick() sees it.                         *)
LEMMA PickKeepsTypes ==
  ASSUME SelectionTypeOK, NEW S \in SUBSET Cards, NEW changed \in SUBSET Cards,
         NEW entry \in 0 .. CustomEntry, Pick(S, changed, entry)
  PROVE  SelectionTypeOK'
<1>1. lit' \in SUBSET Cards
  BY DEF Pick, Repainted, SelectionTypeOK
<1>2. label' \in {Sending} \cup 0 .. MAX_CHANNELS
  BY CountOfCards DEF Pick, LabelFor
<1>3. clicks' \in 0 .. MaxClicks
  BY DEF Pick, SelectionTypeOK
<1> QED
  BY <1>1, <1>2, <1>3 DEF Pick, RowList, SelectionTypeOK

(* Each action that changes the selection is a Pick, of cards and with all   *)
(* the cards it changes, and leaves an entry in the row list that is true.   *)
PicksHonestly ==
  \E S \in SUBSET Cards, changed \in SUBSET Cards, entry \in 0 .. CustomEntry :
    /\ Pick(S, changed, entry)
    /\ Toggled(picked, S) \subseteq changed
    /\ entry < SelectAllEntry => S = RowOf(entry)
    /\ entry = SelectAllEntry => S = Cards

Picks ==
  \/ \E c \in Cards : CheckboxClicked(c)
  \/ \E p \in Points : BackgroundClicked(p)
  \/ ClearClicked
  \/ SelectAllClicked
  \/ \E r \in 0 .. GRID_ROWS - 1 : RowChosen(r)
  \/ SelectAllChosen

LEMMA HonestToggle ==
  ASSUME picked \in SUBSET Cards, NEW T \in SUBSET Cards,
         Pick(Toggled(picked, T), T, CustomEntry)
  PROVE  PicksHonestly
<1> DEFINE S == Toggled(picked, T)
<1>1. S \in SUBSET Cards /\ Toggled(picked, S) \subseteq T
  BY ToggledAreCards DEF Toggled
<1>2. Pick(S, T, CustomEntry)
  OBVIOUS
<1> HIDE DEF S
<1>3. CustomEntry \in 0 .. CustomEntry /\ ~ (CustomEntry < SelectAllEntry)
      /\ CustomEntry # SelectAllEntry
  BY EntriesDiffer
<1> QED
  BY <1>1, <1>2, <1>3 DEF PicksHonestly

LEMMA PicksAreHonest ==
  ASSUME SelectionTypeOK, Picks
  PROVE  PicksHonestly
<1> USE EntriesDiffer
<1>0. picked \in SUBSET Cards /\ size \in ScreenSizes
  BY DEF SelectionTypeOK
<1>1. ASSUME NEW c \in Cards, CheckboxClicked(c)
      PROVE  PicksHonestly
  <2>1. PICK d \in Cards : Pick(Toggled(picked, {d}), {d}, CustomEntry)
    BY <1>1 DEF CheckboxClicked, channel_index_from_id
  <2> QED
    BY <1>0, <2>1, HonestToggle
<1>2. ASSUME NEW p \in Points, BackgroundClicked(p)
      PROVE  PicksHonestly
  <2>1. Pick(Toggled(picked, ClickedCard(p)), ClickedCard(p), CustomEntry)
    BY <1>2 DEF BackgroundClicked
  <2>2. ClickedCard(p) \in SUBSET Cards
    BY <1>0, ClickedAreCards
  <2> QED
    BY <1>0, <2>1, <2>2, HonestToggle
<1>3. CASE ClearClicked
  <2>1. Pick({}, picked, CustomEntry) /\ Toggled(picked, {}) \subseteq picked
    BY <1>3 DEF ClearClicked, Toggled
  <2> QED
    BY <1>0, <2>1 DEF PicksHonestly
<1>4. CASE SelectAllClicked \/ SelectAllChosen
  <2>1. Pick(Cards, Cards \ picked, SelectAllEntry)
    BY <1>4 DEF SelectAllClicked, SelectAllChosen
  <2>2. Toggled(picked, Cards) \subseteq Cards \ picked
    BY <1>0 DEF Toggled
  <2>3. Cards \in SUBSET Cards /\ Cards \ picked \in SUBSET Cards
    OBVIOUS
  <2> QED
    BY <2>1, <2>2, <2>3 DEF PicksHonestly
<1>5. ASSUME NEW r \in 0 .. GRID_ROWS - 1, RowChosen(r)
      PROVE  PicksHonestly
  BY <1>0, <1>5, RowsAreCards, ToggledAreCards DEF RowChosen, PicksHonestly
<1> QED
  BY <1>1, <1>2, <1>3, <1>4, <1>5 DEF Picks

(* Every variable keeps its type: the lists and counts the controls are      *)
(* filled with stay in range.                                                *)
THEOREM SelectionTypeCorrect == SelectionSpec => []SelectionTypeOK
<1>1. SelectionInit => SelectionTypeOK
  <2>1. 0 \in 0 .. MAX_CHANNELS /\ 0 \in 0 .. MaxClicks /\ CustomEntry \in 0 .. CustomEntry
    BY EntriesDiffer DEF MAX_CHANNELS
  <2> QED
    BY <2>1 DEF SelectionInit, SelectionTypeOK, PowerActions
<1>2. ASSUME SelectionTypeOK, [SelectionNext]_selectionVars
      PROVE  SelectionTypeOK'
  <2>1. CASE Picks
    BY <1>2, <2>1, PicksAreHonest, PickKeepsTypes DEF PicksHonestly
  <2>2. CASE CustomChosen
    BY <1>2, <2>2, EntriesDiffer DEF CustomChosen, SelectionTypeOK
  <2>3. CASE CardClickToggled
    BY <1>2, <2>3 DEF CardClickToggled, SelectionTypeOK, BoxesShown
  <2>4. ASSUME NEW action \in {"on", "off"}, BulkPower(action)
        PROVE  SelectionTypeOK'
    BY <1>2, <2>4 DEF BulkPower, SelectionTypeOK, PowerActions
  <2>5. CASE BusyChanges
    BY <1>2, <2>5 DEF BusyChanges, SelectionTypeOK, shownVars
  <2>6. ASSUME NEW up \in BOOLEAN, LinkChanged(up)
        PROVE  SelectionTypeOK'
    BY <1>2, <2>6 DEF LinkChanged, SelectionTypeOK, PowerActions, ArmedAfter, BoxesShown
  <2>7. ASSUME NEW s \in ScreenSizes, Resized(s)
        PROVE  SelectionTypeOK'
    BY <1>2, <2>7 DEF Resized, LaidOut, SelectionTypeOK
  <2>8. CASE UNCHANGED selectionVars
    BY <1>2, <2>8 DEF selectionVars, shownVars, SelectionTypeOK
  <2> QED
    BY <1>2, <2>1, <2>2, <2>3, <2>4, <2>5, <2>6, <2>7, <2>8 DEF SelectionNext, Picks
<1> QED
  BY <1>1, <1>2, PTL DEF SelectionSpec

(* What makes it inductive: the button Card Click is enabled only by a link. *)
ModeInv == NeverArmedDark /\ BoxesFollowMode /\ (usable <=> linked)

(* Card Click, the checkboxes, the target buttons and the power marker keep  *)
(* in step with the link and with one another, in every order of clicks and  *)
(* connections.                                                              *)
LEMMA ModeInvHolds == SelectionSpec => []ModeInv
<1>1. SelectionInit => ModeInv
  BY DEF SelectionInit, ModeInv, NeverArmedDark, BoxesFollowMode
<1>2. ASSUME SelectionTypeOK, ModeInv, [SelectionNext]_selectionVars
      PROVE  ModeInv'
  <2> USE DEF ModeInv, NeverArmedDark, BoxesFollowMode
  <2>0. {linked, armed, boxes, targets, usable} \subseteq BOOLEAN
    BY <1>2 DEF SelectionTypeOK
  <2>1. CASE Picks
    <3>1. targets' = (linked /\ armed) /\ UNCHANGED <<linked, armed, boxes, usable, marker>>
      BY <1>2, <2>1, PicksAreHonest DEF PicksHonestly, Pick
    <3> QED
      BY <1>2, <2>0, <3>1
  <2>2. CASE CustomChosen
    BY <1>2, <2>2 DEF CustomChosen
  <2>3. CASE CardClickToggled
    BY <1>2, <2>0, <2>3 DEF CardClickToggled, BoxesShown
  <2>4. ASSUME NEW action \in {"on", "off"}, BulkPower(action)
        PROVE  ModeInv'
    BY <1>2, <2>0, <2>4 DEF BulkPower
  <2>5. CASE BusyChanges
    BY <1>2, <2>5 DEF BusyChanges, shownVars
  <2>6. ASSUME NEW up \in BOOLEAN, LinkChanged(up)
        PROVE  ModeInv'
    BY <1>2, <2>0, <2>6 DEF LinkChanged, ArmedAfter, BoxesShown
  <2>7. ASSUME NEW s \in ScreenSizes, Resized(s)
        PROVE  ModeInv'
    BY <1>2, <2>7 DEF Resized
  <2>8. CASE UNCHANGED selectionVars
    BY <1>2, <2>8 DEF selectionVars, shownVars
  <2> QED
    BY <1>2, <2>1, <2>2, <2>3, <2>4, <2>5, <2>6, <2>7, <2>8 DEF SelectionNext, Picks
<1> QED
  BY <1>1, <1>2, SelectionTypeCorrect, PTL DEF SelectionSpec

(* Card Click is never on without a link, and a command for the selection is *)
(* offered exactly while it is on.                                           *)
THEOREM NeverArmedInTheDark == SelectionSpec => []NeverArmedDark
BY ModeInvHolds, PTL DEF ModeInv

(* The checkboxes are visible exactly while there is a link and Card Click   *)
(* is on.                                                                    *)
THEOREM BoxesAreRight == SelectionSpec => []BoxesFollowMode
BY ModeInvHolds, PTL DEF ModeInv

(* Borders, count and row list show the selection: a handler repaints just   *)
(* the cards it thinks it changed, and that is always enough.                *)
THEOREM ShownIsSelected == SelectionSpec => []SelectionIsShown
<1> USE DEF SelectionIsShown, RowListHonest
<1>1. SelectionInit => SelectionIsShown
  <2>1. Cardinality({}) = 0
    BY FS_EmptySet
  <2> QED
    BY <2>1, EntriesDiffer DEF SelectionInit
<1>2. ASSUME SelectionTypeOK, SelectionIsShown, [SelectionNext]_selectionVars
      PROVE  SelectionIsShown'
  <2>1. CASE Picks
    <3>1. PICK S \in SUBSET Cards, changed \in SUBSET Cards, entry \in 0 .. CustomEntry :
            /\ Pick(S, changed, entry)
            /\ Toggled(picked, S) \subseteq changed
            /\ entry < SelectAllEntry => S = RowOf(entry)
            /\ entry = SelectAllEntry => S = Cards
      BY <1>2, <2>1, PicksAreHonest DEF PicksHonestly
    <3>2. lit' = picked'
      BY <1>2, <3>1 DEF Pick, Repainted, Toggled
    <3>3. label' \in {Sending, Cardinality(picked')}
      BY <3>1 DEF Pick, LabelFor
    <3>4. combo' = entry /\ picked' = S
      BY <3>1 DEF Pick, RowList
    <3>5. RowListHonest'
      BY <3>1, <3>4 DEF RowOf
    <3> QED
      BY <3>2, <3>3, <3>5
  <2>2. CASE CustomChosen
    BY <1>2, <2>2, EntriesDiffer DEF CustomChosen
  <2>3. CASE CardClickToggled
    BY <1>2, <2>3 DEF CardClickToggled, RowOf
  <2>4. ASSUME NEW action \in {"on", "off"}, BulkPower(action)
        PROVE  SelectionIsShown'
    BY <1>2, <2>4 DEF BulkPower, RowOf
  <2>5. CASE BusyChanges
    BY <1>2, <2>5 DEF BusyChanges, shownVars, RowOf
  <2>6. ASSUME NEW up \in BOOLEAN, LinkChanged(up)
        PROVE  SelectionIsShown'
    BY <1>2, <2>6 DEF LinkChanged, RowOf
  <2>7. ASSUME NEW s \in ScreenSizes, Resized(s)
        PROVE  SelectionIsShown'
    BY <1>2, <2>7 DEF Resized, RowOf
  <2>8. CASE UNCHANGED selectionVars
    BY <1>2, <2>8 DEF selectionVars, shownVars, RowOf
  <2> QED
    BY <1>2, <2>1, <2>2, <2>3, <2>4, <2>5, <2>6, <2>7, <2>8 DEF SelectionNext, Picks
<1> QED
  BY <1>1, <1>2, SelectionTypeCorrect, PTL DEF SelectionSpec

(* The window is hit-tested for the size it was last drawn for.              *)
LEMMA DrawnForItsSize == SelectionSpec => [](drawn = size)
<1>1. SelectionInit => drawn = size
  BY DEF SelectionInit
<1>2. ASSUME SelectionTypeOK, drawn = size, [SelectionNext]_selectionVars
      PROVE  (drawn = size)'
  <2>1. CASE Picks
    BY <1>2, <2>1, PicksAreHonest DEF PicksHonestly, Pick
  <2>2. ASSUME NEW s \in ScreenSizes, Resized(s)
        PROVE  (drawn = size)'
    BY <2>2 DEF Resized, LaidOut
  <2>3. CASE UNCHANGED <<size, drawn>>
    BY <1>2, <2>3
  <2> QED
    BY <1>2, <2>1, <2>2, <2>3
    DEF SelectionNext, Picks, CustomChosen, CardClickToggled, BulkPower, BusyChanges,
        LinkChanged, selectionVars
<1> QED
  BY <1>1, <1>2, SelectionTypeCorrect, PTL DEF SelectionSpec

(* A click finds the card drawn under it, and none between the cards, for    *)
(* every size of the window and every pixel of it.                           *)
THEOREM ClicksFindCards == SelectionSpec => []ClickFindsDrawnCard
<1>1. ASSUME SelectionTypeOK, drawn = size
      PROVE  ClickFindsDrawnCard
  <2> SUFFICES ASSUME NEW p \in Points
               PROVE  ClickedCard(p) = DrawnAt[drawn][p]
    BY DEF ClickFindsDrawnCard
  <2>1. size \in ScreenSizes /\ size \in Sizes /\ p[1] \in Int /\ p[2] \in Int
    BY <1>1 DEF SelectionTypeOK
  <2>2. ClickedCard(p) = FirstHit(size, p[1], p[2])
    BY <2>1 DEF ClickedCard, FoundAt
  <2>3. DrawnAt[drawn][p] = {c \in Cards : Covers(Card(size, c), p[1], p[2])}
    BY <1>1, <2>1 DEF DrawnAt
  <2> QED
    BY <2>1, <2>2, <2>3, HitIsTheDrawnCard
<1> QED
  BY <1>1, SelectionTypeCorrect, DrawnForItsSize, PTL

(* Whatever size the user drags the window to, of the cards, their parts,    *)
(* the panels and the blocks of the Summary card none covers another, except *)
(* Highest Temp AVG TEMP, exactly below a width of 2147; the grid fills the  *)
(* width, the Summary card is cut off exactly below a height of 1060, and    *)
(* every gauge selects the level it shows: not just at the sizes of the run. *)
THEOREM LayoutIsRight == SelectionSpec => []LayoutHolds
<1>1. ASSUME SelectionTypeOK
      PROVE  LayoutHolds
  <2>1. drawn \in ScreenSizes /\ drawn \in Sizes
    BY <1>1, SelectionAssumption DEF SelectionTypeOK
  <2>2. Readable(drawn)
    BY <2>1, AlwaysReadable
  <2>3. AtLeastDesign(drawn) => Tidy(drawn) /\ Filled(drawn)
    BY <2>1, AlwaysCardsApart, PartsAreApart, PanelsAreApart, BlocksAreApart,
       AlwaysFilled DEF Tidy
  <2> QED
    BY <2>1, <2>2, <2>3
    DEF LayoutHolds, OverlapsAsStated, FillsTheWindow, GaugeReadsBack, TidySizes,
        FilledSizes, ReadableSizes
<1> QED
  BY <1>1, SelectionTypeCorrect, PTL
=============================================================================
