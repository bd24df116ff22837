----------------------------- MODULE MCSelection ----------------------------
(* Client sizes of real screens, from the smallest the window may be dragged *)
(* to up to 3840 x 2160, and one of a screen smaller than the design, which  *)
(* WinMain lays out for all the same; and two either side of the height from *)
(* which on the Summary card is all on the screen and of the width from      *)
(* which on its blocks keep off one another.  The pixels clicked on are      *)
(* corners of three cards at each of these sizes, first inside and first     *)
(* outside, and one on a card's bare background.                             *)
EXTENDS Selection

Screens ==
  {[w |-> 1764, h |-> 794],  [w |-> 2146, h |-> 1059], [w |-> 2147, h |-> 1060],
   [w |-> 1366, h |-> 705],  [w |-> 1920, h |-> 1017],
   [w |-> 1920, h |-> 1137], [w |-> 2560, h |-> 1377], [w |-> 3840, h |-> 2097]}

Corners(r) ==
  {<<r.x, r.y>>, <<r.x + r.w - 1, r.y + r.h - 1>>, <<r.x + r.w, r.y>>,
   <<r.x, r.y + r.h>>, <<r.x + 3, r.y + 40>>}

Pixels == UNION {Corners(Card(s, c)) : s \in Screens, c \in {0, 6, 15}}

Busy == {{}, {0, 5}}
=============================================================================
