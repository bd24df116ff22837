SPECIFICATION SelectionSpec
CONSTANTS
  ScreenSizes <- Screens
  Points <- Pixels
  BusySets <- Busy
  MaxClicks = 2
INVARIANT ClickFindsDrawnCard
INVARIANT NeverArmedDark
INVARIANT SelectionIsShown
INVARIANT LayoutHolds
INVARIANT BoxesFollowMode
