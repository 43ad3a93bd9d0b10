SPECIFICATION AppSpec
CONSTANT MaxProfiles = 3
INVARIANTS OverlayOnScreen TabsShowSameProfiles
PROPERTY OverlayStaysDrawn
CHECK_DEADLOCK FALSE
