CONSTANTS
  t1 = t1
  t2 = t2
  t3 = t3
  Tracks <- ThreeTracks
  MaxTracks = 3
  Slots = 2
  MaxPatterns = 2
  Setups <- EverySetup
SPECIFICATION Spec
INVARIANTS TypeOK BindingsFollow SlotsFollowGraph SelectionIsWired
PROPERTIES KeepsTheBook EffectsStayInTune
CHECK_DEADLOCK FALSE
