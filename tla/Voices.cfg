CONSTANTS
  NumVoices = 2
  Tracks = {1, 2}
  Notes = {0, 1}
  Prints = {1, 2, 3}
  ReleaseLen = 1
  Lineups <- Shared
  MaxPoly = 2
  DefaultPoly = 2
  Lengths = {1, 2}
  Locks = {2}
  Budgets <- Mixes
SPECIFICATION Spec
INVARIANTS TypeOK OffsBelong EngineNotesEnd PlaysItsSound
PROPERTIES EnabledCovers CapHolds NoTrackCutsAnother
