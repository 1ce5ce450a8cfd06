CONSTANTS
  NumVoices = 2
  Tracks = {1, 2}
  Notes = {0, 1}
  Prints = {1, 2}
  ReleaseLen = 1
  MaxPoly = 2
  DefaultPoly = 2
  Lengths = {1, 2}
  Lineups <- Mixed
  Locks = {}
  Budgets <- OneEdit
SPECIFICATION Spec
INVARIANTS SamplerNotesEnd
