CONSTANTS
  Events = {a, b}
  Unset = unset
  audio = audio
  Scheduler = scheduler
  Capacity = 3
  Poppers <- BothThreads
  MaxPushes = 5
SPECIFICATION Spec
INVARIANTS TypeOK ReadsAreWritten NoSlotRace OnlyClashesDisorder IInv
PROPERTIES FifoSpec
