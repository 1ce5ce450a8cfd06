CONSTANTS
  Events = {a, b}
  Unset = unset
  audio = audio
  Scheduler = scheduler
  Capacity = 3
  Poppers <- BothThreads
  MaxPushes = 6
SPECIFICATION Spec
INVARIANTS FifoOrder
