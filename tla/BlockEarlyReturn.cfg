CONSTANTS
  a = a  b = b  c = c  d = d
  Nodes = {a, b, c, d}
  Setups <- MixedSetup
  WorkerCount = 2
  Audio = Audio
  NoNode = NoNode
  QueueSize = 1
  LongPreemption = FALSE
SPECIFICATION FairSpec
INVARIANT NobodyRunsBetweenBlocks
