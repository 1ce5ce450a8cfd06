CONSTANTS
  a = a  b = b  c = c  d = d
  Nodes = {a, b, c, d}
  Setups <- EverySetup
  WorkerCount = 3
  Audio = Audio
  NoNode = NoNode
  QueueSize = 1
  LongPreemption = FALSE
SPECIFICATION FairSpec
INVARIANTS TypeOK NobodyRunsBetweenBlocks FramesAgree
PROPERTIES DataflowSpec CallbackReturns
