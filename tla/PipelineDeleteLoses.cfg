CONSTANTS
  Chunk = 2
  Block = 2
  StepLen = 3
  NumSteps = 2
  Setups <- OneDeletion
SPECIFICATION Spec
PROPERTIES FreshEventsKept
