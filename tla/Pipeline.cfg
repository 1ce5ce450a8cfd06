CONSTANTS
  Chunk = 2
  Block = 2
  StepLen = 3
  NumSteps = 2
  Setups <- EverySetup
SPECIFICATION Spec
INVARIANTS TypeOK StepsInTurn
PROPERTIES OnlyTheStartIsLost PhaseKept DeletionIsQuiet
