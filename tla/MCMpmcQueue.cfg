CONSTANTS
  Threads = {t1, t2, t3}
  Values = {a, b}
  Capacity = 2
  MaxPos = 4
SYMMETRY Symmetry
SPECIFICATION Spec
INVARIANTS TypeOK NoCellRace PopsWhatWasPushed CursorsInOrder IInv
