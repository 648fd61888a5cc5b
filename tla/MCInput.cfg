\* A ring of two cells and the one behind wraps twice in the seven interrupts of a run,
\* a line of three fills up, and the ring can overflow at every point of the reader.
CONSTANTS
  ConsoleSize = 2  KeyboardSize = 2  LineMax = 3  MaxKeys = 7
SPECIFICATION FairSpec
INVARIANTS HandIsOldest LineHasRoom
PROPERTIES ImplementsLineSource LinesAreProcessed
