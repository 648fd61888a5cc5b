\* Drives with 1, 3 and 5 slots, of which a mask of two bits leaves 0, 2 and 0: the
\* second lets one command stay behind in its slot. Two polls before the port counts as
\* hung; reads of two sectors by one command and of three in chunks, in every order.
CONSTANTS
  Caps = {0, 2, 4}  MaxCap = 4  FieldSize = 4
  Calls <- MCCalls
  PrdtSectors = 2  MaxSpin = 2  BufferSectors = 3
SPECIFICATION Spec
INVARIANT ReadFailsForAReason
PROPERTIES HandedCommandsStay ListChangesAtRest EveryReadEnds ImplementsSectorReads
CHECK_DEADLOCK FALSE
