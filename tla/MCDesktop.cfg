\* The timer's line, which is masked, the clock's, which only a system call acknowledges, and the
\* two of the desktop. Two keys once the console listens. Five objects: the console's
\* three, a window of the viewer with its label, and then none.
CONSTANTS
  Lines = {0, 1, 8, 12}
  Keys = {k1, k2}  MaxKeys = 2  MaxHandles = 5
SPECIFICATION DesktopSpec
INVARIANTS DownForAReason PacketsInStep KeysReachTheConsole ClickEnds
PROPERTIES SlipsComeFromBoot EveryByteIsRead
CHECK_DEADLOCK FALSE
