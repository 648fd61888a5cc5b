\* Three rows of three columns scroll twice and wrap within seven lines.
CONSTANTS
  rows = 3  cols = 3  MaxLines = 7
  EscapeSize = 9  TabAt = 9  DataAt = 13
  TabSizes = {0, 2}
  Held <- BlankMemory  Texts <- PageTexts
SPECIFICATION Spec
INVARIANTS OnlyTabsLeaveTheConsole PageInOrder
PROPERTIES LinesGoForAReason
\* The run ends with its lines or with the machine.
CHECK_DEADLOCK FALSE
