\* A full code of the kernel just fits the nine cells, and the console's pointer
\* lies a few bytes behind them. The page is as small as it can be.
CONSTANTS
  rows = 3  cols = 1  MaxLines = 3
  EscapeSize = 9  TabAt = 10  DataAt = 15
  TabSizes = {0, 2}
  Held <- AnyMemory  Texts <- CodeTexts
SPECIFICATION Spec
PROPERTIES CodeIsReadAsWritten
\* The run ends with its lines or with the machine.
CHECK_DEADLOCK FALSE
