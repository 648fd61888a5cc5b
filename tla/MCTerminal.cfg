\* Five characters: handlers may print before, between and after any of them.
CONSTANT TextMax = 5
SPECIFICATION TerminalSpec
INVARIANTS PrintfReachesTheConsole OnlyHandlersDivertDebugText
