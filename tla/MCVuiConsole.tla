---------------------------- MODULE MCVuiConsole ----------------------------
EXTENDS VuiConsoleProps

\* A character, a newline and a tab: the page under everything that moves it.
PageTexts == { <<120>>, <<10>>, <<9>> }

\* The memory was blank, or held the digits of 44, a background there is.
Blank == [i \in 0 .. EscapeSize - 1 |-> 0]
BlankMemory == { Blank }
AnyMemory == { Blank, [i \in 0 .. EscapeSize - 1 |-> 52] }

\* A character, the Escape key, the code of the prompt (red on black), a code that
\* names a background, and the one of kpanic, which names none.
CodeTexts ==
  { <<120>>, <<27>>,
    <<27, 91, 48, 59, 51, 49, 59, 52, 57, 109>>,
    <<27, 91, 48, 59, 51, 50, 59, 52, 52, 109>>,
    <<27, 91, 49, 59, 51, 51, 109>> }

=============================================================================
