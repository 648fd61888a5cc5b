----------------------------- MODULE MCTerminal -----------------------------
EXTENDS Terminal
=============================================================================
