------------------------------ MODULE MCDrive -------------------------------
EXTENDS DriveProps

\* A read of two sectors by one command, and one of three sectors in chunks.
MCCalls == {[sector |-> 3, count |-> 2, single |-> TRUE],
            [sector |-> 6, count |-> 3, single |-> FALSE]}
=============================================================================
