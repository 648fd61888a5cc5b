------------------------------- MODULE MCHeap -------------------------------
EXTENDS HeapProps
=============================================================================
