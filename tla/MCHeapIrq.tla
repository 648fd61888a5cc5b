------------------------------ MODULE MCHeapIrq ------------------------------
EXTENDS HeapIrq
=============================================================================
