------------------------------ MODULE MCInput ------------------------------
EXTENDS InputProps
=============================================================================
