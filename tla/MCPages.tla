------------------------------ MODULE MCPages -------------------------------
EXTENDS PagesProps
=============================================================================
