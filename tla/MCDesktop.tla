----------------------------- MODULE MCDesktop ------------------------------
EXTENDS DesktopProps
=============================================================================
