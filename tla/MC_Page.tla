------------------------------- MODULE MC_Page -------------------------------
EXTENDS Page

\* Two fingers, as for Input.
MC_MaxTouches == 2
=============================================================================
