------------------------------- MODULE MC_Hover -------------------------------
EXTENDS Hover

\* Two peers: one to be hovered and leave, one to take the mouse after it.
MC_MaxPeers == 2
=============================================================================
