------------------------------ MODULE MC_Input ------------------------------
(* Input for TLC: two fingers, so one can lift while the other stays.     *)
EXTENDS Input

MC_MaxTouches == 2
=============================================================================
