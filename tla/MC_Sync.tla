------------------------------ MODULE MC_Sync -------------------------------
(* Sync for TLC: three session ids (this client's and two peers'), enough *)
(* Tadpole objects for both peers plus one re-creation after a leave, and *)
(* messages that live for two ticks.                                     *)
EXTENDS Sync, TLC

CONSTANTS i1, i2, i3

MC_Ids == {i1, i2, i3}
MC_MaxObjs == 3
MC_MaxAge == 3
MC_MaxBurst == 1

MC_Symmetry == Permutations(MC_Ids)
=============================================================================
