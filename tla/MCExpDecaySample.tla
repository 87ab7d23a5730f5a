-------------------------- MODULE MCExpDecaySample --------------------------
EXTENDS ExpDecaySample, TLC

UpdaterSymmetry == Permutations(Updaters)

(* The clock can be set back; a priority more than a threshold and a half  *)
(* below the start is 0.                                                   *)
SetBack == {2, -1}
Underflow == -2
=============================================================================
