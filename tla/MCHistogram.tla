---------------------------- MODULE MCHistogram ----------------------------
(* Small instances of Histogram.                                           *)
EXTENDS Histogram, TLC

(* Both signs, so that neither extreme starts at the 0 of the constructor. *)
MixedValues == {-2, 1, 3}

UpdaterSymmetry == Permutations(Updaters)
=============================================================================
