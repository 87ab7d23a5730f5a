-------------------------- MODULE MCUniformSample --------------------------
(* Small instances of UniformSample.                                       *)
EXTENDS UniformSample, TLC

UpdaterSymmetry == Permutations(Updaters)
=============================================================================
