---------------------------- MODULE MCConfigFile ----------------------------
(***************************************************************************)
(* ConfigFile for TLC: the commands are interchangeable model values.      *)
(***************************************************************************)
EXTENDS ConfigFile, TLC

ProcSymmetry == Permutations(Procs)
=============================================================================
