------------------------------ MODULE MCCommon ------------------------------
(* Common.tla on small instances. *)
EXTENDS Common, TLC

MCSymmetry == Permutations(Blocks)
MCAllCpus  == {NumCpus}          \* the number of CPUs never changes
MCHotplug  == 0 .. NumCpus       \* CPUs come and go between two calls

=============================================================================
