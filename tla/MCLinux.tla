------------------------------- MODULE MCLinux ------------------------------
(* Linux.tla on small instances. *)
EXTENDS Linux, TLC

MCSymmetry == Permutations(Blocks)
MCAllCpus  == {NumCpus}
MCHotplug  == 0 .. NumCpus

=============================================================================
