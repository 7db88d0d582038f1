------------------------------ MODULE MCWindows -----------------------------
(* Windows.tla on small instances. *)
EXTENDS Windows, TLC

MCSymmetry == Permutations(Blocks)
MCAllCpus  == {NumCpus}

=============================================================================
