------------------------------- MODULE MCUefi -------------------------------
(* Uefi.tla on a small instance. *)
EXTENDS Uefi

MCCpuCounts == {0, NumCpus}      \* platform_num_cpus answers 0 on an error

=============================================================================
