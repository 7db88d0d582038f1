---------------------------- MODULE VmmLifecycle ----------------------------
(***************************************************************************)
(* What the driver promises to bfm: the life of one VMM as seen through    *)
(* common_vmm_status() and the CPUs that run it.  CPUs come up one by one, *)
(* starting with CPU 0, and go down in the opposite order; the VMM can be  *)
(* unloaded only when no CPU runs it; a corrupt VMM stays corrupt.         *)
(***************************************************************************)
EXTENDS Integers

CONSTANT Cpu      \* the CPUs, numbered from 0

VARIABLES
  status,     \* what common_vmm_status() returns
  up          \* the CPUs running the VMM

lvars == <<status, up>>

Init == status = "UNLOADED" /\ up = {}

Load == status = "UNLOADED" /\ status' = "LOADED" /\ UNCHANGED up

Unload == status = "LOADED" /\ up = {} /\ status' = "UNLOADED" /\ UNCHANGED up

\* c is the lowest CPU that is not up.
CpuUp(c) ==
  /\ status \in {"LOADED", "RUNNING"}
  /\ up = 0 .. c - 1
  /\ up' = up \cup {c}
  /\ status' = "RUNNING"

\* c is the highest CPU that is up.
CpuDown(c) ==
  /\ status = "RUNNING"
  /\ up = 0 .. c
  /\ up' = up \ {c}
  /\ UNCHANGED status

Stopped == status = "RUNNING" /\ up = {} /\ status' = "LOADED" /\ UNCHANGED up

Corrupt ==
  /\ status \in {"LOADED", "RUNNING"}
  /\ status' = "CORRUPT"
  /\ UNCHANGED up

Next ==
  \/ Load \/ Unload \/ Stopped \/ Corrupt
  \/ \E c \in Cpu : CpuUp(c) \/ CpuDown(c)

Spec == Init /\ [][Next]_lvars

=============================================================================
