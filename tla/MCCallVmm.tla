------------------------------ MODULE MCCallVmm -----------------------------
(* CallVmm.tla on a small address space. *)
EXTENDS CallVmm

\* A text segment whose end is not page-aligned, a data segment that starts in
\* the middle of a page, and one that ends with the image on a page boundary.
MCInstrs == {[mem_offset |-> 0, memsz |-> 3, perm |-> "RE"],
             [mem_offset |-> 3, memsz |-> 2, perm |-> "RW"],
             [mem_offset |-> 4, memsz |-> 2, perm |-> "RW"]}

=============================================================================
