-------------------------------- MODULE MCMemory --------------------------------
(* Memory with pages of 16 bytes and tables of eight entries, so that a process    *)
(* needs a second page table after a few allocations.                              *)
EXTENDS Memory

================================================================================
