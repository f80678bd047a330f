-------------------------------- MODULE MCKernel --------------------------------
(* Kernel with a table of four threads, a ring of four cells, a counting        *)
(* semaphore that an interrupt handler also signals and a boolean semaphore     *)
(* that starts free.                                                            *)
EXTENDS Kernel

MCInitStatus == [s \in Sem |-> IF s \in Bool_Semaphore THEN 1 ELSE 0]

================================================================================
