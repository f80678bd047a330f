----------------------------- MODULE MCThreadSched -----------------------------
(* ThreadSched with four threads, one counting semaphore that an interrupt     *)
(* handler also signals, and one boolean semaphore that starts free.           *)
EXTENDS ThreadSched

MCInitStatus == [s \in Sem |-> IF s \in Bool_Semaphore THEN 1 ELSE 0]

================================================================================
