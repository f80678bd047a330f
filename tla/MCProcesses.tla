------------------------------- MODULE MCProcesses -------------------------------
(* Processes with small tables; the pages are interchangeable.                     *)
EXTENDS Processes, TLC

PageSymmetry == Permutations(Page)

================================================================================
