------------------------------- MODULE MCDevices --------------------------------
(* Devices with three processes, two of which can live at a time, one buffer of two *)
(* or four bytes, a DMA channel and two blocks. Processes and bytes are interchange-*)
(* able, and all the properties are about safety.                                  *)
EXTENDS Devices, TLC

Symmetric == Permutations(Proc) \cup Permutations(Byte)
================================================================================
