---------------------------- MODULE MCKernelIpc ----------------------------
(* Instances of the kernel's IPC for model checking.                        *)
EXTENDS KernelIpc

CONSTANT a

(* The client a starts on CPU 1, every other thread may run on every CPU.   *)
Apart == {[t \in Threads |-> IF t = a THEN 1 ELSE NO_AFF]}
=============================================================================
