-------------------------- MODULE MCKernelFencing --------------------------
(* Small instances of KernelFencing for TLC. *)
EXTENDS KernelFencing

CONSTANTS p1, shared

\* One resource of the project and, where the instance has it, one of no project.
MCResourceProject == [r \in WorkResource |-> IF r = shared THEN Null ELSE p1]
=============================================================================
