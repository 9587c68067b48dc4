------------------------------ MODULE MCKernel ------------------------------
(***************************************************************************)
(* Kernel for TLC: three task descriptors, of which two are taken at boot. *)
(* The doc-derived properties of the runs that TLC refutes are here too.   *)
(***************************************************************************)
EXTENDS Kernel

\* kernel.md:735 "No running tasks - i.e: all user tasks have Exited": when
\* every task has exited, run() returns.
StopsAfterLastExit == (\A t \in Tid : ~Live(t)) ~> ~Alive
=============================================================================
