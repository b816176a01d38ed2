--------------------------- MODULE MCMachineList ---------------------------
(* Model-checking instances of MachineList: two processes.                  *)
EXTENDS MachineList

TwoProcs == {"p1", "p2"}
=============================================================================
