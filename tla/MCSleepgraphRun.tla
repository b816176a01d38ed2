-------------------------- MODULE MCSleepgraphRun --------------------------
(* Model-checking instance of SleepgraphRun.                                *)
EXTENDS SleepgraphRun

OneDevice == {"pci"}
=============================================================================
