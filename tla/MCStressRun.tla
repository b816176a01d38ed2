---------------------------- MODULE MCStressRun ----------------------------
(* Model-checking instance of StressBoot, and with it of StressRun: the two *)
(* commands of bootsetup and bootclean that may fail or be late.            *)
EXTENDS StressBoot

OnlyInstall == {"install", "move"}
OnlyUpdate == {"update"}
=============================================================================
