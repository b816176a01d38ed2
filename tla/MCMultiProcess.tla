--------------------------- MODULE MCMultiProcess ---------------------------
(* Model-checking instance of MultiProcess: three commands.                  *)
EXTENDS MultiProcess

CONSTANTS c1, c2, c3

Cmds == {c1, c2, c3}
=============================================================================
