---------------------------- MODULE MCBootGraph ----------------------------
(* Model-checking instance of BootGraph.                                    *)
EXTENDS BootGraph
=============================================================================
