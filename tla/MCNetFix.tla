------------------------------ MODULE MCNetFix ------------------------------
(* Model-checking instance of NetFix.                                       *)
EXTENDS NetFix
=============================================================================
