--------------------------- MODULE MCAsyncProcess ---------------------------
(* Model-checking instances of AsyncProcess: runcmd with and without a       *)
(* machine to ping, and runcmdasync with and without saved output.           *)
EXTENDS AsyncProcess

AllUses == {u \in Use : u.saveout => u.async}

\* what the proof of VerdictTrue assumes of the instance
ASSUME SafeReuse == ReuseIsSafe
=============================================================================
