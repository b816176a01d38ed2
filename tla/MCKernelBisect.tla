--------------------------- MODULE MCKernelBisect ---------------------------
(* A model-checking instance of KernelBisect: the command lines.            *)
EXTENDS KernelBisect

\* One machine with a test, its options; a user with and without a machine;
\* a machine with neither a test nor a user.
MCSettings ==
  LET base == [machine |-> TRUE, userinput |-> FALSE, ktest |-> TRUE, hangbad |-> FALSE,
               ktesthangbad |-> FALSE, resetcmd |-> TRUE, kerneldefault |-> FALSE]
  IN {base, [base EXCEPT !.kerneldefault = TRUE], [base EXCEPT !.hangbad = TRUE],
      [base EXCEPT !.ktesthangbad = TRUE], [base EXCEPT !.resetcmd = FALSE],
      [base EXCEPT !.userinput = TRUE], [base EXCEPT !.ktest = FALSE],
      [base EXCEPT !.machine = FALSE, !.userinput = TRUE]}

MCLeftovers == {-1, 0}
=============================================================================
