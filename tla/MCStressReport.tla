--------------------------- MODULE MCStressReport ---------------------------
(* Model-checking instance of StressReport: two instances that bring tarballs
   of the same multitest into the web folder, and one that sorts what is there;
   one of them has the smaller -maxproc.                                     *)
EXTENDS StressReport, TLC

CONSTANTS p1, p2, p3

Procs == {p1, p2, p3}
Counts == (p1 :> 1) @@ (p2 :> 2) @@ (p3 :> 2)

MCJobs ==
  (p1 :> {[NoArgs EXCEPT !.tars = <<"t1">>, !.rmtar = TRUE]}) @@
  (p2 :> {[NoArgs EXCEPT !.tars = <<"t2", "t3">>, !.rmtar = TRUE, !.both = TRUE,
                         !.cache = TRUE, !.parallel = TRUE],
          [NoArgs EXCEPT !.sort = TRUE],
          [NoArgs EXCEPT !.tars = <<"t2">>, !.rmtar = TRUE, !.both = TRUE, !.prefix = FALSE,
                         !.genhtml = TRUE]}) @@
  (p3 :> {[NoArgs EXCEPT !.tars = <<"t4">>, !.rmtar = TRUE]})

Desc(k, m, s, fm) == [kernel |-> k, mode |-> m, sysinfo |-> s, fullmode |-> fm]
Base == [html |-> "good", log |-> "good", desc |-> Desc("5.1-rc1", "freeze", "nuc", "freeze"),
         pass |-> TRUE, suspend |-> 400, resume |-> 900, dev |-> 30, msg |-> NoName,
         lpi |-> "some", wifi |-> "reconnected", net |-> FALSE]
Good == [Base EXCEPT !.suspend = 700, !.resume = 600]
Slow == [Base EXCEPT !.suspend = 1500, !.resume = 2500, !.msg = "ERR", !.lpi = "N/A"]
Fail == [Base EXCEPT !.pass = FALSE, !.msg = "WARN", !.net = TRUE, !.wifi = "TIMEOUT"]
LogOnly == [Base EXCEPT !.html = "none"]
Hung == [NoFiles EXCEPT !.net = TRUE]
Cut == [Base EXCEPT !.html = "bad", !.log = "bad"]

MT(n, tests) == [name |-> n, tests |-> tests]
Custom(t) == [t EXCEPT !.desc.kernel = "custom"]
MCTarball ==
  ("t1" :> <<MT(1, (1 :> Custom(Good)) @@ (2 :> Custom(Fail)))>>) @@
  ("t2" :> <<MT(1, 3 :> Custom(LogOnly))>>) @@
  ("t3" :> <<MT(2, (1 :> Hung) @@ (2 :> [Slow EXCEPT !.desc.sysinfo = NoName]))>>) @@
  ("t4" :> <<MT(1, 1 :> Cut)>>)
MCWeb == [f \in {} |-> {}]
MCRc == ("5.1-rc1" :> "5.1-rc1") @@ ("custom" :> NoName)

\* what the proofs of TarballSafe and WorkDone assume of the instance
ASSUME OneTestPerName == SameTests

\* what the proof of WorkDone assumes besides
ASSUME OneMachinePerFolder == SameMachine
=============================================================================
