----------------------------- MODULE MultiTest -----------------------------
(***************************************************************************)
(* What stressreport reads from and says of one multitest, a folder of     *)
(* sleepgraph tests: the data of a test from its html or its dmesg log     *)
(* (data_from_test), the summary files of the folder (pm_graph_report with *)
(* the createHTML*Summary functions of sleepgraph.py), and the figures the *)
(* overview reads back out of those files (info).                          *)
(*                                                                         *)
(* A test is a record                                                      *)
(*   html, log    its html and its dmesg file: "none", "bad" (cut or empty *)
(*                where it counts) or "good"                               *)
(*   desc         the kernel, mode, sysinfo and fullmode they name; the    *)
(*                host is treated as the kernel is                         *)
(*   pass         whether the html says the test passed                    *)
(*   suspend, resume, dev    its times and that of a device, in ms         *)
(*   msg          the kernel message the html lists, or NoName             *)
(*   lpi, wifi    the S0ix residency and the network stamp of the html     *)
(*   net          the log ends in a lost network                           *)
(* and a multitest is a sequence of tests in the order of their names.     *)
(***************************************************************************)
EXTENDS Integers, Sequences, FiniteSets, SequencesExt, FiniteSetsExt

\* what is not told
NoName == ""

Keys == {"kernel", "mode", "sysinfo", "fullmode"}
NoDesc == [k \in Keys |-> NoName]

\* a test folder without any file that can be used
NoFiles == [html |-> "none", log |-> "none", desc |-> NoDesc, pass |-> FALSE,
            suspend |-> 0, resume |-> 0, dev |-> 0, msg |-> NoName, lpi |-> NoName,
            wifi |-> NoName, net |-> FALSE]

\* What a test folder may hold: a file that is good names the kernel and the mode,
\* and is that, or makes the html, of a suspend and a resume that took some time.
FileStates == {"none", "bad", "good"}
IsTest(t) ==
  /\ DOMAIN t = DOMAIN NoFiles
  /\ t.html \in FileStates /\ t.log \in FileStates /\ t.desc = [k \in Keys |-> t.desc[k]]
  /\ t.pass \in BOOLEAN /\ t.net \in BOOLEAN
  /\ t.suspend \in Nat /\ t.resume \in Nat /\ t.dev \in Nat
  /\ "good" \in {t.html, t.log} =>
       /\ t.desc["kernel"] # NoName /\ t.desc["mode"] # NoName
       /\ t.suspend > 0 /\ t.resume > 0

\* multiTestDesc: the path <kernel>/<host>/suspend-<mode>-... tells both
multiTestDesc(f) ==
  IF f.std THEN [NoDesc EXCEPT !["kernel"] = f.kernel, !["mode"] = f.mode]
  ELSE NoDesc

-----------------------------------------------------------------------------
(* The data of one test                                                     *)

\* the default entry for a test that left nothing to read
NoData == [desc |-> NoDesc, result |-> NoName, suspend |-> 0, resume |-> 0,
           dev |-> 0, msg |-> NoName, lpi |-> NoName, wifi |-> NoName]

baseMode(mode) == CASE mode = "s2idle" -> "freeze"
                    [] mode = "deep" -> "mem"
                    [] OTHER -> mode

\* what sleepgraph reads out of its own html: a test failed when there is a
\* failure box, and passed otherwise
FromHtml(t) ==
  [desc |-> t.desc, result |-> IF t.pass THEN "pass" ELSE "fail",
   suspend |-> t.suspend, resume |-> t.resume, dev |-> t.dev, msg |-> t.msg,
   lpi |-> t.lpi, wifi |-> t.wifi]

\* data_from_html: the modes get one name each, a network that came back is its
\* time
data_from_html(t) ==
  LET out == FromHtml(t)
  IN [out EXCEPT !.desc["mode"] = baseMode(@),
                 !.wifi = IF @ = "reconnected" THEN "ms" ELSE @]

\* the header of the dmesg log: what was tested and no result
data_from_dmesg(t) == [NoData EXCEPT !.desc = t.desc]

FullMode(out) ==
  [out EXCEPT !.desc["fullmode"] = IF @ # NoName THEN @ ELSE out.desc["mode"]]

\* data_from_test(files, out, indir, issues, priority): the first file there
\* is counts, and there is no second try when it is damaged.
data_from_test(t, priority) ==
  LET there == {i \in DOMAIN priority : t[priority[i]] # "none"}
      src == priority[Min(there)]
  IN IF there = {} \/ t[src] = "bad" THEN [ok |-> FALSE, data |-> NoData]
     ELSE [ok |-> TRUE,
           data |-> FullMode(IF src = "html" THEN data_from_html(t) ELSE data_from_dmesg(t))]

HtmlFirst == <<"html", "log">>

-----------------------------------------------------------------------------
(* pm_graph_report: the rows of the tests and the issues among them         *)

NoIssues == [i \in {} |-> {}]

\* issue i was met in test n once more; a set of tests stands for its urls
Met(issues, i, n) ==
  IF i \in DOMAIN issues
  THEN [issues EXCEPT ![i] = [count |-> @.count + 1, tests |-> @.tests \cup {n}]]
  ELSE [j \in DOMAIN issues \cup {i} |->
          IF j = i THEN [count |-> 1, tests |-> {n}] ELSE issues[j]]

IssuesOf(issues, t, n, d) ==
  LET seen == IF d.msg # NoName THEN Met(issues, d.msg, n) ELSE issues
  IN IF t.net /\ t.html # "none" THEN Met(seen, "NETLOST", n) ELSE seen

\* Mutant: a lost network is a hang whatever the html says.
RowOf_HangFirst(t, d) ==
  [d EXCEPT !.result = IF t.net THEN "hang" ELSE IF @ = NoName THEN "error" ELSE @]

\* what the row says when no file gave a result
RowOf(t, d) ==
  [d EXCEPT !.result = IF @ # NoName THEN @ ELSE IF t.net THEN "hang" ELSE "error"]

\* One test of the loop, with what its files say, r.  All tests must have the same kernel, mode, sysinfo
\* and fullmode; a test without data takes what is known so far.
ReadTest(s, t, n, r) ==
  LET d == IF r.ok THEN r.data ELSE [r.data EXCEPT !.desc = s.desc]
      open == {k \in Keys : s.desc[k] = NoName \/ s.rows = <<>>}
  IN IF ~s.ok THEN s
     ELSE IF r.ok /\ \E k \in Keys \ open : s.desc[k] # d.desc[k]
     THEN [s EXCEPT !.ok = FALSE]
     ELSE [s EXCEPT !.desc = IF r.ok THEN [k \in Keys |-> IF k \in open THEN d.desc[k]
                                                          ELSE @[k]] ELSE @,
                    !.rows = Append(@, RowOf(t, d)),
                    !.issues = IssuesOf(@, t, n, r.data)]

ReadTests(f, tests) ==
  LET read[i \in 0..Len(tests)] ==
        IF i = 0 THEN [ok |-> TRUE, desc |-> multiTestDesc(f), rows |-> <<>>,
                       issues |-> NoIssues]
        ELSE ReadTest(read[i - 1], tests[i], i, data_from_test(tests[i], HtmlFirst))
  IN read[Len(tests)]

\* The numbers of S from the least to the largest, each by how many come before
\* it; SortSeq is a primitive of the provers, which know nothing of it.
Ascending(S) ==
  [i \in 1..Cardinality(S) |-> CHOOSE v \in S : Cardinality({w \in S : w < v}) = i - 1]

\* createHTMLSummarySimple marks the least, the largest and the median time of
\* the tests that passed: a cell has one mark, and the first that fits is it.
\* A time met twice counts once for the median and marks the first test for the
\* others.
Marks(rows, field) ==
  LET passed == {i \in DOMAIN rows : rows[i].result = "pass"}
      times == {rows[i][field] : i \in passed}
      sorted == Ascending(times)
      at(v) == {i \in passed : rows[i][field] = v}
      iMin == Min(at(Min(times)))
      iMax == Min(at(Max(times)))
      med == sorted[Len(sorted) \div 2 + 1]
      iMed == Max(at(med))
  IN IF passed = {} THEN [min |-> 0, max |-> 0, med |-> 0]
     ELSE [min |-> iMin, max |-> IF iMax = iMin THEN 0 ELSE iMax,
           med |-> IF iMed \in {iMin, iMax} THEN 0 ELSE iMed]

\* createHTMLDeviceSummary: count, total and worst time of the device
Devices(rows) ==
  LET seen == {i \in DOMAIN rows : rows[i].dev > 0}
  IN [count |-> Cardinality(seen),
      total |-> MapThenSumSet(LAMBDA i : rows[i].dev, seen),
      worst |-> IF seen = {} THEN 0 ELSE Max({rows[i].dev : i \in seen})]

Summarised(s) ==
  [ok |-> s.ok /\ s.rows # <<>> /\ s.desc["kernel"] # NoName /\ s.desc["mode"] # NoName,
   rows |-> s.rows, issues |-> s.issues]
pm_graph_report(f, tests) == Summarised(ReadTests(f, tests))

-----------------------------------------------------------------------------
(* info: the figures of a multitest as the overview reads them back         *)

Results == {"pass", "fail", "hang", "error"}

\* max, median and min; a mark that is missing is replaced by the least time
StatOf(rows, field, mark) ==
  LET val(m) == rows[IF m = 0 THEN mark.min ELSE m][field]
  IN IF mark.min = 0 THEN <<>> ELSE <<val(mark.max), val(mark.med), val(mark.min)>>

\* the number of rows with S0ix time, -1 when no row could tell
S0ix(rows) ==
  IF \A i \in DOMAIN rows : rows[i].lpi \in {NoName, "N/A"} THEN -1
  ELSE Cardinality({i \in DOMAIN rows : rows[i].lpi = "some"})

Wifi(rows) ==
  Cardinality({i \in DOMAIN rows : rows[i].wifi \notin {NoName, "N/A", "TIMEOUT", "DEAD"}})

\* the words error, bug or failed in the line of an issue
errorCheck(i) == i \in {"ERR", "NETLOST"}

\* healthCheck: up to 40 points for the tests passed, 10 for a quiet log, 10
\* for a fast suspend and 20 for a fast resume, and for s2idle 20 for S0ix,
\* as a percentage of what could be reached.  Points are counted in units of
\* 1 / (2000 * count), which makes them whole numbers.
Speed(stat, points, count) ==
  LET halves == IF stat[1] < 1000 THEN 2 * points ELSE 2 * points - 1
  IN IF stat = <<>> \/ stat[2] >= 2000 THEN 0
     ELSE IF stat[2] < 1000 THEN halves * 1000 * count
     ELSE (2000 - stat[2]) * halves * count

healthCheck(d) ==
  LET quiet == IF d.issues = {} THEN 10
               ELSE IF \E i \in d.issues : errorCheck(i) THEN 0 ELSE 5
      idle == d.desc["mode"] = "freeze" /\ d.s0ix >= 0
      points == 80000 * d.res["pass"] + 2000 * quiet * d.count
                + Speed(d.s, 10, d.count) + Speed(d.r, 20, d.count)
                + IF idle THEN 40000 * d.s0ix ELSE 0
  IN (100 * points) \div ((IF idle THEN 100 ELSE 80) * 2000 * d.count)

\* The rows must name one kernel and one mode; the mode column shows fullmode.
Uniform(rows) ==
  \A i, j \in DOMAIN rows : \A k \in {"kernel", "fullmode"} :
     rows[i].desc[k] = rows[j].desc[k]

Rated(d) == [d EXCEPT !.health = healthCheck(d)]

\* What info adds to data for the summary files sum of a multitest.
info(sum) ==
  LET rows == sum.rows IN
  Rated([desc |-> [rows[1].desc EXCEPT !["mode"] = baseMode(rows[1].desc["fullmode"])],
         count |-> Len(rows),
         res |-> [r \in Results |->
                    Cardinality({i \in DOMAIN rows : rows[i].result = r})],
         s |-> StatOf(rows, "suspend", Marks(rows, "suspend")),
         r |-> StatOf(rows, "resume", Marks(rows, "resume")),
         s0ix |-> S0ix(rows), wifi |-> Wifi(rows), dev |-> Devices(rows),
         issues |-> DOMAIN sum.issues, health |-> 0])

\* infoDevices: the entry of a device over all multitests
MergeDevice(a, b) ==
  [count |-> a.count + b.count, total |-> a.total + b.total,
   worst |-> IF b.worst > a.worst THEN b.worst ELSE a.worst]

=============================================================================
