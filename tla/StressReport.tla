---------------------------- MODULE StressReport ----------------------------
(***************************************************************************)
(* Instances of stressreport that share a web folder: tarballs of tests    *)
(* are unpacked, sorted into it and deleted (-rmtar), multitests are       *)
(* reported on, linked by rc and machine, listed in ~/.multitests and      *)
(* ~/.multitestdata, and summarised per kernel, rc and machine.  The run   *)
(* slots are those of RunSlots; what the files say is in MultiTest.        *)
(*                                                                         *)
(* A multitest on the disk is [tests, sum]: its tests by their number (the *)
(* time in their name) and its summary files, "none", "part" while they    *)
(* are written, or their content with the tests they were made from.  An   *)
(* exception (a folder another instance has just made, a summary that is   *)
(* being written) ends an instance as a signal does: that is Crash.        *)
(***************************************************************************)
EXTENDS RunSlots, MultiTest

CONSTANTS
  Jobs,        \* Jobs[p]: the command lines p may be started with, each a record
               \* [sort, tars, rmtar, genhtml, both, prefix, cache, parallel]
  Tarball,     \* Tarball[t]: the multitests in tarball t, each [name, tests]
  BrokenTar,   \* the tarballs that cannot be unpacked
  RcOf,        \* RcOf[k]: kernelRC of a kernel, NoName when its name tells none
  WebStart,    \* what the web folder holds at first
  MaxLaunch,   \* bound on the launches
  MaxCrash,    \* bound on the crashes
  MaxSkip,     \* bound on the multitests that are skipped
  MayCrash     \* the instances they are looked at for

HasTests(tests) ==
  /\ DOMAIN tests \subseteq Nat /\ IsFiniteSet(DOMAIN tests)
  /\ \A n \in DOMAIN tests : IsTest(tests[n])

\* A summary that can be read is the report on the tests it was made from.
IsReport(f, sum) ==
  sum.state = "full" =>
    LET r == pm_graph_report(f, sum.of)
    IN /\ sum.of \in Seq(Range(sum.of)) /\ \A t \in Range(sum.of) : IsTest(t)
       /\ r.ok /\ sum.rows = r.rows /\ sum.issues = r.issues

ASSUME ReportAssumption ==
  /\ \A t \in DOMAIN Tarball :
       /\ Tarball[t] \in Seq(Range(Tarball[t]))
       /\ \A mt \in Range(Tarball[t]) :
            DOMAIN mt = {"name", "tests"} /\ HasTests(mt.tests)
  /\ IsFiniteSet(DOMAIN WebStart)
  /\ \A f \in DOMAIN WebStart :
       /\ DOMAIN WebStart[f] = {"tests", "sum"} /\ HasTests(WebStart[f].tests)
       /\ IsReport(f, WebStart[f].sum)
  /\ \A p \in Proc : \A a \in Jobs[p] : a.tars \in Seq(DOMAIN Tarball)

VARIABLES
  job,         \* job[p]: the local variables of an instance
  web,         \* the multitests in the web folder by their path
  tars,        \* the tarballs that exist
  testcache,   \* the lines of ~/.multitests
  datacache,   \* the rows of ~/.multitestdata by their folder
  datalock,    \* the instance that has locked ~/.multitestdata, if any
  links,       \* the links in the sort folder: <<type, value, folder>>
  overview,    \* the last summary written for each <<type, value>>
  done,        \* ghost: what came to the end of main, each [args, skipped]
  lost,        \* ghost: <<tarball, folder>>: deleted by an instance that had
               \* skipped the folder
  recorded,    \* ghost: every row ever written to ~/.multitestdata
  disturbed,   \* ghost: two updates of ~/.multitestdata overlapped, or one died
  launched, crashed, skips

shared == <<web, tars, testcache, datacache, datalock, links, overview>>
ghosts == <<done, lost, recorded, disturbed, launched, crashed, skips>>
rvars == <<vars, job, shared, ghosts>>

NoOne == "no one"
NoRows == [f \in {} |-> {}]
NoMultitest == [name |-> NoName, tests |-> NoRows]
NoSum == [state |-> "none", rows |-> <<>>, issues |-> NoIssues, of |-> <<>>]

NoArgs == [sort |-> FALSE, tars |-> <<>>, rmtar |-> FALSE, genhtml |-> FALSE,
           both |-> FALSE, prefix |-> TRUE, cache |-> FALSE, parallel |-> FALSE]

Idle == [args |-> NoArgs, step |-> "out", mts |-> <<>>, todo |-> <<>>, copies |-> {},
         skipped |-> {}, det |-> NoRows, got |-> {}, targets |-> <<>>, list |-> <<>>]

RInit ==
  /\ Init
  /\ job = [p \in Proc |-> Idle]
  /\ web = WebStart
  /\ tars = DOMAIN Tarball
  /\ testcache = <<>> /\ datacache = NoRows /\ datalock = NoOne
  /\ links = {} /\ overview = NoRows
  /\ done = {} /\ lost = {} /\ recorded = NoRows /\ disturbed = FALSE
  /\ launched = 0 /\ crashed = 0 /\ skips = 0

\* The elements of s that are in S, in their order; SelectSeq is a primitive of
\* the provers, which know nothing of it.
Among(s, S) ==
  LET upto[i \in 0..Len(s)] ==
        IF i = 0 THEN <<>>
        ELSE IF s[i] \in S THEN Append(upto[i - 1], s[i]) ELSE upto[i - 1]
  IN upto[Len(s)]

Put(map, key, value) == [k \in DOMAIN map \cup {key} |-> IF k = key THEN value ELSE map[k]]

-----------------------------------------------------------------------------
(* The slot, and the ways out                                               *)

Start(p) ==
  /\ launched < MaxLaunch
  /\ Launch(p)
  /\ launched' = launched + 1
  /\ \E a \in Jobs[p] : job' = [job EXCEPT ![p].args = a]
  /\ UNCHANGED <<shared, done, lost, recorded, disturbed, crashed, skips>>

Try(p) ==
  /\ TryLock(p)
  /\ job' = IF pc'[p] = "run" THEN [job EXCEPT ![p].step = "begin"] ELSE job
  /\ UNCHANGED <<shared, ghosts>>

WaitOne(p) ==
  /\ Sleep(p)
  /\ job' = IF pc'[p] = "out" THEN [job EXCEPT ![p] = Idle] ELSE job
  /\ UNCHANGED <<shared, ghosts>>

\* sys.exit, or the end of main
Leave(p) ==
  /\ End(p)
  /\ job' = [job EXCEPT ![p] = Idle]

\* the tests that may be copied next: one of the first multitest that is left
MayCopy(copies) == {c \in copies : \A d \in copies : c.at <= d.at}

Rewriting(p) == job[p].step \in {"dcopen", "dclock", "dcflush"}

\* A signal or an exception: nothing is cleaned up.  A copy under way may have
\* made the folder of its next test and nothing in it.
Crash(p) ==
  /\ crashed < MaxCrash /\ p \in MayCrash
  /\ pc[p] = "run"
  /\ Leave(p)
  /\ crashed' = crashed + 1
  /\ datalock' = IF datalock = p THEN NoOne ELSE datalock
  /\ disturbed' = (disturbed \/ Rewriting(p))
  /\ \/ UNCHANGED web
     \/ /\ job[p].step = "copy"
        /\ \E c \in MayCopy(job[p].copies) :
             /\ c.to \in DOMAIN web /\ c.n \notin DOMAIN web[c.to].tests
             /\ web' = [web EXCEPT ![c.to].tests = Put(@, c.n, NoFiles)]
  /\ UNCHANGED <<tars, testcache, datacache, links, overview, done, lost, recorded,
                 launched, skips>>

-----------------------------------------------------------------------------
(* What there is to work on                                                 *)

\* The tests in the order of their names.
InOrder(tests) ==
  LET names == Ascending(DOMAIN tests)
  IN [i \in DOMAIN names |-> tests[names[i]]]

\* The first test whose dmesg log is good tells where a multitest belongs;
\* without one it belongs nowhere.
Named(tests) == {n \in DOMAIN tests : data_from_test(tests[n], <<"log">>).ok}

Category(d) ==
  [rc |-> RcOf[d["kernel"]], kernel |-> d["kernel"], mode |-> d["mode"],
   machine |-> d["sysinfo"], figures |-> {}]
categorize_by_timeline(tests) ==
  Category(data_from_test(tests[Min(Named(tests))], <<"log">>).data.desc)

Path(c, name) == [std |-> TRUE, kernel |-> c.kernel, mode |-> c.mode, name |-> name]
OutDir(mt) == Path(categorize_by_timeline(mt.tests), mt.name)

\* The multitests among them that belong somewhere.
Placed(mts) == {mt \in Range(mts) : Named(mt.tests) # {}}
Sortable(mts) == Among(mts, Placed(mts))

\* load_cache for the web folder (k = NoName) or for one kernel in it
load_cache(k) ==
  Among(testcache, {f \in DOMAIN web : k = NoName \/ f.kernel = k})

WalkWeb(k) == SetToSeq({f \in DOMAIN web : k = NoName \/ f.kernel = k})

\* The folders of find_multitests: with -cache those in the cache and an error
\* when there is none, otherwise all of them, and the cache is brought up to
\* date after the walk.
Found(p, k) == IF job[p].args.cache THEN load_cache(k) ELSE WalkWeb(k)

\* doError empties the trash, which holds the tarballs with -rmtar, whatever
\* was skipped of them.
InTrash(p) == IF job[p].args.rmtar THEN Range(job[p].args.tars) ELSE {}
EmptyTrash(p) ==
  /\ tars' = tars \ InTrash(p)
  /\ lost' = lost \cup ((tars \cap InTrash(p)) \X job[p].skipped)

\* Unpack the tarballs (folder_as_tarball) and find what is in them, or end
\* before anything is in the trash.
Unpack(p) ==
  /\ job[p].step = "begin" /\ job[p].args.tars # <<>>
  /\ IF ~(Range(job[p].args.tars) \subseteq tars \ BrokenTar) THEN Leave(p)
     ELSE /\ job' = [job EXCEPT ![p].step = "timelines",
                                ![p].mts = FlattenSeq([i \in DOMAIN job[p].args.tars |->
                                                         Tarball[job[p].args.tars[i]]])]
          /\ UNCHANGED vars
  /\ UNCHANGED <<shared, ghosts>>

Find(p) ==
  /\ job[p].step = "begin" /\ job[p].args.tars = <<>>
  /\ IF job[p].args.cache /\ Found(p, NoName) = <<>> THEN Leave(p)
     ELSE /\ job' = [job EXCEPT ![p].step = IF job[p].args.cache THEN "timelines" ELSE "tcread",
                                ![p].mts = Found(p, NoName)]
          /\ UNCHANGED vars
  /\ UNCHANGED <<shared, ghosts>>

\* update_cache: the lines that are there are read first, what is not among
\* them is appended then.
CacheRead(p) ==
  /\ job[p].step = "tcread"
  /\ job' = [job EXCEPT ![p].step = "tcappend", ![p].got = Range(load_cache(NoName))]
  /\ UNCHANGED <<vars, shared, ghosts>>

CacheAppend(p) ==
  /\ job[p].step = "tcappend"
  /\ testcache' = testcache \o Among(job[p].mts, Range(job[p].mts) \ job[p].got)
  /\ job' = [job EXCEPT ![p].got = {},
                        ![p].step = IF job[p].targets # <<>> THEN "sumread"
                                    ELSE IF job[p].args.tars # <<>> THEN "link"
                                    ELSE "timelines"]
  /\ UNCHANGED <<vars, web, tars, datacache, datalock, links, overview, ghosts>>

-----------------------------------------------------------------------------
(* Timelines, the copy into the web folder, links                           *)

\* genHtml of one multitest: a html is made where there is a good log and no
\* html, unless sleepgraph fails on it.
Regenerated(tests, failing) ==
  [n \in DOMAIN tests |->
     IF tests[n].log = "good" /\ tests[n].html = "none" /\ ~failing
     THEN [tests[n] EXCEPT !.html = "good"] ELSE tests[n]]

\* One copy for each test; copy_tree takes those of a multitest in the order in
\* which its folder lists them, which may be any.
CopyOf(mts, i, n) == [at |-> i, to |-> OutDir(mts[i]), n |-> n, test |-> mts[i].tests[n]]
Copies(mts) ==
  UNION {{CopyOf(mts, i, n) : n \in DOMAIN mts[i].tests} :
           i \in {j \in DOMAIN mts : Named(mts[j].tests) # {}}}

WithHtml(mt, failing) == [mt EXCEPT !.tests = Regenerated(@, failing)]
AllWithHtml(mts, failing) == [i \in DOMAIN mts |-> WithHtml(mts[i], failing)]

Timelines(p) ==
  /\ job[p].step = "timelines"
  /\ \E failing \in IF job[p].args.genhtml /\ ~job[p].args.sort THEN BOOLEAN ELSE {TRUE} :
       IF job[p].args.tars # <<>>
       THEN LET mts == AllWithHtml(job[p].mts, failing)
            IN /\ job' = [job EXCEPT ![p].step = "copy", ![p].mts = mts,
                                     ![p].copies = Copies(mts)]
               /\ UNCHANGED web
       ELSE /\ job' = [job EXCEPT ![p].step = "categorize"]
            /\ web' = [f \in DOMAIN web |->
                         IF f \in Range(job[p].mts) THEN WithHtml(web[f], failing) ELSE web[f]]
  /\ UNCHANGED <<vars, tars, testcache, datacache, datalock, links, overview, ghosts>>

\* Mutant: a test that is in the web folder already is not copied again.
CopyOne_Skip(c) ==
  IF c.to \in DOMAIN web
  THEN [web EXCEPT ![c.to].tests = IF c.n \in DOMAIN @ THEN @ ELSE Put(@, c.n, c.test)]
  ELSE Put(web, c.to, [tests |-> Put(NoRows, c.n, c.test), sum |-> NoSum])

\* copy_tree writes over what is there
CopyOne(c) ==
  IF c.to \in DOMAIN web THEN [web EXCEPT ![c.to].tests = Put(@, c.n, c.test)]
  ELSE Put(web, c.to, [tests |-> Put(NoRows, c.n, c.test), sum |-> NoSum])

\* The new folders, and what is known of each: the category of the last
\* multitest that went into it.
OutDirs(mts) == [i \in DOMAIN mts |-> OutDir(mts[i])]
Details(mts) ==
  [f \in Range(OutDirs(mts)) |->
     categorize_by_timeline(Last(Among(mts, {mt \in Range(mts) : OutDir(mt) = f})).tests)]

\* A multitest whose folder is not there and cannot be made, be it that the
\* folder of its kernel is a file or that another instance makes it just then,
\* is skipped: none of its tests is copied, it is neither listed nor linked.
Skip(p) ==
  /\ skips < MaxSkip /\ skips' = skips + 1
  /\ job[p].step = "copy"
  /\ \E c \in MayCopy(job[p].copies) :
       /\ c.to \notin DOMAIN web
       /\ job' = [job EXCEPT ![p].copies = {d \in @ : d.at # c.at},
                             ![p].mts[c.at] = NoMultitest,
                             ![p].skipped = @ \cup {c.to}]
  /\ UNCHANGED <<vars, shared, done, lost, recorded, disturbed, launched, crashed>>

\* sort_and_copy, one test at a time; then the new folders are what there is.
Copy(p) ==
  /\ job[p].step = "copy"
  /\ \/ \E c \in MayCopy(job[p].copies) :
          /\ web' = CopyOne(c)
          /\ job' = [job EXCEPT ![p].copies = @ \ {c}]
     \/ /\ job[p].copies = {}
        /\ job' = [job EXCEPT ![p].step = "tcread",
                              ![p].mts = OutDirs(Sortable(job[p].mts)),
                              ![p].det = Details(Sortable(job[p].mts))]
        /\ UNCHANGED web
  /\ UNCHANGED <<vars, tars, testcache, datacache, datalock, links, overview, ghosts>>

Categorize(p) ==
  /\ job[p].step = "categorize"
  /\ job' = [job EXCEPT ![p].step = "link",
                        ![p].det = [f \in {g \in Range(job[p].mts) : Named(web[g].tests) # {}} |->
                                      categorize_by_timeline(web[f].tests)]]
  /\ UNCHANGED <<vars, shared, ghosts>>

Values(det, type) ==
  {IF type = "rc" THEN det[f].rc ELSE IF type = "machine" THEN det[f].machine
   ELSE det[f].kernel : f \in DOMAIN det} \ {NoName}

\* Mutant: a multitest without an rc gets no link by its machine.
datasort_Break(det) ==
  {<<"rc", det[f].rc, f>> : f \in {g \in DOMAIN det : det[g].rc # NoName}} \cup
  {<<"machine", det[f].machine, f>> :
     f \in {g \in DOMAIN det : det[g].machine # NoName /\ det[g].rc # NoName}}

\* datasort: the links by rc and by machine
datasort(det) ==
  {<<"rc", det[f].rc, f>> : f \in {g \in DOMAIN det : det[g].rc # NoName}} \cup
  {<<"machine", det[f].machine, f>> : f \in {g \in DOMAIN det : det[g].machine # NoName}}

Targets(det) ==
  FlattenSeq([i \in 1..3 |->
    LET type == <<"kernel", "rc", "machine">>[i]
        v == SetToSeq(Values(det, type))
    IN [j \in DOMAIN v |-> <<type, v[j]>>]])

Link(p) ==
  /\ job[p].step = "link"
  /\ links' = links \cup datasort(job[p].det)
  /\ job' = [job EXCEPT ![p].step = IF job[p].args.sort THEN "catsum" ELSE "report",
                        ![p].todo = job[p].mts]
  /\ UNCHANGED <<vars, web, tars, testcache, datacache, datalock, overview, ghosts>>

-----------------------------------------------------------------------------
(* The summary files of the multitests                                      *)

\* generate_test_spreadsheets: one multitest after the other, or, with -parallel
\* and more than one, a child for each in any order.  A multitest that cannot be
\* reported on keeps the files it has.
Report(p) ==
  /\ job[p].step = "report" /\ job[p].todo # <<>>
  /\ \E i \in IF job[p].args.parallel /\ Len(job[p].mts) > 1 THEN DOMAIN job[p].todo ELSE {1} :
       LET f == job[p].todo[i]
           tests == InOrder(web[f].tests)
           r == pm_graph_report(f, tests)
       IN IF r.ok
          THEN /\ web' = [web EXCEPT ![f].sum = [NoSum EXCEPT !.state = "part"]]
               /\ job' = [job EXCEPT ![p].step = "repwrite", ![p].todo = RemoveAt(@, i),
                            ![p].got = {[to |-> f, sum |-> [state |-> "full", rows |-> r.rows,
                                                     issues |-> r.issues, of |-> tests]]}]
          ELSE /\ job' = [job EXCEPT ![p].todo = RemoveAt(@, i)]
               /\ UNCHANGED web
  /\ UNCHANGED <<vars, tars, testcache, datacache, datalock, links, overview, ghosts>>

ReportWrite(p) ==
  /\ job[p].step = "repwrite"
  /\ \E r \in job[p].got : web' = [web EXCEPT ![r.to].sum = r.sum]
  /\ job' = [job EXCEPT ![p].step = "report", ![p].got = {}]
  /\ UNCHANGED <<vars, tars, testcache, datacache, datalock, links, overview, ghosts>>

\* With -create both the summaries follow, for the values that were sorted by;
\* they need an urlprefix that names the web folder.
ReportsDone(p) ==
  /\ job[p].step = "report" /\ job[p].todo = <<>>
  /\ IF job[p].args.both
     THEN IF job[p].args.prefix
          THEN /\ job' = [job EXCEPT ![p].step = "summary", ![p].targets = Targets(job[p].det)]
               /\ UNCHANGED <<vars, tars, lost>>
          ELSE EmptyTrash(p) /\ Leave(p)
     ELSE /\ job' = [job EXCEPT ![p].step = "catsum", ![p].todo = job[p].mts]
          /\ UNCHANGED <<vars, tars, lost>>
  /\ UNCHANGED <<web, testcache, datacache, datalock, links, overview,
                 done, recorded, disturbed, launched, crashed, skips>>

-----------------------------------------------------------------------------
(* Reading the summary files back                                           *)

\* info of a summary file: without rows there is no kernel and it fails
Readable(f) == web[f].sum.state = "full"
Figures(f) == IF Uniform(web[f].sum.rows) THEN {info(web[f].sum)} ELSE {}

\* Nothing can be said of it in a summary.
Blank(f) == ~Readable(f) \/ Figures(f) = {}

WithFigures(det, f) ==
  IF f \in DOMAIN det /\ Figures(f) # {} THEN [det EXCEPT ![f].figures = Figures(f)] ELSE det

\* categorize_by_summary, and the same loop in generate_summary_spreadsheet
ReadSummary(p) ==
  /\ job[p].step \in {"catsum", "sumread"} /\ job[p].todo # <<>>
  /\ LET f == Head(job[p].todo)
     IN IF web[f].sum.state = "part" THEN Leave(p)
        ELSE /\ job' = IF Blank(f)
                       THEN [job EXCEPT ![p].todo = Tail(@), ![p].got = @ \cup {f}]
                       ELSE [job EXCEPT ![p].todo = Tail(@), ![p].det = WithFigures(@, f),
                                        ![p].list = Append(@, [of |-> f, fig |-> info(web[f].sum)])]
             /\ UNCHANGED vars
  /\ UNCHANGED <<shared, ghosts>>

CatSumDone(p) ==
  /\ job[p].step = "catsum" /\ job[p].todo = <<>>
  /\ job' = [job EXCEPT ![p].step = "dcread", ![p].list = <<>>, ![p].got = {}]
  /\ UNCHANGED <<vars, shared, ghosts>>

\* The next value: a kernel is looked for in its folder, an rc or a machine by
\* its links (find_sorted_multitests).
Summary(p) ==
  /\ job[p].step = "summary"
  /\ IF job[p].targets = <<>>
     THEN job' = [job EXCEPT ![p].step = "dcread"] /\ UNCHANGED <<vars, tars, lost>>
     ELSE LET t == Head(job[p].targets)
              bykernel == t[1] = "kernel"
              fs == IF bykernel THEN Found(p, t[2])
                    ELSE SetToSeq({l[3] : l \in {k \in links : k[1] = t[1] /\ k[2] = t[2]}})
          IN IF bykernel /\ job[p].args.cache /\ fs = <<>>
             THEN EmptyTrash(p) /\ Leave(p)
             ELSE /\ job' = [job EXCEPT ![p].mts = fs, ![p].todo = fs, ![p].list = <<>>,
                               ![p].step = IF bykernel /\ ~job[p].args.cache THEN "tcread"
                                           ELSE "sumread"]
                  /\ UNCHANGED <<vars, tars, lost>>
  /\ UNCHANGED <<web, testcache, datacache, datalock, links, overview,
                 done, recorded, disturbed, launched, crashed, skips>>

\* The summary of what could be read, if anything could; with it, as a ghost, what
\* could not.
SummaryWrite(p) ==
  /\ job[p].step = "sumread" /\ job[p].todo = <<>>
  /\ overview' = IF job[p].list = <<>> THEN overview
                 ELSE Put(overview, Head(job[p].targets),
                          [args |-> job[p].args, skipped |-> job[p].skipped,
                           blank |-> job[p].got, list |-> job[p].list,
                           dev |-> FoldLeft(LAMBDA a, e : MergeDevice(a, e.fig.dev),
                                            [count |-> 0, total |-> 0, worst |-> 0],
                                            job[p].list)])
  /\ job' = [job EXCEPT ![p].step = "summary", ![p].targets = Tail(@), ![p].list = <<>>,
                        ![p].got = {}]
  /\ UNCHANGED <<vars, web, tars, testcache, datacache, datalock, links, ghosts>>

-----------------------------------------------------------------------------
(* update_data_cache                                                        *)

RowsOf(det) == {f \in DOMAIN det : det[f].figures # {}}
MergeRows(old, det) ==
  [f \in DOMAIN old \cup RowsOf(det) |-> IF f \in RowsOf(det) THEN det[f].figures ELSE old[f]]

\* Read under the lock, which stays as long as the file is open.
DataRead(p) ==
  /\ job[p].step = "dcread"
  /\ IF job[p].det = NoRows
     THEN job' = [job EXCEPT ![p].step = "trash"] /\ UNCHANGED <<datalock, disturbed>>
     ELSE /\ datalock = NoOne
          /\ datalock' = p
          /\ job' = [job EXCEPT ![p].step = "dcopen", ![p].got = {datacache}]
          /\ disturbed' = (disturbed \/ \E q \in Proc : Rewriting(q))
  /\ UNCHANGED <<vars, web, tars, testcache, datacache, links, overview,
                 done, lost, recorded, launched, crashed, skips>>

\* open(datacache, 'w') empties the file; the first file object goes with its
\* name, and its lock with it.
DataOpen(p) ==
  /\ job[p].step = "dcopen"
  /\ datacache' = NoRows
  /\ datalock' = NoOne
  /\ job' = [job EXCEPT ![p].step = "dclock"]
  /\ UNCHANGED <<vars, web, tars, testcache, links, overview, ghosts>>

\* The lock is taken and given back around writes that stay in the buffer.
DataLock(p) ==
  /\ job[p].step = "dclock" /\ datalock = NoOne
  /\ job' = [job EXCEPT ![p].step = "dcflush"]
  /\ UNCHANGED <<vars, shared, ghosts>>

\* Mutant: the rows of this instance and nothing else.
NewCache_Own(p) == MergeRows(NoRows, job[p].det)

NewCache(p) == MergeRows(CHOOSE rows \in job[p].got : TRUE, job[p].det)

\* close() writes the buffer
DataFlush(p) ==
  /\ job[p].step = "dcflush"
  /\ datacache' = NewCache(p)
  /\ recorded' = MergeRows(recorded, job[p].det)
  /\ job' = [job EXCEPT ![p].step = "trash", ![p].got = {}]
  /\ UNCHANGED <<vars, web, tars, testcache, datalock, links, overview,
                 done, lost, disturbed, launched, crashed, skips>>

\* empty_trash and the end of main; -sort has no trash
Trash(p) ==
  /\ job[p].step = "trash"
  /\ IF job[p].args.sort THEN UNCHANGED <<tars, lost>> ELSE EmptyTrash(p)
  /\ Leave(p)
  /\ done' = done \cup {[args |-> job[p].args, skipped |-> job[p].skipped]}
  /\ UNCHANGED <<web, testcache, datacache, datalock, links, overview,
                 recorded, disturbed, launched, crashed, skips>>

-----------------------------------------------------------------------------
RStep(p) ==
  \/ Start(p) \/ Try(p) \/ WaitOne(p) \/ Crash(p)
  \/ Unpack(p) \/ Find(p) \/ CacheRead(p) \/ CacheAppend(p)
  \/ Timelines(p) \/ Skip(p) \/ Copy(p) \/ Categorize(p) \/ Link(p)
  \/ Report(p) \/ ReportWrite(p) \/ ReportsDone(p)
  \/ ReadSummary(p) \/ CatSumDone(p) \/ Summary(p) \/ SummaryWrite(p)
  \/ DataRead(p) \/ DataOpen(p) \/ DataLock(p) \/ DataFlush(p) \/ Trash(p)

Ended ==
  /\ launched = MaxLaunch /\ \A p \in Proc : pc[p] = "out"
  /\ UNCHANGED rvars

RNext == (\E p \in Proc : RStep(p)) \/ Ended

\* An instance that waits for a slot goes on trying; nothing is assumed of one
\* that works.
ReportSpec == RInit /\ [][RNext]_rvars /\ \A p \in Proc : WF_rvars(Try(p) \/ WaitOne(p))

-----------------------------------------------------------------------------
(* Properties; those of RunSlots hold as well                               *)

\* Test n of a multitest is in the web folder with its files.
Held(mt, n) ==
  /\ OutDir(mt) \in DOMAIN web
  /\ n \in DOMAIN web[OutDir(mt)].tests
  /\ web[OutDir(mt)].tests[n].log = mt.tests[n].log

\* A tarball is deleted (-rmtar) only when every test in it that belongs
\* somewhere is in the web folder with its files, whatever crashed before, but
\* for the folders which the very instance that deletes it has skipped
\* (sort_and_copy, 2452-2461; empty_trash, 72-80).
TarballSafe ==
  \A t \in DOMAIN Tarball \ tars : \A mt \in Placed(Tarball[t]) :
    <<t, OutDir(mt)>> \in lost \/ \A n \in DOMAIN mt.tests : Held(mt, n)

\* The multitests of a command line that belong somewhere, and those of an
\* instance, or of what it left behind, that it has not skipped.
Unpacked(args) == UNION {Placed(Tarball[t]) : t \in Range(args.tars)}
Mine(w) == {mt \in Unpacked(w.args) : OutDir(mt) \notin w.skipped}

\* A multitest is in the list of multitests and under its rc and its machine.
Findable(mt) ==
  LET f == OutDir(mt)
      c == categorize_by_timeline(mt.tests)
  IN /\ f \in Range(testcache)
     /\ c.rc # NoName => <<"rc", c.rc, f>> \in links
     /\ c.machine # NoName => <<"machine", c.machine, f>> \in links

\* When an instance has come to its end, every multitest it sorted and did not
\* skip can be found again.
WorkFound == \A w \in done : \A mt \in Mine(w) : Findable(mt)

\* What is in the summary, or was looked at and had no figures.
SeenIn(summary) == {e.of : e \in Range(summary.list)} \cup summary.blank

\* The summary of a kernel passes over no multitest that the command line which
\* wrote it has sorted under that kernel, whoever adds lines, links or tests
\* meanwhile.
WorkSummed ==
  \A k \in {l \in DOMAIN overview : l[1] = "kernel"} :
    {f \in {OutDir(mt) : mt \in Mine(overview[k])} : f.kernel = k[2]}
      \subseteq SeenIn(overview[k])

WorkDone == WorkFound /\ WorkSummed

\* Rows of ~/.multitestdata stay: while no two updates have overlapped and none
\* was cut short, the file holds every row that was ever written, in its last
\* form.
RowsKept ==
  ~disturbed /\ (\A p \in Proc : ~Rewriting(p)) => datacache = recorded

\* The figures say what the tests did.  A test counts as passed or failed by
\* its html alone, as a hang when it has no good html and the network was
\* lost, and as an error otherwise; the median lies between the least and the
\* largest time; an issue is not in more tests than there are; the health is a
\* percentage.  The rows name one kernel and one mode unless the first test
\* left nothing to read.  No device is slower on average over the multitests of
\* an overview than at its worst.
CountsTrue ==
  /\ \A k \in DOMAIN overview :
       overview[k].dev.total <= overview[k].dev.count * overview[k].dev.worst
  /\ \A f \in {g \in DOMAIN web : Readable(g)} :
       LET of == web[f].sum.of
           n(P(_)) == Cardinality({i \in DOMAIN of : P(of[i])})
           hashtml(t) == t.html = "good"
           nothing(t) == ~hashtml(t)
           i == info(web[f].sum)
       IN /\ i.count = Len(of)
          /\ i.res["pass"] = n(LAMBDA t : hashtml(t) /\ t.pass)
          /\ i.res["fail"] = n(LAMBDA t : hashtml(t) /\ ~t.pass)
          /\ i.res["hang"] = n(LAMBDA t : nothing(t) /\ t.net)
          /\ i.res["error"] = n(LAMBDA t : nothing(t) /\ ~t.net)
          /\ \A st \in {i.s, i.r} \ {<<>>} : st[3] <= st[2] /\ st[2] <= st[1]
          /\ \A e \in DOMAIN web[f].sum.issues :
               Cardinality(web[f].sum.issues[e].tests) <= Len(of)
          /\ i.health \in 0..100
          /\ Uniform(web[f].sum.rows) \/ ~data_from_test(of[1], HtmlFirst).ok

-----------------------------------------------------------------------------
(* The inductive invariant, in which only what the proofs need is typed     *)

\* The name of a test is the time it was started at: two tarballs that bring a
\* test of the same name for the same folder bring the same test.
SameTests ==
  \A t, u \in DOMAIN Tarball : \A mt \in Placed(Tarball[t]), nt \in Placed(Tarball[u]) :
    OutDir(mt) = OutDir(nt) =>
      \A n \in DOMAIN mt.tests \cap DOMAIN nt.tests : mt.tests[n].log = nt.tests[n].log

RTypeOK ==
  /\ DOMAIN job = Proc
  /\ \A p \in Proc : /\ DOMAIN job[p] = DOMAIN Idle
                     /\ job[p].args.tars \in Seq(DOMAIN Tarball)
                     /\ pc[p] # "run" => job[p].step = "out"
  /\ \A f \in DOMAIN web : DOMAIN web[f] = {"tests", "sum"} /\ HasTests(web[f].tests)

\* Updates of ~/.multitestdata that do not overlap come one at a time, and the
\* rows an update has read are all there were.
RowsInv ==
  ~disturbed =>
    /\ \A p, q \in Proc : Rewriting(p) /\ Rewriting(q) => p = q
    /\ \A p \in Proc : Rewriting(p) => job[p].got = {recorded}
    /\ (\A p \in Proc : ~Rewriting(p)) => datacache = recorded

\* What an instance has unpacked is in its tarballs, and all of it.
Brought(p) == UNION {Range(Tarball[t]) : t \in Range(job[p].args.tars)}
UnpackInv ==
  \A p \in Proc : job[p].step = "timelines" /\ job[p].args.tars # <<>> =>
    Range(job[p].mts) = Brought(p)

\* A copy to make is one of a test of a tarball, and of the multitest it names.
Genuine(c) ==
  \E t \in DOMAIN Tarball : \E mt \in Placed(Tarball[t]) :
    /\ c.to = OutDir(mt) /\ c.n \in DOMAIN mt.tests
    /\ IsTest(c.test) /\ c.test.log = mt.tests[c.n].log
Sourced(p) ==
  job[p].step = "copy" =>
    \A c \in job[p].copies : c.at \in DOMAIN job[p].mts /\ c.to = OutDir(job[p].mts[c.at])
CopiesInv == \A p \in Proc : Sourced(p) /\ \A c \in job[p].copies : Genuine(c)

\* A test of a tarball is in the web folder or still to be copied, and after
\* the last copy all of them are there.
AfterCopy(p) == job[p].step \notin {"out", "begin", "timelines", "copy"}
ToCopy(p, mt, n) ==
  job[p].step = "copy" /\ \E c \in job[p].copies : c.to = OutDir(mt) /\ c.n = n
HeldInv ==
  \A p \in Proc : job[p].step = "copy" \/ AfterCopy(p) =>
    \A mt \in Mine(job[p]) : \A n \in DOMAIN mt.tests : Held(mt, n) \/ ToCopy(p, mt, n)

\* The host is in the path of a multitest: what a command line brings into one
\* folder comes from one machine.
SameMachine ==
  \A p \in Proc : \A a \in Jobs[p] : \A mt, nt \in Unpacked(a) :
    OutDir(mt) = OutDir(nt) =>
      categorize_by_timeline(mt.tests).machine = categorize_by_timeline(nt.tests).machine

\* What an instance works on are sequences where it makes others from them, it
\* has no summaries to write before it has sorted, it reads categories from
\* the web folder when it has unpacked nothing, and the lines it has read of
\* ~/.multitests are still there.
IsSeq(s) == s \in Seq(Range(s))
Listing(p) == job[p].step \in {"tcread", "tcappend"}
LocalInv(p) ==
  LET j == job[p] IN
  /\ j.args \in Jobs[p] \cup {NoArgs}
  /\ (j.step = "timelines" /\ j.args.tars # <<>>) \/ j.step = "copy" \/ Listing(p) => IsSeq(j.mts)
  /\ j.step \in {"out", "begin", "timelines", "copy"} => j.targets = <<>>
  /\ j.step = "categorize" => j.args.tars = <<>>
  /\ j.step = "tcappend" => j.got \subseteq Range(testcache)

\* Where the multitests belong, and what they are.
Places(mts) == {[to |-> OutDir(mt), is |-> categorize_by_timeline(mt.tests)] : mt \in mts}

\* What is known of the multitests an instance brings: with their timelines
\* they belong where they did; then their folders and categories are noted;
\* then the folders are listed; and after the links all can be found.
Noted(p, mt) ==
  OutDir(mt) \in DOMAIN job[p].det /\ job[p].det[OutDir(mt)] = categorize_by_timeline(mt.tests)
Sorting(p) == Listing(p) /\ job[p].targets = <<>>
Sorted(p) == AfterCopy(p) /\ job[p].step \notin {"categorize", "link"} /\ ~Sorting(p)
FoundInv(p) ==
  /\ job[p].step = "copy" =>
       /\ Places(Placed(job[p].mts)) \subseteq Places(Unpacked(job[p].args))
       /\ Places(Mine(job[p])) \subseteq Places(Placed(job[p].mts))
  /\ \A mt \in Mine(job[p]) :
       /\ Sorting(p) => Noted(p, mt) /\ OutDir(mt) \in Range(job[p].mts)
       /\ job[p].step = "link" => Noted(p, mt) /\ OutDir(mt) \in Range(testcache)
       /\ Sorted(p) => Findable(mt)

\* While the summary of a kernel is made, what was sorted under it is still to be
\* read or has been.
Summing(p) ==
  /\ job[p].step = "sumread" \/ (Listing(p) /\ job[p].targets # <<>>)
  /\ Head(job[p].targets)[1] = "kernel"
ToSee(p) ==
  Range(job[p].todo) \cup
    IF job[p].step = "sumread" THEN SeenIn([list |-> job[p].list, blank |-> job[p].got]) ELSE {}
SumInv(p) ==
  Summing(p) =>
    /\ IsSeq(job[p].todo) /\ IsSeq(job[p].list)
    /\ {f \in {OutDir(mt) : mt \in Mine(job[p])} : f.kernel = Head(job[p].targets)[2]}
         \subseteq ToSee(p)

RIInv == RTypeOK /\ RowsInv /\ UnpackInv /\ CopiesInv
SafeInv == HeldInv /\ TarballSafe     \* given SameTests
FindInv ==                             \* given SameMachine
  /\ IsSeq(testcache) /\ IsFiniteSet(DOMAIN web)
  /\ \A p \in Proc : LocalInv(p) /\ FoundInv(p)
  /\ WorkFound
SumsInv ==                             \* given both
  /\ \A p \in Proc : SumInv(p)
  /\ WorkSummed

\* What an instance works on is in the web folder, or will be after its copies.
Listed(s) == IsSeq(s) /\ Range(s) \subseteq DOMAIN web
InWeb(p) ==
  LET j == job[p] IN
  /\ IsSeq(j.mts) /\ Listed(j.todo) /\ DOMAIN j.det \subseteq DOMAIN web
  /\ j.step = "copy" =>
       \A i \in DOMAIN j.mts : Named(j.mts[i].tests) # {} =>
         OutDir(j.mts[i]) \in DOMAIN web \/ \E c \in j.copies : c.at = i
  /\ AfterCopy(p) \/ (j.step = "timelines" /\ j.args.tars = <<>>) => Listed(j.mts)

\* A summary that is to be written is a report on tests, and no device in a list
\* is slower on average than at its worst.
IsDevice(d) ==
  d.count \in Nat /\ d.total \in Nat /\ d.worst \in Nat /\ d.total <= d.count * d.worst
Truthful(p) ==
  LET j == job[p] IN
  /\ j.step = "repwrite" => \A r \in j.got : r.to \in DOMAIN web /\ IsReport(r.to, r.sum)
  /\ IsSeq(j.list) /\ \A e \in Range(j.list) : IsDevice(e.fig.dev)

\* So it is with the summaries and the overviews that are there, and the links
\* lead into the web folder.
FigInv ==
  /\ IsFiniteSet(DOMAIN web) /\ IsSeq(testcache)
  /\ IsFiniteSet(links) /\ \A l \in links : l[3] \in DOMAIN web
  /\ \A f \in DOMAIN web : IsReport(f, web[f].sum)
  /\ \A k \in DOMAIN overview : IsDevice(overview[k].dev)
  /\ \A p \in Proc : InWeb(p) /\ Truthful(p)

=============================================================================
