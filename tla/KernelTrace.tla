---------------------------- MODULE KernelTrace ----------------------------
(***************************************************************************)
(* What a kernel writes to its trace during suspends (external): a script  *)
(* of lines for suspends that succeed or fail in some phase.  A line is a  *)
(* record: its kind k (marker, phase event, device callback, kprobe,       *)
(* function, processes), name, whether it begins (and, of a function,      *)
(* whether it returns), thread, a depth or count x, length and time.       *)
(***************************************************************************)
EXTENDS Integers, Sequences, SequencesExt, FiniteSetsExt

Line(k, n, b, pid) == [k |-> k, n |-> n, b |-> b, ret |-> ~b, pid |-> pid, x |-> 0, len |-> 0]
Ev(n, b) == Line("sr", n, b, 0)
Pair(n) == <<Ev(n, TRUE), Ev(n, FALSE)>>
Mark(n) == Line("mark", n, n = "SUSPEND START", 0)
Cb(n, b, pid) == Line("cb", n, b, pid)
Kp(n, b, pid) == Line("kp", n, b, pid)
Probe(n, pid) == <<Kp(n, TRUE, pid), Kp(n, FALSE, pid)>>
Fg(n, x, pid) == [Line("fg", n, TRUE, pid) EXCEPT !.x = x]
Rt(n, x, pid, len) == [Line("fg", n, FALSE, pid) EXCEPT !.x = x, !.len = len]
Leaf(n, x, pid) == [Fg(n, x, pid) EXCEPT !.ret = TRUE]

\* One sample of the processes that ran, in two lines.
Sample(p, q) == <<[Line("ps", "p", p, 0) EXCEPT !.x = 2], [Line("ps", "q", q, 0) EXCEPT !.x = 2]>>

Down == <<"dpm_prepare", "dpm_suspend", "dpm_suspend_late", "dpm_suspend_noirq">>
Up == <<"dpm_resume_noirq", "dpm_resume_early", "dpm_resume", "dpm_complete">>

\* A call in a call.
Nest(n, m, pid) == <<Kp(n, TRUE, pid)>> \o Probe(m, pid) \o <<Kp(n, FALSE, pid)>>

\* Two devices called at once, by two threads; with probes, functions called
\* in and out of them and by a thread without devices; with graphs, all calls.
Calls(opt) ==
  CASE opt = "probes" ->
         <<Cb("d1", TRUE, 1)>> \o Nest("msleep", "udelay", 1) \o <<Cb("d1", FALSE, 1)>>
         \o Probe("msleep", 1) \o Nest("udelay", "msleep", 5)
    [] opt = "graphs" ->
         <<Fg("dpm_run_callback", 0, 1), Cb("d1", TRUE, 1), Fg("dpm_run_callback", 0, 2),
           Cb("d2", TRUE, 2), Fg("f", 1, 1), Leaf("h", 2, 1), Rt("f", 1, 1, 2), Fg("noise", 1, 2),
           Leaf("h", 2, 2), Rt("noise", 1, 2, 2), Cb("d1", FALSE, 1), Cb("d2", FALSE, 2),
           Rt("dpm_run_callback", 0, 1, 11), Rt("dpm_run_callback", 0, 2, 11)>>
    [] OTHER -> <<Cb("d1", TRUE, 1), Cb("d2", TRUE, 2), Cb("d1", FALSE, 1), Cb("d2", FALSE, 2)>>

\* What the phase of preparation calls, in one function for all devices, each
\* between its lock and unlock; the first takes other locks in its calls.
Locked(x, calls) == <<Leaf("mutex_lock", x, 1)>> \o calls \o <<Leaf("mutex_unlock", x, 1)>>
Taking(n, x) == <<Fg(n, x, 1)>> \o Locked(x + 1, <<>>) \o <<Rt(n, x, 1, 3)>>
Prepare1(d, calls) ==
  <<Cb(d, TRUE, 1), Fg("device_prepare", 1, 1)>> \o Locked(2, calls)
  \o <<Rt("device_prepare", 1, 1, 3 + Len(calls)), Cb(d, FALSE, 1)>>
PrepareCalls(opt) ==
  IF opt # "graphs" THEN <<>>
  ELSE <<Fg("dpm_prepare", 0, 1)>> \o Prepare1("d1", Taking("f", 2) \o Taking("g", 2))
       \o Prepare1("d2", <<Leaf("h", 2, 1)>>) \o <<Rt("dpm_prepare", 0, 1, 22)>>

PhaseLines(n, opt) ==
  <<Ev(n, TRUE)>>
  \o (IF n \in {"dpm_suspend", "dpm_resume"} THEN Calls(opt)
      ELSE IF n = "dpm_prepare" THEN PrepareCalls(opt) ELSE <<>>)
  \o <<Ev(n, FALSE)>>
Phases(names, opt) == FlattenSeq([i \in DOMAIN names |-> PhaseLines(names[i], opt)])

\* The low-power mode: one entry to memory, or rounds of s2idle that freeze
\* the clock ("freeze") or are woken before they do ("wake").
Low(mode, rounds) ==
  LET ms(x) == <<Ev("machine_suspend", TRUE)>> \o x \o <<Ev("machine_suspend", FALSE)>>
  IN IF mode = "freeze"
     THEN FlattenSeq([i \in DOMAIN rounds |->
                        ms(IF rounds[i] = "freeze" THEN Pair("timekeeping_freeze") ELSE <<>>)])
     ELSE IF rounds = <<>> THEN <<>> ELSE ms(<<>>)

When(b, lines) == IF b THEN lines ELSE <<>>

\* A suspend that fails in the n-th phase down resumes what it had suspended;
\* a command need not suspend at all.
Body(mode, test, opt) ==
  LET n == test.depth IN
  <<Ev("suspend_enter", TRUE)>>
  \o When(opt = "graphs", <<Fg("sync", 0, 3)>>) \o Pair("sync_filesystems")
  \o When(opt = "graphs", <<Rt("sync", 0, 3, 3)>>)
  \o When(opt = "probes", Probe("pm_prepare_console", 4))
  \o Phases(SubSeq(Down, 1, n), opt)
  \o When(n = 4, Low(mode, test.rounds))
  \o Phases(SubSeq(Up, IF n = 4 THEN 1 ELSE IF n = 3 THEN 2 ELSE 3, 4), opt)
  \o Pair("thaw_processes")
  \o When(opt = "probes", Probe("pm_restore_console", 4))

\* Whether the kernel reached its low-power mode.
Slept(mode, test) == test.depth = 4 /\ IF mode = "freeze"
                                       THEN \E i \in DOMAIN test.rounds : test.rounds[i] = "freeze"
                                       ELSE test.rounds # <<>>

\* The markers tell the hardware clock: x ticks ahead, as it goes on for five
\* while the machine is suspended to memory.
HwMark(n, r, i) ==
  [Mark(n) EXCEPT !.x = 5 * Cardinality({j \in 1 .. i : r.mode = "mem" /\ Slept(r.mode, r.tests[j])})]

\* One test; the last call of the thread may still be under way when it ends.
Suspend(r, i) ==
  LET mode == r.mode  test == r.tests[i]  opt == r.opt  n == Len(r.tests) IN
  <<HwMark("SUSPEND START", r, i - 1)>>
  \o When(opt = "probes" /\ i > 1, Probe("udelay", 5) \o <<Kp("msleep", FALSE, 5)>>)
  \o When(opt = "procs", Sample(test.ps[1], ~test.ps[1]) \o Sample(test.ps[2], TRUE))
  \o When(test.depth > 0, Body(mode, test, opt))
  \o When(opt = "procs", Sample(test.ps[3], FALSE) \o Sample(test.ps[4], test.ps[3]))
  \o When(mode = "command", <<Mark("CMD COMPLETE")>>)
  \o When(opt = "probes" /\ i < n, <<Kp("msleep", TRUE, 5)>>)
  \o <<HwMark("RESUME COMPLETE", r, i)>>

\* The kernel log of a suspend: messages, and calls and returns of devices.
Msgs(names) == [i \in DOMAIN names |-> Line("msg", names[i], TRUE, 0)]
DmesgCalls == <<Cb("d1", TRUE, 1), Cb("d2", TRUE, 2), Cb("d2", FALSE, 2), Cb("d1", FALSE, 1)>>

Dmesg(r, i) ==
  LET n == r.tests[i].depth
      sleep == IF r.mode = "mem"
               THEN <<"Disabling non-boot CPUs", "CPU1 is now offline", "ACPI: Low-level resume complete",
                      "Enabling non-boot CPUs", "CPU1 is up", "ACPI: Waking up">>
               ELSE <<"PM: suspend-to-idle", "Timekeeping suspended">>
  IN Msgs(<<"PM: Syncing filesystems", "PM: Preparing system", "Freezing user space",
            "Freezing remaining">>)
     \o When(n > 1, Msgs(<<"PM: Suspending system", "Suspending console">>) \o DmesgCalls)
     \o When(n > 2, Msgs(<<"suspend complete">>))
     \o When(n > 3, Msgs(<<"late suspend complete">>))
     \o When(n > 4, Msgs(<<"noirq suspend complete">>) \o Msgs(sleep)
                    \o When(r.mode = "freeze", <<Cb("d1", TRUE, 1), Cb("d1", FALSE, 1)>>))
     \o When(n > 3, Msgs(<<"noirq resume complete">>))
     \o When(n > 2, Msgs(<<"early resume complete">>) \o DmesgCalls)
     \o When(n > 1, Msgs(<<"resume complete">>))
     \o Msgs(<<"Restarting tasks">>)

\* The clock goes on by one tick a line, and by three while it is frozen.
Frozen(l) == l.n = "timekeeping_freeze" /\ ~l.b
Stamp(lines) ==
  [i \in DOMAIN lines |->
     lines[i] @@ [t |-> 10 + i + 3 * Cardinality({j \in 1 .. i : Frozen(lines[j])})]]

Script(r) ==
  Stamp(FlattenSeq([i \in DOMAIN r.tests |->
                      IF r.opt = "dmesg" THEN Dmesg(r, i) ELSE Suspend(r, i)]))

\* Two lines of one timestamp may be in the file the wrong way round.
Swap(s, i) == [s EXCEPT ![i] = [s[i + 1] EXCEPT !.t = s[i].t], ![i + 1] = s[i]]
File(r, s) ==
  CASE r.tie = "none" -> s
    [] r.tie = "start" -> Swap(s, 1)
    [] r.tie = "end" -> Swap(s, Len(s) - 1)
    [] r.tie = "call" -> Swap(s, Max({i \in DOMAIN s : s[i].n = "d2" /\ s[i].b}))

\* The lines of a kind that are lost: up to n of them, two at the most.
Losses(s, n, kinds) ==
  LET S == {i \in DOMAIN s : s[i].k \in kinds} IN
  {{}} \cup (IF n > 0 THEN {{i} : i \in S} ELSE {})
       \cup (IF n > 1 THEN {{i, j} : i \in S, j \in S} ELSE {})
Ints(n) == [i \in 1 .. n |-> i]
Without(s, S) ==
  LET keep == SelectSeq(Ints(Len(s)), LAMBDA i : i \notin S)
  IN [i \in DOMAIN keep |-> s[keep[i]]]
=============================================================================
