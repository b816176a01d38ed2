------------------------------ MODULE TraceLog ------------------------------
(***************************************************************************)
(* parseTraceLog of sleepgraph.py: the trace of one or more suspends, line *)
(* by line, into the phases and devices of PhaseData and the graphs of     *)
(* CallGraph, then the verdict on each test and the removal of the frozen  *)
(* time.  Lines of what the kernel wrote (KernelTrace) may be lost.        *)
(***************************************************************************)
EXTENDS CallGraph, KernelTrace

CONSTANTS
  Logs \* what may be recorded: records [mode, tests, opt, tie, lose, kinds]

VARIABLES
  rec,    \* the suspends that were recorded
  lost,   \* the lines of their script that are not in the trace
  log,    \* the lines of the trace
  usetracemarkers, \* the markers bound a test; else kernel events do
  at,     \* the next line
  runs,   \* testdata: the tests found
  limbo,  \* whether the lines are outside of a test
  phase,  \* the phase that device calls go to
  hwsus, s2idle, \* the hardware is off; a wait for that is recorded
  ttemp,  \* of each test, events outside of device calls, in their order
  ftemp,  \* of each test and thread, the graphs of its calls
  ktemp,  \* the kprobe calls of all tests, in their order
  parts,  \* the process sample under way: its lines, processes and time
  terr,   \* what is said of each test
  error,  \* whether the result of the run has an error, with which runTest fails
  pc

vars == <<rec, lost, log, usetracemarkers, at, runs, limbo, phase, hwsus, s2idle, ttemp, ftemp, ktemp, parts, terr, error, pc>>
setup == <<rec, lost, log, usetracemarkers>>
temps == <<ttemp, ftemp, ktemp, parts>>
verdict == <<terr, error>>
reading == <<at, limbo, phase, hwsus, s2idle>>


-----------------------------------------------------------------------------
(* loadTraceLog, doesTraceLogHaveTraceEvents                                *)

\* In a block of lines of one timestamp the start marker and the end of a
\* freeze go first, the end marker and the start of a freeze last, if there is
\* one of these alone.
First(l) == l.n = "SUSPEND START" \/ (l.n = "timekeeping_freeze" /\ ~l.b)
Final(l) == l.n = "RESUME COMPLETE" \/ (l.n = "timekeeping_freeze" /\ l.b)

Reorder(blk) ==
  LET first == SelectSeq(blk, First)  final == SelectSeq(blk, Final)
      rest == SelectSeq(blk, LAMBDA l : ~First(l) /\ ~Final(l))
  IN IF Len(first) = 1 /\ final = <<>> THEN first \o rest
     ELSE IF Len(final) = 1 /\ first = <<>> THEN rest \o final ELSE blk

loadTraceLog(lines) ==
  LET heads == SelectSeq(Ints(Len(lines)), LAMBDA i : i = 1 \/ lines[i].t # lines[i - 1].t)
  IN FlattenSeq([j \in DOMAIN heads |->
                   Reorder(SelectSeq(lines, LAMBDA l : l.t = lines[heads[j]].t))])

\* Markers are used when both kinds are in the file; else kernel events stand
\* in for them.
HasMarkers ==
  \A n \in {"SUSPEND START", "RESUME COMPLETE"} : \E i \in DOMAIN log : log[i].n = n

startMarker(l) ==
  IF usetracemarkers THEN l.n = "SUSPEND START" ELSE l.n = "suspend_enter" /\ l.b
endMarker(l) ==
  IF usetracemarkers THEN l.n = "RESUME COMPLETE" ELSE l.n = "thaw_processes" /\ ~l.b

-----------------------------------------------------------------------------
(* parseTraceLog: one action for each kind of line                          *)

Init ==
  /\ rec \in Logs /\ log = File(rec, Script(rec)) /\ lost = {} /\ usetracemarkers = FALSE
  /\ at = 1 /\ runs = <<>> /\ limbo = TRUE /\ phase = <<"suspend_prepare", 0>>
  /\ hwsus = FALSE /\ s2idle = FALSE
  /\ ttemp = <<>> /\ ftemp = <<>> /\ ktemp = <<>> /\ parts = [cnt |-> 0, ps |-> {}, t |-> 0]
  /\ terr = <<>> /\ error = FALSE /\ pc = "lose"

\* The buffer of the kernel or the disk was full.
Lose ==
  /\ pc = "lose" /\ pc' = "load"
  /\ \E S \in Losses(log, rec.lose, rec.kinds) :
       /\ lost' = {log[i] : i \in S}
       /\ log' = Without(log, S)
  /\ UNCHANGED <<rec, usetracemarkers, runs, reading, temps, verdict>>

Load ==
  /\ pc = "load" /\ pc' = "read"
  /\ log' = loadTraceLog(log) /\ usetracemarkers' = HasMarkers
  /\ UNCHANGED <<rec, lost, runs, reading, temps, verdict>>

line == log[at]
data == Last(runs)
tests == Len(runs)
Put(d) == runs' = [runs EXCEPT ![tests] = d]

\* A line inside of a test.
Inside ==
  /\ pc = "read" /\ at <= Len(log) /\ at' = at + 1
  /\ ~startMarker(line) /\ ~limbo
  /\ UNCHANGED <<setup, verdict, pc>>

\* parseStamp: a test gets the lines of its number in the header of the file,
\* which tells whether the network was not back in time ("wifi") and whether
\* the write that suspends failed ("enter").
Header(n) == IF n \in DOMAIN rec.tests THEN rec.tests[n].head ELSE {}

Start ==
  /\ pc = "read" /\ at <= Len(log) /\ startMarker(line) /\ at' = at + 1
  /\ LET new == [NewData EXCEPT !.start = line.t,
                               !.hwstart = IF usetracemarkers THEN line.t + line.x ELSE 0,
                               !.head = Header(tests + 1)]
         p == setPhase(new, "suspend_prepare", line.t, TRUE)
     IN runs' = Append(runs, p.d) /\ phase' = p.phase
  /\ limbo' = FALSE
  /\ ttemp' = Append(ttemp, <<>>) /\ ftemp' = Append(ftemp, [pid \in 1 .. 3 |-> <<NewGraph>>])
  /\ UNCHANGED <<setup, hwsus, s2idle, ktemp, parts, verdict, pc>>

\* Lines before the first and after the end of a test.
Outside ==
  /\ pc = "read" /\ at <= Len(log) /\ ~startMarker(line) /\ limbo /\ at' = at + 1
  /\ UNCHANGED <<setup, runs, limbo, phase, hwsus, s2idle, temps, verdict, pc>>

NewEvent(l) == [n |-> l.n, start |-> l.t, end |-> l.t, pid |-> l.pid, loop |-> 0]

\* The last event of a name is taken to be the one that ends.
CloseLast(events, n, t) ==
  LET same == {i \in DOMAIN events : events[i].n = n}
  IN IF same = {} THEN events
     ELSE [events EXCEPT ![Max(same)].end = t, ![Max(same)].loop = @ + 1]

EndOfTest ==
  /\ Inside /\ endMarker(line)
  /\ LET d == [data EXCEPT !.tKernRes = IF @ = 0 THEN line.t ELSE @,
                           !.hwend = IF usetracemarkers THEN line.t + line.x ELSE 0]
     IN Put(handleEndMarker(d, line.t))
  /\ ttemp' = IF usetracemarkers THEN ttemp
              ELSE [ttemp EXCEPT ![tests] = CloseLast(@, "thaw_processes", line.t)]
  /\ limbo' = TRUE
  /\ UNCHANGED <<phase, hwsus, s2idle, ftemp, ktemp, parts>>

CmdComplete ==
  /\ Inside /\ ~endMarker(line) /\ line.k = "mark"
  /\ Put([data EXCEPT !.tKernRes = IF @ = 0 /\ line.n = "CMD COMPLETE" THEN line.t ELSE @])
  /\ UNCHANGED <<limbo, phase, hwsus, s2idle, temps>>

\* The lines of one sample of the processes make one entry, at the time of the
\* first; they are counted, not matched.
ProcessSample ==
  /\ Inside /\ line.k = "ps"
  /\ LET first == parts.cnt = 0
         ps == (IF first THEN {} ELSE parts.ps) \cup {p \in {line.n} : line.b}
         t == IF first THEN line.t ELSE parts.t
         whole == parts.cnt + 1 = line.x
     IN /\ parts' = [cnt |-> IF whole THEN 0 ELSE parts.cnt + 1, ps |-> ps, t |-> t]
        /\ Put(IF whole THEN [data EXCEPT !.pstl = Append(@, [t |-> t, ps |-> ps])] ELSE data)
  /\ UNCHANGED <<limbo, phase, hwsus, s2idle, ttemp, ftemp, ktemp>>

-----------------------------------------------------------------------------
(* suspend_resume events                                                    *)

\* With kprobes some events are left to these.
usekprobes == rec.opt = "probes"
tracewatch == IF usekprobes THEN {"sync_filesystems", "thaw_processes"} ELSE {}
Event == Inside /\ ~endMarker(line) /\ line.k = "sr" /\ line.n \notin tracewatch

Watched ==
  /\ Inside /\ ~endMarker(line) /\ line.k = "sr" /\ line.n \in tracewatch
  /\ UNCHANGED <<runs, limbo, phase, hwsus, s2idle, temps>>

SuspendEnter ==
  /\ Event /\ line.n = "suspend_enter"
  /\ Put([data EXCEPT !.tKernSus = IF @ = 0 /\ line.b THEN line.t ELSE @])
  /\ UNCHANGED <<limbo, phase, hwsus, s2idle, temps>>

PhaseOf == [dpm_prepare |-> "suspend_prepare", dpm_suspend |-> "suspend",
            dpm_suspend_late |-> "suspend_late", dpm_suspend_noirq |-> "suspend_noirq",
            dpm_resume_noirq |-> "resume_noirq", dpm_resume_early |-> "resume_early",
            dpm_resume |-> "resume", dpm_complete |-> "resume_complete"]

\* The first dpm_prepare begins no phase: the start marker did.
Prepare ==
  /\ Event /\ line.n = "dpm_prepare" /\ line.b /\ data.first
  /\ Put([data EXCEPT !.first = FALSE, !.tKernSus = IF @ = 0 THEN line.t ELSE @])
  /\ UNCHANGED <<limbo, phase, hwsus, s2idle, temps>>

PhaseChange ==
  /\ Event /\ line.n \in DOMAIN PhaseOf
  /\ ~(line.n = "dpm_prepare" /\ line.b /\ data.first)
  /\ LET p == setPhase(data, PhaseOf[line.n], line.t, line.b)
     IN Put(p.d) /\ phase' = p.phase
  /\ UNCHANGED <<limbo, hwsus, s2idle, temps>>

machinesuspend == IF rec.mode = "freeze" THEN "timekeeping_freeze" ELSE "machine_suspend"

MachineBegin ==
  /\ Event /\ line.n = machinesuspend /\ line.b
  /\ hwsus' = TRUE
  /\ LET lp == lastPhase(data, 1) IN
       IF lp.id[1] = "resume_machine"
       THEN \* a wakeup that went back to sleep is taken out again
            LET back == Len(data.ph) - 1
                llp == data.ph[back]
                d == IF llp.id[1] = "suspend_machine"
                     THEN [data EXCEPT !.ph[back].waking = @ + 1] ELSE data
            IN Put([d EXCEPT !.cur = <<>>, !.ph = SubSeq(@, 1, back)]) /\ UNCHANGED phase
       ELSE LET p == setPhase(data, "suspend_machine", lp.end, TRUE)
                q == setPhase(p.d, "suspend_machine", line.t, FALSE)
            IN /\ Put([q.d EXCEPT !.tSuspended = IF @ = 0 THEN line.t ELSE @])
               /\ phase' = p.phase
  /\ UNCHANGED <<limbo, s2idle, temps>>

MachineEnd ==
  /\ Event /\ line.n = machinesuspend /\ ~line.b
  /\ LET lp == lastPhase(data, 1) IN
       IF lp.id[1] = "resume_machine"
       THEN Put(SetEnd(data, lp.id, line.t)) /\ UNCHANGED phase
       ELSE LET p == setPhase(data, "resume_machine", line.t, TRUE)
                susp == <<"suspend_machine", p.phase[2]>>
                d == IF rec.mode # "mem" THEN p.d
                     ELSE [IF susp \in Ids(p.d) THEN SetEnd(p.d, susp, line.t) ELSE p.d
                             EXCEPT !.tSuspended = line.t]
            IN Put([d EXCEPT !.tResumed = line.t]) /\ phase' = p.phase
  /\ UNCHANGED <<limbo, hwsus, s2idle, temps>>

\* Events outside of device calls are drawn; a call under way has no end yet,
\* so that every event passes for one outside.
Global ==
  /\ Event /\ line.n \notin DOMAIN PhaseOf \cup {"suspend_enter", machinesuspend}
  /\ isTraceEventOutsideDeviceCalls(data, line.pid, line.t)
  /\ UNCHANGED <<runs, limbo, phase, ftemp, ktemp, parts>>

\* The rounds of s2idle that did not freeze the clock are counted in one event.
S2Idle ==
  /\ Global /\ line.n = "machine_suspend"
  /\ \/ hwsus /\ s2idle' = FALSE /\ hwsus' = FALSE /\ UNCHANGED ttemp
     \/ /\ ~hwsus /\ s2idle /\ ~line.b
        /\ ttemp' = [ttemp EXCEPT ![tests] = CloseLast(@, "machine_suspend", line.t)]
        /\ UNCHANGED <<s2idle, hwsus>>
     \/ /\ ~hwsus /\ ~s2idle /\ line.b /\ s2idle' = TRUE
        /\ ttemp' = [ttemp EXCEPT ![tests] = Append(@, NewEvent(line))]
        /\ UNCHANGED hwsus
     \/ ~hwsus /\ (s2idle = line.b) /\ UNCHANGED <<s2idle, hwsus, ttemp>>

OtherEvent ==
  /\ Global /\ line.n # "machine_suspend"
  /\ ttemp' = [ttemp EXCEPT ![tests] = IF line.b THEN Append(@, NewEvent(line))
                                       ELSE CloseLast(@, line.n, line.t)]
  /\ UNCHANGED <<hwsus, s2idle>>

-----------------------------------------------------------------------------
(* Device calls                                                             *)

\* The phase may be one that is no longer, or not yet, there.
NoPhase ==
  /\ Inside /\ line.k = "cb" /\ phase \notin Ids(data)
  /\ UNCHANGED <<runs, limbo, phase, hwsus, s2idle, temps>>

CallStart ==
  /\ Inside /\ line.k = "cb" /\ line.b /\ phase \in Ids(data)
  /\ Put([newAction(data, phase, line.n, line.pid, line.t, Unset)
            EXCEPT !.devpids = @ \cup {line.pid}])
  /\ UNCHANGED <<limbo, phase, hwsus, s2idle, temps>>

CallEnd ==
  /\ Inside /\ line.k = "cb" /\ ~line.b /\ phase \in Ids(data)
  /\ LET found == findDevice(data, phase, line.n)
     IN Put(IF found = {} THEN data ELSE EndDevice(data, CHOOSE v \in found : TRUE, line.t))
  /\ UNCHANGED <<limbo, phase, hwsus, s2idle, temps>>

-----------------------------------------------------------------------------
(* kprobes and functions                                                    *)

ksuscalls == {"pm_prepare_console"}
krescalls == {"pm_restore_console"}

KprobeCall ==
  /\ Inside /\ line.k = "kp" /\ line.b
  /\ ktemp' = Append(ktemp, [n |-> line.n, pid |-> line.pid, start |-> line.t, end |-> Unset])
  /\ Put([data EXCEPT !.tKernSus = IF @ = 0 /\ phase = <<"suspend_prepare", 0>> /\ line.n \in ksuscalls
                                   THEN line.t ELSE @])
  /\ UNCHANGED <<limbo, phase, hwsus, s2idle, ttemp, ftemp, parts>>

KprobeReturn ==
  /\ Inside /\ line.k = "kp" /\ ~line.b
  /\ LET open == {i \in DOMAIN ktemp : ktemp[i].n = line.n /\ ktemp[i].pid = line.pid /\ ktemp[i].end < 0}
         kernres == open # {} /\ phase # <<"suspend_prepare", 0>> /\ line.n \in krescalls
     IN /\ ktemp' = IF open = {} THEN ktemp ELSE [ktemp EXCEPT ![Max(open)].end = line.t]
        /\ Put(IF ~kernres THEN data
               ELSE [IF phase \in Ids(data) THEN SetEnd(data, phase, line.t) ELSE data
                       EXCEPT !.tKernRes = line.t])
  /\ UNCHANGED <<limbo, phase, hwsus, s2idle, ttemp, ftemp, parts>>

\* A line that shows that a graph was done before is the first of the next.
Function ==
  /\ Inside /\ line.k = "fg"
  /\ LET l == [n |-> line.n, call |-> line.b, ret |-> line.ret, x |-> line.x, t |-> line.t, len |-> line.len]
         gs == ftemp[tests][line.pid]
         a == addLine(Last(gs), l)
         done == [gs EXCEPT ![Len(gs)] = a.g]
         new == IF a.res = -1 THEN addLine(NewGraph, l).g ELSE NewGraph
     IN ftemp' = [ftemp EXCEPT ![tests][line.pid] = IF a.res = 0 THEN done ELSE Append(done, new)]
  /\ UNCHANGED <<runs, limbo, phase, hwsus, s2idle, ttemp, ktemp, parts>>

-----------------------------------------------------------------------------
(* After the last line                                                      *)

\* A command is all preparation.
CommandSpan(d) ==
  [d EXCEPT !.tSuspended = d.end, !.tResumed = d.end, !.fwValid = FALSE,
            !.ph = [i \in DOMAIN @ |->
                      [@[i] EXCEPT !.end = d.end,
                         !.start = IF i = Idx(d, <<"suspend_prepare", 0>>) THEN d.start ELSE d.end]]]

\* A test without its end marker ends with the last line.
ReadAll ==
  /\ pc = "read" /\ at > Len(log) /\ pc' = IF runs = <<>> THEN "done" ELSE "place"
  /\ LET whole == IF runs = <<>> \/ data.groups # {} THEN runs
                  ELSE [runs EXCEPT ![tests] = handleEndMarker(@, log[Len(log)].t)]
         span(d) == closeGaps(IF rec.mode = "command" THEN CommandSpan(d) ELSE d)
     IN runs' = [i \in DOMAIN whole |-> span(whole[i])]
  /\ UNCHANGED <<setup, reading, temps, verdict>>

\* The kprobe calls that began in the i-th test, of functions that are drawn
\* as actions or as calls of a device.
tracefuncs == {"pm_prepare_console", "pm_restore_console"}
Probes(i, names) ==
  LET tle == IF i < tests THEN runs[i + 1].start ELSE runs[i].end
  IN SelectSeq(ktemp, LAMBDA e : /\ e.n \in names /\ e.end > e.start
                                 /\ runs[i].start <= e.start /\ e.start < tle)

PlaceAll(i) ==
  LET procs == IF rec.opt = "procs" THEN createProcessUsageEvents(runs[i]) ELSE runs[i]
      events == FoldLeft(LAMBDA d, e : newActionGlobal(d, e.n, e.start, e.end, e.pid), procs,
                         SelectSeq(ttemp[i], LAMBDA e : e.end > e.start))
      traced == Probes(i, tracefuncs)
      probes == FoldLeft(LAMBDA d, e : newActionGlobal(d, e.n, e.start, e.end, e.pid),
                         [events EXCEPT !.devpids = @ \cup {ktemp[j].pid : j \in {j \in DOMAIN ktemp : ktemp[j].n \in tracefuncs}}],
                         traced)
  IN FoldLeft(LAMBDA d, e : addDeviceFunctionCall(d, e.n, e.pid, e.start, e.end),
              probes, Probes(i, {"msleep"}) \o Probes(i, {"udelay"}))

\* The samples, events and probes of each test go to its phases, if they last.
PlaceEvents ==
  /\ pc = "place" /\ pc' = "graphs"
  /\ runs' = [i \in DOMAIN runs |-> PlaceAll(i)]
  /\ UNCHANGED <<setup, reading, temps, verdict>>

\* The graphs of one test that are whole, or can be made so.
Usable(i) ==
  LET all == FlattenSeq([pid \in 1 .. 3 |-> [j \in DOMAIN ftemp[i][pid] |-> [pid |-> pid, g |-> ftemp[i][pid][j]]]])
      some == SelectSeq(all, LAMBDA e : e.g.list # <<>> /\ ~e.g.invalid /\ e.g.end # e.g.start)
      post == [j \in DOMAIN some |-> [pid |-> some[j].pid, p |-> postProcess(some[j].g)]]
  IN SelectSeq(post, LAMBDA e : e.p.ok)

isCallgraphFunc(n) == n = "sync"

\* Each goes to the device that was called; the others are actions, if they
\* are of a traced function.
Match(d, e) ==
  LET dm == deviceMatch(d, e.p.g, e.pid)
  IN IF rec.mode # "command" /\ dm.found THEN dm.d
     ELSE IF isCallgraphFunc(e.p.g.name) THEN newActionFromFunction(d, e.p.g) ELSE d
MatchGraphs ==
  /\ pc = "graphs" /\ pc' = IF rec.mode = "command" THEN "done" ELSE "judge"
  /\ runs' = [i \in DOMAIN runs |-> FoldLeft(Match, runs[i], Usable(i))]
  /\ UNCHANGED <<setup, reading, temps, verdict>>

\* A missing phase is said first, then what the header tells.
said(d) ==
  IF failed(d) # "" THEN failed(d)
  ELSE IF "wifi" \in d.head THEN "wifi" ELSE IF "enter" \in d.head THEN "enter" ELSE ""

Judge ==
  /\ pc = "judge" /\ pc' = "trim"
  /\ terr' = [i \in DOMAIN runs |-> said(runs[i])]
  /\ error' = \E i \in DOMAIN runs : terr'[i] # ""
  /\ LET judged == [i \in DOMAIN runs |-> fixupInitcalls(deviceFilter(fillTimes(runs[i]), rec.filter))]
         pair == IF usekprobes /\ tests = 2
                 THEN stitchTouchingThreads(mergeOverlapDevices(<<judged[1], judged[2]>>))
                 ELSE judged
     IN runs' = pair
  /\ UNCHANGED <<setup, reading, temps>>

\* createHTML: the clock that stood still in s2idle is taken out.
Trim ==
  /\ pc = "trim" /\ pc' = "done"
  /\ runs' = [i \in DOMAIN runs |-> IF rec.mode = "freeze" THEN trimFreezeTime(runs[i], data.tSuspended)
                                    ELSE getMemTime(runs[i])]
  /\ UNCHANGED <<setup, reading, temps, verdict>>

Terminated == pc \in {"done", "failed"} /\ UNCHANGED vars

Next ==
  \/ Lose \/ Load \/ Start \/ Outside \/ EndOfTest \/ CmdComplete \/ ProcessSample \/ Watched
  \/ SuspendEnter \/ Prepare \/ PhaseChange
  \/ MachineBegin \/ MachineEnd \/ S2Idle \/ OtherEvent
  \/ NoPhase \/ CallStart \/ CallEnd
  \/ KprobeCall \/ KprobeReturn \/ Function \/ ReadAll \/ PlaceEvents \/ MatchGraphs \/ Judge \/ Trim \/ Terminated

Spec == Init /\ [][Next]_vars

-----------------------------------------------------------------------------
(* Properties                                                               *)

Placed == pc \in {"graphs", "judge", "trim", "done"}
Judged == pc \in {"trim", "done"} /\ rec.mode # "command"
\* Lines that phases are made from were lost: in the kernel log after a freeze
\* device calls are among these.
PhaseLost == \E l \in lost : l.k \in {"mark", "sr", "msg"} \/ rec.opt = "dmesg"

\* The phases of a test follow each other without a gap from its start to its
\* end, but for the time the clock stood still, which is taken out at last:
\* no time is counted twice or not at all, whichever phase the kernel failed
\* in, and however often it woke up and went back to sleep.
Tiled(d) ==
  /\ d.ph[1].start = d.start /\ d.ph[Len(d.ph)].end = d.end
  /\ \A i \in DOMAIN d.ph : d.ph[i].start <= d.ph[i].end
  /\ \A i \in 1 .. Len(d.ph) - 1 :
       \/ d.ph[i].end = d.ph[i + 1].start
       \/ IsMachine(d.ph[i]) /\ IsMachine(d.ph[i + 1]) /\ d.ph[i].end <= d.ph[i + 1].start

\* Every phase is in one group, that of all the phases an action spans with
\* it, so that none is drawn twice; a test whose end marker was lost, with
\* another one after it, has no groups at all.
Grouped(d) ==
  /\ UNION d.groups = Ids(d)
  /\ \A g, h \in d.groups : g = h \/ g \cap h = {}

PhasesTile ==
  Placed => /\ ~PhaseLost => \A i \in DOMAIN runs : Tiled(runs[i])
            /\ ~PhaseLost \/ Len(runs) < 2 => \A i \in DOMAIN runs : Grouped(runs[i])

\* A log with all its phases gives each test the verdict the kernel did, or
\* that of the header, and with a trace the run fails just when one of its tests
\* did; no loss of a line makes a test pass in which the machine did not sleep.
\* What is said of a kernel log is printed and no more: its runs all pass.
Broke(test) ==
  IF rec.opt = "dmesg" THEN IF test.depth = 5 THEN "" ELSE PhaseOf[Down[test.depth]]
  ELSE IF test.depth = 0 THEN "suspend_prepare"
  ELSE IF test.depth < 4 THEN PhaseOf[Down[test.depth]]
  ELSE IF Slept(rec.mode, test) THEN "" ELSE "suspend_machine"
Expected(test) ==
  IF Broke(test) # "" \/ rec.opt = "dmesg" THEN Broke(test)
  ELSE IF "wifi" \in test.head THEN "wifi" ELSE IF "enter" \in test.head THEN "enter" ELSE ""
VerdictRight ==
  Judged =>
    IF PhaseLost
    THEN (\E i \in DOMAIN terr : terr[i] = "") =>
           \E i \in DOMAIN rec.tests :
             Broke(rec.tests[i]) = "" /\ (Len(rec.tests) = 1 => Expected(rec.tests[i]) = "")
    ELSE /\ terr = [i \in DOMAIN rec.tests |-> Expected(rec.tests[i])]
         /\ rec.opt # "dmesg" =>
              (error <=> \E i \in DOMAIN rec.tests : Expected(rec.tests[i]) # "")

\* The device calls that are drawn are those of the kernel, with the thread
\* that made them and the time they began, whatever order their lines have;
\* one whose return was lost is still there, and none is made up.
CallsTrue ==
  pc = (IF rec.opt = "dmesg" THEN "trim" ELSE "judge") /\ ~PhaseLost /\ rec.filter = {} =>
    LET calls == {l \in Range(log) : l.k = "cb" /\ l.b}
        drawn == {v \in UNION {runs[i].devs : i \in DOMAIN runs} : v.name \in {"d1", "d2"}}
        ends(l) == {m.t : m \in {m \in Range(log) : m.k = "cb" /\ ~m.b /\ m.n = l.n /\ m.t >= l.t}}
    IN /\ {<<v.name, v.pid, v.start>> : v \in drawn} = {<<l.n, l.pid, l.t>> : l \in calls}
       /\ \A l \in calls : \A v \in drawn :
            lost = {} /\ v.name = l.n /\ v.start = l.t => v.end = Min(ends(l))

\* The kernel times that every summary is computed from are in their order and
\* within the test, also when one line of the trace was lost.
InOrder ==
  Judged /\ Cardinality(lost) < 2 => \A i \in DOMAIN runs : LET d == runs[i] IN
    (Len(runs) = 1 /\ rec.opt # "dmesg") \/ ~PhaseLost =>
      /\ d.start <= d.tKernSus /\ d.tKernSus <= d.tSuspended /\ d.tSuspended <= d.tResumed
      /\ d.tResumed <= d.tKernRes /\ d.tKernRes <= d.end

\* The time that was slept is neither lost nor counted as suspend or resume: it
\* is that from the first freeze of the clock to the last thaw, or what the
\* hardware clock went on, and the test is shorter by just that.
Slumber ==
  LET in == {l.t : l \in {l \in Range(log) : l.n = "timekeeping_freeze"}}
  IN IF in = {} THEN 0 ELSE Max(in) - Min(in)
LowTime ==
  pc = "done" /\ lost = {} /\ Len(runs) = 1 /\ rec.mode # "command" /\ rec.opt # "dmesg" =>
    LET d == runs[1]
        whole == log[Len(log)].t - log[1].t
    IN IF rec.mode = "freeze"
       THEN d.tLow = (IF Slumber = 0 THEN <<>> ELSE <<Slumber>>) /\ d.end - d.start = whole - Slumber
       ELSE d.tLow = <<IF Slept(rec.mode, rec.tests[1]) THEN 5 ELSE 0>> /\ d.end - d.start = whole

TimesTrue == InOrder /\ LowTime

\* The graph of a device is a tree of calls: every call returns once, at its
\* depth, after what it called, also when lines of it were lost and put back,
\* or when it is cut out for one device of many.  What is cut out is not
\* repaired: where the lock of a device and an unlock in its calls are both
\* missing the cut goes through the calls, and the graph may be no tree.
Torn == \E k, m \in lost : k.n = "mutex_lock" /\ m.n = "mutex_unlock"
Nested(list) ==
  LET before(i, which(_)) == Cardinality({j \in 1 .. i - 1 : which(list[j])})
      depth(i) == before(i, isCall) - before(i, isReturn)
  IN /\ \A i \in DOMAIN list : list[i].x = depth(i) - (IF isReturn(list[i]) THEN 1 ELSE 0)
     /\ depth(Len(list) + 1) = 0
GraphNests ==
  pc = "judge" => \A i \in DOMAIN runs : \A v \in runs[i].devs : \A g \in Range(v.ftrace) :
                    (Torn /\ g.name \in DOMAIN borderphase) \/ Nested(g.list)

\* A function call is drawn within its device or thread, nested calls as well,
\* also after threads of two tests were joined and the frozen time was taken
\* out; but for a call that is still under way when its test ends: the joined
\* thread ends where the next test saw it last, which may be within that call.
SrcInside ==
  pc = "done" => \A i \in DOMAIN runs : \A v \in runs[i].devs : \A e \in v.src :
    /\ v.start <= e.start /\ e.start <= e.end
    /\ e.end <= v.end \/ (e.start < runs[i].end /\ runs[i].end < e.end)

CallsNest == GraphNests /\ SrcInside

=============================================================================
