--------------------------- MODULE SleepgraphRun ---------------------------
(***************************************************************************)
(* A live test of sleepgraph.py on its own machine: main, runTest and      *)
(* executeSuspend.  The tool changes settings of the running kernel, lets  *)
(* it suspend and resume, collects the trace, and puts everything back.    *)
(* A process monitor thread (-proc) takes samples meanwhile.  An exception *)
(* may end the main thread anywhere, and any signal kills the tool.  The   *)
(* writes of setVal and of the alarm may fail, and nobody is told.         *)
(***************************************************************************)
EXTENDS Naturals, Sequences, FiniteSets

CONSTANTS
  Tests,      \* -multi: number of tests
  MaxExec,    \* suspends of a test: 1, or 2 with -x2
  MaxFail,    \* -maxfail, 0 for no limit
  Devices,    \* the devices with runtime suspend
  MaxLost     \* bound on the writes that fail

ASSUME SleepgraphRunAssumption ==
  /\ Tests \in Nat \ {0} /\ MaxExec \in Nat \ {0} /\ MaxFail \in Nat
  /\ IsFiniteSet(Devices) /\ MaxLost \in Nat

\* debug: pm_debug_messages and warn_on_s0ix_failures, set once in a test;
\* mode: mem_sleep, disk or the acpi debug level, set for every suspend
Knobs == {"debug", "mode"}
Owner == {"own", "tool"}
Power == {"on", "auto"}

\* What is written with setVal or a shell whose result nobody looks at.
\* tracefs: trace_clock, current_tracer, buffer_size_kb, set_ftrace_notrace,
\* trace_options, max_graph_depth, the function filter and the power events
Files == {"tracing_on", "kprobes", "tracefs", "trace", "trace_marker", "alarm"}

\* The options that matter, and the kernel files among Knobs that exist.
\* unread: testVal finds no value in the text of the mode's file
Options ==
  {o \in [rs : {"none", "enable", "disable"}, exec : 1..MaxExec, knobs : SUBSET Knobs,
           unread : BOOLEAN, proc : BOOLEAN, wifitrace : BOOLEAN, skiphtml : BOOLEAN] :
     o.unread => "mode" \in o.knobs}

VARIABLES
  opt,       \* the options of this run
  pc,        \* where the main thread is
  n,         \* number of the test
  count,     \* number of the suspend within it
  failed,    \* a suspend of this test had an error
  failcnt,   \* failcnt of main
  setting,   \* who set each kernel file
  cfgdef,    \* whose value testVal keeps of it, or "none"
  power,     \* power/control of each device
  found,     \* history: what it was when the tool was started
  rslist,    \* sysvals.rslist
  alarm,     \* the RTC alarm is set
  tracing,   \* tracing_on
  probes,    \* kprobes are defined
  tracefs,   \* who set the files of Files by that name
  trace,     \* the marks in the trace buffer, of tests and their suspends
  ftrace,    \* the marks in the file taken from it
  monitor,   \* process monitor thread of each test
  lost,      \* history: files with a failed write in this test
  stuck,     \* history: devices whose last write failed
  losses,    \* number of writes that failed
  streak     \* history: tests that failed since the last that passed

test == <<n, count, failed, failcnt, streak>>
knobs == <<setting, cfgdef>>
runtime == <<power, rslist, stuck>>
tracer == <<tracing, probes, tracefs, trace, ftrace>>
vars == <<opt, found, pc, test, knobs, runtime, alarm, tracer, lost, losses, monitor>>

Mark(m) == [test |-> n, suspend |-> count, mark |-> m]

Busy == {"begin", "debug", "tracer", "start", "loop", "set", "asleep", "restore",
         "wake", "wifi", "capture", "process"}
PCs == Busy \cup {"finish", "exit", "raised", "killed"}

Init ==
  /\ opt \in Options
  /\ found \in [Devices -> Power]
  /\ pc = "begin" /\ n = 1 /\ count = 1 /\ failed = FALSE /\ failcnt = 0 /\ streak = 0
  /\ setting = [k \in Knobs |-> "own"] /\ cfgdef = [k \in Knobs |-> "none"]
  /\ power = found /\ rslist = {} /\ stuck = {}
  /\ alarm = FALSE /\ lost = {} /\ losses = 0
  /\ tracing = FALSE /\ probes = FALSE /\ tracefs = "own" /\ trace = <<>> /\ ftrace = <<>>
  /\ monitor = [t \in 1..Tests |-> "none"]

Goto(label) == pc' = label

\* setVal returns False when a write fails, which its callers ignore.
Count(F) == losses' = losses + Cardinality(F) /\ losses' <= MaxLost
Lose(F) == Count(F) /\ lost' = lost \cup F
Sticks(D) == Count(D) /\ stuck' = D

-----------------------------------------------------------------------------
(* Changing the machine                                                     *)

RsTarget == IF opt.rs = "enable" THEN "on" ELSE "auto"    \* rstgt
RsValue  == IF opt.rs = "enable" THEN "auto" ELSE "on"    \* rsval

\* setRuntimeSuspend(True), only in the first test
Runtime ==
  /\ pc = "begin" /\ Goto("debug")
  /\ failed' = FALSE /\ lost' = {}
  /\ IF n = 1 /\ opt.rs # "none"
     THEN /\ rslist' = {d \in Devices : power[d] = RsTarget}
          /\ \E D \in SUBSET rslist' : Sticks(D)
          /\ power' = [d \in Devices |->
                         IF d \in rslist' \ stuck' THEN RsValue ELSE power[d]]
     ELSE UNCHANGED <<runtime, losses>>
  /\ UNCHANGED <<opt, found, n, count, failcnt, streak, knobs, alarm, tracer, monitor>>

\* testVal with a value: keep what the file holds, if it finds it there, then
\* write; the write may raise.
Unread(k) == k = "mode" /\ opt.unread
TestVal(k, next) ==
  IF k \in opt.knobs
  THEN /\ cfgdef' = IF Unread(k) THEN cfgdef ELSE [cfgdef EXCEPT ![k] = setting[k]]
       /\ \/ setting' = [setting EXCEPT ![k] = "tool"] /\ Goto(next)
          \/ UNCHANGED setting /\ Goto("raised")
  ELSE Goto(next) /\ UNCHANGED knobs

\* Mutant: set in the first test only, as runtime suspend is.
Debug_FirstTest ==
  /\ pc = "debug"
  /\ IF n = 1 THEN TestVal("debug", "tracer") ELSE Goto("tracer") /\ UNCHANGED knobs
  /\ UNCHANGED <<opt, found, test, runtime, alarm, tracer, monitor, lost, losses>>

\* The two testVal calls of runTest
Debug ==
  /\ pc = "debug"
  /\ TestVal("debug", "tracer")
  /\ UNCHANGED <<opt, found, test, runtime, alarm, tracer, monitor, lost, losses>>

\* initFtrace.  Opening set_ftrace_notrace and reading the buffer size may
\* raise.
InitFtrace ==
  /\ pc = "tracer" /\ pc' \in {"start", "raised"}
  /\ \E F \in SUBSET {"tracing_on", "kprobes", "tracefs", "trace"} :
       /\ tracing' = (tracing /\ "tracing_on" \in F)
       /\ probes' \in IF "kprobes" \in F THEN {probes, FALSE} ELSE {TRUE}
       /\ tracefs' \in IF "tracefs" \in F THEN {tracefs, "tool"} ELSE {"tool"}
       /\ trace' = IF "trace" \in F THEN trace ELSE <<>>
       /\ Lose(F)
  /\ UNCHANGED <<opt, found, test, knobs, runtime, alarm, ftrace, monitor>>

\* start(pm): tracing_on and the process monitor
Start ==
  /\ pc = "start" /\ Goto("loop")
  /\ \E F \in SUBSET {"tracing_on"} : tracing' = (tracing \/ F = {}) /\ Lose(F)
  /\ count' = 1
  /\ monitor' = IF opt.proc THEN [monitor EXCEPT ![n] = "running"] ELSE monitor
  /\ UNCHANGED <<opt, found, n, failed, failcnt, streak, knobs, runtime, alarm, probes,
                 tracefs, trace, ftrace>>

-----------------------------------------------------------------------------
(* The loop of executeSuspend                                               *)

\* Writes to trace_marker, unless that is among the files whose write fails
Write(m, F) ==
  trace' = IF tracing /\ "trace_marker" \notin F THEN Append(trace, Mark(m)) ELSE trace

\* The alarm, and the mark SUSPEND START
Arm ==
  /\ pc = "loop" /\ Goto("set")
  /\ \E F \in SUBSET {"alarm", "trace_marker"} :
       /\ alarm' \in IF "alarm" \in F THEN {alarm, FALSE} ELSE {TRUE}
       /\ Write("start", F) /\ Lose(F)
  /\ UNCHANGED <<opt, found, test, knobs, runtime, tracing, probes, tracefs, ftrace, monitor>>

\* The testVal calls for the mode of the suspend
SetMode ==
  /\ pc = "set"
  /\ TestVal("mode", "asleep")
  /\ UNCHANGED <<opt, found, test, runtime, alarm, tracer, monitor, lost, losses>>

\* The suspend is entered and left, or it fails.
Suspend ==
  /\ pc = "asleep" /\ Goto("restore")
  /\ failed' \in {failed, TRUE}
  /\ UNCHANGED <<opt, found, n, count, failcnt, streak, knobs, runtime, alarm, tracer,
                 monitor, lost, losses>>

\* testVal('restoreall') writes back what was kept, and may raise half-way;
\* then the alarm is removed.
RestoreAll ==
  /\ pc = "restore"
  /\ \/ /\ setting' = [k \in Knobs |-> IF cfgdef[k] = "none" THEN setting[k] ELSE cfgdef[k]]
        /\ cfgdef' = [k \in Knobs |-> "none"]
        /\ \E F \in SUBSET {"alarm"} : alarm' = (alarm /\ F # {}) /\ Lose(F)
        /\ Goto("wake")
     \/ /\ \E K \in SUBSET {k \in Knobs : cfgdef[k] # "none"} :
             setting' = [k \in Knobs |-> IF k \in K THEN cfgdef[k] ELSE setting[k]]
        /\ UNCHANGED <<cfgdef, alarm, lost, losses>> /\ Goto("raised")
  /\ UNCHANGED <<opt, found, test, runtime, tracer, monitor>>

\* Mutant: the process monitor is forgotten.
StopTrace_KeepMonitor(F) == tracing' = (tracing /\ "tracing_on" \in F) /\ UNCHANGED monitor

\* stop(pm): the flag of the process monitor, then tracing_on
StopTrace(F) ==
  /\ monitor' = IF opt.proc THEN [monitor EXCEPT ![n] = "stopping"] ELSE monitor
  /\ tracing' = (tracing /\ "tracing_on" \in F)

\* The writes at the end of a suspend that may fail
Ending == SUBSET {"trace_marker", "tracing_on"}
Marking == SUBSET {"trace_marker"}

\* Mutant: the trace is stopped before the wifi is waited for.
Wake_StopFirst ==
  /\ pc = "wake"
  /\ IF count < opt.exec
     THEN /\ \E F \in Marking : Write("end", F) /\ Lose(F)
          /\ count' = count + 1 /\ Goto("loop") /\ UNCHANGED <<monitor, tracing>>
     ELSE /\ UNCHANGED count
          /\ \E F \in Ending :
               /\ StopTrace(F) /\ Lose(F)
               /\ IF opt.wifitrace THEN Goto("wifi") /\ UNCHANGED trace
                  ELSE Write("end", F) /\ Goto("capture")
  /\ UNCHANGED <<opt, found, n, failed, failcnt, streak, knobs, runtime, alarm, probes,
                 tracefs, ftrace>>

\* RESUME COMPLETE: on to the next suspend, or the end of the trace unless
\* that waits for the wifi
Wake ==
  /\ pc = "wake"
  /\ IF count < opt.exec
     THEN /\ \E F \in Marking : Write("end", F) /\ Lose(F)
          /\ count' = count + 1 /\ Goto("loop") /\ UNCHANGED <<monitor, tracing>>
     ELSE /\ UNCHANGED count
          /\ IF opt.wifitrace
             THEN Goto("wifi") /\ UNCHANGED <<trace, monitor, tracing, lost, losses>>
             ELSE /\ \E F \in Ending : Write("end", F) /\ StopTrace(F) /\ Lose(F)
                  /\ Goto("capture")
  /\ UNCHANGED <<opt, found, n, failed, failcnt, streak, knobs, runtime, alarm, probes,
                 tracefs, ftrace>>

\* pollWifi returned, with -wifitrace
Wifi ==
  /\ pc = "wifi" /\ Goto("capture")
  /\ \E F \in Ending : Write("end", F) /\ StopTrace(F) /\ Lose(F)
  /\ UNCHANGED <<opt, found, test, knobs, runtime, alarm, probes, tracefs, ftrace>>

\* The trace buffer goes to the file; cleanupFtrace takes the kprobes away, and
\* leaves the files of tracefs as they are (the buffer with a size of its own).
Capture ==
  /\ pc = "capture" /\ Goto("process")
  /\ ftrace' = trace
  /\ \E F \in SUBSET {"trace", "kprobes"} :
       /\ trace' = IF "trace" \in F THEN trace ELSE <<>>
       /\ probes' = (probes /\ "kprobes" \in F)
       /\ Lose(F)
  /\ UNCHANGED <<opt, found, test, knobs, runtime, alarm, tracing, tracefs, monitor>>

-----------------------------------------------------------------------------
(* main                                                                     *)

TooManyFails == MaxFail > 0 /\ failcnt' >= MaxFail

\* The output is processed unless -skiphtml, which judges nothing; then the
\* next test, if there are more and the time of the run is not up.
Process ==
  /\ pc = "process"
  /\ \E bad \in {failed, TRUE} :
       /\ streak' = IF bad THEN streak + 1 ELSE 0
       /\ failcnt' = IF bad /\ ~opt.skiphtml THEN failcnt + 1 ELSE 0
  /\ \/ Goto("finish") /\ UNCHANGED n
     \/ n < Tests /\ ~TooManyFails /\ n' = n + 1 /\ Goto("begin")
  /\ UNCHANGED <<opt, found, count, failed, knobs, runtime, alarm, tracer, monitor, lost,
                 losses>>

\* Mutant: looks for the devices to restore once more.
Finish_Rescan ==
  /\ pc = "finish" /\ Goto("exit")
  /\ power' = IF opt.rs = "none" THEN power ELSE [d \in Devices |-> RsTarget]
  /\ stuck' = {}
  /\ UNCHANGED <<opt, found, test, knobs, rslist, alarm, tracer, monitor, lost, losses>>

\* "reset to default values after testing": setRuntimeSuspend(False)
Finish ==
  /\ pc = "finish" /\ Goto("exit")
  /\ \E D \in SUBSET rslist : Sticks(D)
  /\ power' = [d \in Devices |-> IF d \in rslist \ stuck' THEN RsTarget ELSE power[d]]
  /\ UNCHANGED <<opt, found, test, knobs, rslist, alarm, tracer, monitor, lost>>

\* An exception nobody catches, such as from opening the power file; those of
\* testVal are part of its actions.
Raise ==
  /\ pc \in Busy \cup {"finish"} /\ Goto("raised")
  /\ UNCHANGED <<opt, found, test, knobs, runtime, alarm, tracer, monitor, lost, losses>>

\* signalHandler: the tool kills itself
Signal ==
  /\ pc \in Busy \cup {"finish"} /\ Goto("killed")
  /\ monitor' = [t \in 1..Tests |-> "none"]
  /\ UNCHANGED <<opt, found, test, knobs, runtime, alarm, tracer, lost, losses>>

Main ==
  \/ Runtime \/ Debug \/ InitFtrace \/ Start \/ Arm \/ SetMode \/ Suspend \/ RestoreAll
  \/ Wake \/ Wifi \/ Capture \/ Process \/ Finish

\* A process monitor ends after the sample during which it was stopped.
MonitorEnds(t) ==
  /\ monitor[t] = "stopping"
  /\ monitor' = [monitor EXCEPT ![t] = "none"]
  /\ UNCHANGED <<opt, found, pc, test, knobs, runtime, alarm, tracer, lost, losses>>

Next == Main \/ Raise \/ Signal \/ \E t \in 1..Tests : MonitorEnds(t)

Spec == Init /\ [][Next]_vars

\* Every call of the tool returns, the suspend if the RTC alarm is set to end
\* it, and every sample of a monitor ends.
Unwoken == pc = "asleep" /\ ~alarm
FairSpec ==
  Spec /\ WF_vars(Main /\ ~Unwoken) /\ \A t \in 1..Tests : WF_vars(MonitorEnds(t))

-----------------------------------------------------------------------------
(* Properties                                                               *)

Flags == failed \in BOOLEAN /\ alarm \in BOOLEAN /\ tracing \in BOOLEAN /\ probes \in BOOLEAN

Ranges ==
  /\ opt \in Options /\ found \in [Devices -> Power]
  /\ pc \in PCs /\ n \in 1..Tests /\ count \in 1..MaxExec
  /\ failcnt \in Nat /\ streak \in Nat /\ losses \in Nat
  /\ setting \in [Knobs -> Owner] /\ cfgdef \in [Knobs -> Owner \cup {"none"}]
  /\ power \in [Devices -> Power] /\ rslist \subseteq Devices /\ stuck \subseteq Devices
  /\ tracefs \in Owner /\ lost \subseteq Files
  /\ monitor \in [1..Tests -> {"none", "running", "stopping"}]

TypeOK == Flags /\ Ranges

\* Wherever testVal has put a value of the tool, it keeps the value it found
\* there, if it could read it: what is kept is never the value of the tool,
\* although a test writes the files again and again.
Kept ==
  \A k \in Knobs :
    /\ cfgdef[k] # "tool" /\ (Unread(k) => cfgdef[k] = "none")
    /\ setting[k] = "tool" => cfgdef[k] = "own" \/ Unread(k)

\* What is kept, and which of the files, by the place in the code
Ended == {"raised", "killed"}
KnobsInv ==
  /\ cfgdef["debug"] = "own" =>
       pc \in {"tracer", "start", "loop", "set", "asleep", "restore"} \cup Ended
  /\ cfgdef["mode"] = "own" => pc \in {"asleep", "restore"} \cup Ended
  /\ pc \in {"tracer", "start"} \/ (count = 1 /\ pc \in {"loop", "set", "asleep"}) =>
       ("debug" \in opt.knobs => setting["debug"] = "tool")
  /\ count > 1 /\ pc \in {"loop", "set", "asleep"} => setting["debug"] = "own"
  /\ pc = "asleep" /\ "mode" \in opt.knobs => setting["mode"] = "tool"

\* From initFtrace to the end of the test, what no failed write has left as
\* it was is as the tool wants it.
Looping == {"loop", "set", "asleep", "restore", "wake", "wifi"}
Traced == Looping \cup {"start", "capture", "process", "finish", "exit"}
TracerInv ==
  /\ pc \in Traced =>
       /\ "tracing_on" \notin lost => (tracing <=> pc \in Looping)
       /\ "kprobes" \notin lost => (probes <=> pc \in Looping \cup {"start", "capture"})
       /\ "tracefs" \notin lost => tracefs = "tool"
  /\ pc \in Traced \ {"start", "loop"} /\ "alarm" \notin lost =>
       (alarm <=> pc \in {"set", "asleep", "restore"})

\* The devices setRuntimeSuspend changes, and their state afterwards
Changed == {d \in Devices : opt.rs # "none" /\ found[d] = RsTarget}
RuntimeInv ==
  pc \notin Ended =>
    IF pc = "begin" /\ n = 1 THEN power = found /\ rslist = {}
    ELSE /\ rslist = Changed
         /\ \A d \in Devices \ stuck :
              power[d] = IF pc # "exit" /\ d \in Changed THEN RsValue ELSE found[d]
         /\ pc # "exit" => \A d \in stuck : power[d] = found[d]

\* -maxfail: no test begins after that many have failed in a row.
FailInv ==
  ~opt.skiphtml => streak = failcnt /\ (MaxFail > 0 /\ pc \in Busy => streak < MaxFail)

\* The first k marks of this test
Marks(k) ==
  [i \in 1..k |-> [test |-> n, suspend |-> (i + 1) \div 2,
                   mark |-> IF i % 2 = 1 THEN "start" ELSE "end"]]

\* The marks in the buffer by the place in the code: all of this test, since
\* initFtrace has emptied it, as long as no write of the trace has failed
Sound == {"tracing_on", "trace", "trace_marker"} \cap lost = {}
TraceInv ==
  Sound =>
    /\ pc = "start" => trace = Marks(0)
    /\ pc = "loop" => trace = Marks(2 * count - 2)
    /\ pc \in Looping \ {"loop"} => trace = Marks(2 * count - 1)
    /\ pc = "capture" => trace = Marks(2 * count)
    /\ pc = "process" => ftrace = Marks(2 * count)

CountInv ==
  /\ pc \in Looping => count <= opt.exec
  /\ pc \in {"wifi", "capture", "process"} => count = opt.exec

IInv ==
  /\ TypeOK /\ Kept /\ KnobsInv /\ TracerInv /\ RuntimeInv /\ FailInv
  /\ TraceInv /\ CountInv

\* What a tool that is through with its tests has changed for good, whatever
\* happened to the tests: the trace files initFtrace configures, which nothing
\* puts back, a mode testVal found no value of, and what a failed write left
\* behind in the last test.  All else is as it was found.
LeftBehind ==
  {d \in Devices : power[d] # found[d]} \cup {k \in Knobs : setting[k] # "own"}
  \cup {f \in {"alarm"} : alarm} \cup {f \in {"tracing_on"} : tracing}
  \cup {f \in {"kprobes"} : probes} \cup {f \in {"tracefs"} : tracefs # "own"}
PutBack ==
  pc = "exit" =>
    LeftBehind \subseteq stuck \cup lost \cup {"tracefs"} \cup {k \in Knobs : Unread(k)}

\* The machine suspends with the trace on and configured, an alarm to wake it
\* and runtime suspend as asked for, unless a write of that very file failed
\* unnoticed, and in the mode asked for.  The debug settings are in force in
\* the first suspend of every test and in no other: restoreall takes them back.
Prepared ==
  pc = "asleep" =>
    /\ tracing \/ "tracing_on" \in lost
    /\ probes \/ "kprobes" \in lost
    /\ tracefs = "tool" \/ "tracefs" \in lost
    /\ alarm \/ "alarm" \in lost
    /\ opt.rs # "none" => \A d \in Devices \ stuck : power[d] = RsValue
    /\ "mode" \in opt.knobs => setting["mode"] = "tool"
    /\ "debug" \in opt.knobs => (setting["debug"] = "tool" <=> count = 1)

\* The trace file of a test has a SUSPEND START and a RESUME COMPLETE for
\* each of its suspends, in their order, and nothing of an earlier test, if
\* the writes to the trace and its switch were done.
WholeTrace == pc = "process" /\ Sound => ftrace = Marks(2 * opt.exec)

\* The process ends: the main thread does, and with it every monitor, which
\* the interpreter waits for.  Only an exception between start and stop
\* leaves a running monitor behind that nobody stops, and only a suspend whose
\* alarm could not be set may last for ever.
Over == pc = "killed" \/ (pc \in {"exit", "raised"} /\ \A t \in 1..Tests : monitor[t] = "none")
Stranded == pc = "raised" /\ monitor[n] = "running"
ProcessEnds == <>(Over \/ Stranded) \/ <>[]Unwoken

=============================================================================
