# A verification project for pm-graph

pm-graph measures how Linux machines suspend, resume and boot. This directory
holds TLA+ modules translated from its Python source, TLC configurations that
model-check them on small instances, and TLAPS proofs of the properties that
matter most for all instances. `PROJECT.json` lists the runs with their
mutants, the theorems, the hazards in the code with the line where each one
bites, and for every definition the source lines it stands for. Paths below
are relative to `src/`.

How to use it, from this directory:

    tlc -config StressRun.cfg MCStressRun.tla     # any cfg with its MC module
    tlapm StressBootProofs.tla                    # any proof module

A definition named `X_Something` next to a definition `X` is a mutant: `X` with
a plausible bug put in. Each property is broken by the mutant that
`PROJECT.json` names for it; no specification uses one.

## 1. The system

Four programs share a library.

* **sleepgraph.py** runs on the machine under test: it sets up the kernel's
  tracer, suspends the machine, collects the trace, analyses it and draws a
  timeline.
* **bootgraph.py** does the same for a boot, from the kernel log or by rebooting
  with tracing turned on. It inherits from sleepgraph.
* **stresstest.py** runs on a server: it builds and installs kernels on lab
  machines and runs thousands of sleepgraph iterations on them over ssh.
* **stressreport.py** turns the results into summaries, spreadsheets on Google
  Drive and a cache of past results.

| component | source | state it keeps | operations | interacts with |
|---|---|---|---|---|
| asynchronous commands | lib/parallel.py `AsyncProcess` | child, monitor thread, `complete`, `terminated`, start time | runcmd, runcmdasync, processMonitor, terminate | every remote command goes through one |
| command pool | lib/parallel.py `MultiProcess` | class-level pending, active, complete, rmq | run, emptytrash | genHtml (stressreport), spawnMachineCmds (stresstest) |
| instance slots | lib/parallel.py `permission_to_run` | locked files in /tmp | wait, take, end | stressreport -maxproc |
| Drive access | lib/googleapi.py | drive, `gdriveids`, lock file | mkdir, find, backup, delete, upload, spreadsheets | stressreport, tools/googledrive.py; several processes |
| remote machine | lib/remotemachine.py | grub files and services of the machine, reservation | sshcmd, scp, ping, bootsetup, bootclean, restart_or_die, reboot_or_die, die | stresstest |
| test run | stresstest.py `pm_graph`, `run` | counters, output files, data collection | reserve, set up, test, copy, regenerate, restart, release | remote machine, sleepgraph on it |
| multi-test | stresstest.py `pm_graph_multi(_download)` | reservation, remote tests | start, download | machine list |
| machine list | stresstest.py `runStressCmd` | a text file with a flag for each machine | online, install, ready, run, reset | spawns one stresstest for each machine |
| kernel bisection | stresstest.py `kernelBisect`, lib/kernel.py | git's bisection, verdicts | build, install, boot, ktest, step | remote machine |
| live test | sleepgraph.py `main`, `runTest`, `executeSuspend`, `SystemValues` | kernel settings, what is kept of them, tracer, alarm, process monitor | initFtrace, start, suspend, restoreall, stop, setRuntimeSuspend | kernel |
| trace analysis | sleepgraph.py `Data`, `parseTraceLog`, `parseKernelLog`, `FTraceCallGraph` | phases, devices, call graphs | parse, fix, trim | log files |
| timeline layout | sleepgraph.py `Timeline` | rows, heights | getPhaseRows, getDeviceRows | html of sleepgraph and bootgraph |
| boot test | bootgraph.py | crontab, grub file, both with a backup | updateCron, updateGrub, analysis | the boot that follows |
| report data | stressreport.py | test cache, data cache, trash, Drive sheets | genHtml, update_cache, update_data_cache, empty_trash | pool, slots, Drive, children |
| network repair | tools/netfix.py | state of a network device | check, on, off, reset | executeSuspend |
| the rest | lib/bugzilla.py, lib/argconfig.py, lib/common.py, tools/*, scripts, patches | none that is shared | | |

**What is hard.** *Threads*: the monitor of an asynchronous command works on
the fields of an object that is reused; the process monitor of sleepgraph
outlives `stop`. *Processes*: instances of stressreport share lock files, the
drive and caches; commands of stresstest share the machine list. *Failure*:
every ssh command may fail, time out, or take effect after its time-out; the
code looks at few of the results. *Restarts*: a machine is reset in the middle
of a run, and must not be tested before it is set up again. *Partial work*:
each of the three programs that change a machine (bootsetup, bootgraph,
sleepgraph) keeps a copy of what it found, and must neither lose it nor take
its own value for it. *Limits*: `-count`, `-failmax`, `-maxfail`, `-maxproc`,
retries. *Endings*: loops with `continue` that must not go on for ever.

**What makes each part correct.**

* asynchronous commands: a run is judged after its child has gone, killed only
  by its own monitor, and a killed one is reported as killed;
* pool: slots respected, nothing lost or run twice, an exact list of failures,
  a return;
* slots: at most the largest `-maxproc` run, and the dead block nobody;
* drive: no folder twice, a truthful cache, a call that ends;
* remote machine: its own grub file survives and comes back;
* test run: only a prepared machine is tested, limits hold, nothing stays
  reserved, the command ends;
* live test: prepared suspends, whole traces, the settings put back that the
  tool has kept;
* layout: no overlap, packed rows, an end;
* machine list: no flag is lost or made up, one test for each machine;
* bisection: a verdict is about the kernel of its round, the right commit is
  blamed, the bisection ends;
* trace analysis: phases tile the test, device calls and times are those of the
  kernel, verdicts are right, call graphs are trees, also with lost lines;
* report data: no tarball is deleted before its tests are safe, what was sorted
  can be found, no row of the cache is lost, figures count what the tests did;
* boot test: the own grub file and crontab survive and come back, and the test
  that was asked for is made;
* network repair: a device is repaired with no more than it needs, nothing is
  left stopped or unloaded, the exit code is right.

## 2. Modules

| module | models | run | proofs |
|---|---|---|---|
| AsyncProcess | one object, its caller, all its monitors and children | `async` | CommandProofs |
| TaskPool | what `MultiProcess.run` promises | (as `PromiseKept`) | |
| MultiProcess | the run loop, its lists, one monitor for each command | `multiprocess` | MultiProcessProofs |
| RunSlots | instances that wait for a lock file | `report` | StressReportProofs |
| MultiTest | what stressreport reads from and says of one multitest | `report` | |
| StressReport | instances of stressreport on one web folder; extends RunSlots and MultiTest | `report` | StressReportProofs |
| GoogleDrive | `gdrive_mkdir` by several processes with lock, cache and retry | `gdrive` | GoogleDriveProofs |
| StressRun | the run command on one machine | `stress_run` | StressBootProofs |
| BootSetup | the commands of bootsetup and bootclean on the grub file | `stress_run` | StressBootProofs |
| StressBoot | StressRun composed with BootSetup | `stress_run` | StressBootProofs |
| MachineList | the commands of stresstest on one list of machines | `machine_list` | CommandProofs |
| KernelBisect | the bisection: git, builds, the target, verdicts | `kernel_bisect` | TargetProofs |
| SleepgraphRun | a live test of sleepgraph | `sleepgraph_run` | SleepgraphRunProofs |
| KernelTrace | what a kernel writes during suspends (external) | `trace` | |
| PhaseData | the class `Data`: phases, devices, their repair | `trace` | |
| CallGraph | the class `FTraceCallGraph` | `trace` | |
| TraceLog | `parseTraceLog` line by line, verdict, removal of frozen time | `trace` | |
| KernelLog | `loadKernelLog`, `parseKernelLog`; extends TraceLog | `trace` | |
| TimelineRows | the layout of a timeline | `timeline_rows` | TimelineProofs |
| BootGraph | bootgraph -reboot and -cronjob | `bootgraph` | TimelineProofs |
| NetFix | the commands of netfix on two devices | `netfix` | TargetProofs |

Each `MC<module>` instantiates a module for TLC. Theorems are in modules of
their own that EXTEND the modules they are about.

### AsyncProcess

`caller` is the thread that called runcmd (or runcmdasync and then polls
`complete`); `mon[r]` is the monitor thread of run `r`; `child[r]` its child.
`self.process` is `child[run]`, whichever monitor looks at it: that is why an
old monitor can see, time and kill a newer child, and why the model keeps all
of them. `Reset` and `Spawn` are the assignments before and the Popen in
runcmd; `RunReturns` is the end of the pipe plus `wait`; `MonPoll`, `MonPing`,
`MonKill`, `MonMark`, `MonDrain` are the points of processMonitor and terminate
between which other threads get in. The ping is there for objects that have a
machine. A child may end at any time or never.

### MultiProcess and TaskPool

`pending`, `active`, `complete` and `rmq` are the class attributes; the pool of
commands that `genHtml` builds, and the second pool it builds for the commands
that were terminated, are `CreatePool`. The loop is cut where it iterates over
a list: `ScanActive` takes one active command a step, because monitors change
flags between them; `EmptyActive` and `EmptyPending` are emptytrash. TaskPool
has no lists: commands are waiting, running, terminated or ok, at most `Slots`
of them run, and the call returns the terminated ones. `Promise` is the
refinement mapping, `PromiseKept` the claim.

### RunSlots

`idx` is the file an instance tries next, `tries` how often it found all of
them taken and slept, `held` the locks. An instance ends any way it likes, dead ones
included: the kernel drops the lock. Every instance has its own count, as each
is started with its own `-maxproc`.

### MultiTest and StressReport

A multitest on the disk is its tests, each with an html and a dmesg file that
are missing, cut or good, and its summary files. MultiTest holds the pure part
as operators: `data_from_test` (html first or log first), `pm_graph_report`
with the counts, medians, issues and devices it writes, and `info`, which reads
them back as the overview does. StressReport has an action for each stretch of
main that other instances can get in between: unpack and find, the test cache
read and then appended to, timelines, the copy into the web folder (test by
test, multitest after multitest, those of one in any order, as a directory lists
them; a crash stops it anywhere, `Crash`; a multitest whose folder cannot
be made is skipped with a warning, `Skip`), the links by kernel, rc and machine,
reports, the summary, and the four steps of update_data_cache, where the lock
goes away when its file object is rebound. The instance waits for its slot with
the actions of RunSlots. Children of `MultiProcess` only write the html of one
test each, so that they are part of `Timelines`.

### GoogleDrive

`lockfile` is what the name /tmp/googleapi.lock stands for and `fd` what a
process has open, which is not the same once the file has been removed.
A folder is looked up with one call and created with another; a call may raise,
after which it is repeated, and a create may be done although its call raised
(`LostReply`). A process may die anywhere. The drive itself, and the death, are
external. `torn` and `lost` remember the two things that break the lock: an
owner removed the file that another process had opened by then, or a create was
done whose reply was lost.

### StressRun

One action for each place in `pm_graph` and the command around it where a
remote call can go wrong: `Verify`, `Host`, `Prepare`, the loop test
(`MoreToDo`), the kernel version, the test itself, the copy of the output and
its repetition, the check of the files, their regeneration, the judgement, the
sync. Each may lead to `restart_or_die`, which is a subroutine: `CallRestart`
keeps the place to return to in `ret`. `Die` stops the data collection,
releases the machine and exits. The files of an iteration are a set; `found` is
what pm_graph last saw of them.

### MachineList

`file` is the flag each machine has in the list, `stored` the same as last
written: they differ while the file is open for writing and so empty
(`Truncate`, `Store`). Each command is a process with a copy of the lines it
read (`lines`), the line it visits (`pos`) and whether it changed one. `online`
makes a second pass after a power cycle; `install` makes one after its children
and looks up in `machlist` and `status` what the first pass and the children
left there. A child installs the kernel or not, and whatever it did its end may
be read as good: only a time-out and the words FAILURE and ERROR are not. `installed`
remembers on which machines a kernel was installed, `passed` on which a child
was read as good; `tests` counts the spawned
runs, the rest of which is StressRun. Lines are told apart by their place: a
list that is edited by hand while a command works is not modelled. `raced` and
`overlap` are history: another command was at work while one wrote, one was
killed while it wrote or read a half-written file; two run commands at once.

### BootSetup and StressBoot

`grub`, `saved` and `menu` say whose file is in place, whose file is the copy
and whose the boot menu was made from. Each command has its effect, or fails
without one if it is in `MayFail`, or times out and comes later if it is in
`MayBeLate`. StressBoot takes the steps of StressRun, and wherever the code
calls bootsetup or bootclean StressRun waits until the steps of that function
are done. The machine starts as any earlier run may have left it. `smooth` is
history: no command of bootsetup went wrong so far.

### KernelBisect

Commits are numbers in a line and one of them is the culprit. The host side is
`Tool`, one action for each step of a round; the target goes down, boots or
hangs by itself (`Target`), which is how the wait for a boot can see the kernel
that is about to go. It also restarts by itself, or because somebody does what
the prompts of the tool ask for (`Restart`). A kernel is known to the target by
the name of its round:
`tmp` and `disk` say which commit is behind a name, and `left` what an earlier
bisection left there. Three are history: `about`, the commit whose kernel the
last verdict is about; `strayed`, the target restarted in this round behind the
program's back; `guess`, a verdict was about no kernel, or not about that of its
round.

### KernelTrace, PhaseData, CallGraph, TraceLog, KernelLog

KernelTrace writes the lines of one or two suspends, with failures in each
phase, s2idle rounds, threads, probes, function graphs and process samples.
`Init` of TraceLog picks what is recorded and which lines are lost, and whether
lines of one time stamp change places; `Parse` is one line, with the branches
of parseTraceLog for markers, suspend_resume events, callbacks, probes, graph
lines and samples. After the last line come the call graphs, the verdict and
trimming (`processData`). `terr` is what is said of each test, `error` whether
the result of the run has an error in it: not the same for a kernel log, whose
verdict is printed only. `head` are the lines of a test in the header of the
file that can fail it: a wifi that timed out, a mode that could not be entered.
PhaseData and CallGraph are the two classes as values:
operators that take and return one. KernelLog does the same from the console
messages for kernels without the events. Names are kept in place of the text of
a line; how a line is split by its regular expression is not modelled.

### SleepgraphRun

`setting` says who wrote each kernel file last, `cfgdef` what testVal keeps of
it. Two files stand for two kinds: those set once for a test and those set for
each suspend. Runtime suspend is a power setting for each device and `rslist`.
The trace is the sequence of its marks with the number of their test, and
`tracefs` stands for what initFtrace writes and nothing puts back: the clock, the
tracer and its options, depth and filters, the buffer size and the power events.
Each call of setVal and fsetVal may fail without an effect and without anybody
looking (`Lose`, `Sticks`): `lost` names the files this happened to, `stuck` the
devices, and `losses` counts up to `MaxLost`. testVal keeps nothing of a file in
which it finds no value (`Unread`), and writes it all the same.
`Raise` is an exception at any place where the tool does not catch it, `Signal`
is signalHandler. An exception within a test is caught by nothing on the way,
so it ends the tool with the settings as they are; the model has that, and
promises nothing of it but that the process ends.

### TimelineRows

`Init` is any input of getPhaseRows with any order the two sort keys allow,
ties in any order. `Try` is one turn of the inner loop, `NextRow` the end of
the loop over the blocks.

### BootGraph

`grub`, `temp` and `menu` are the grub file, its copy and what the boot menu was
made from; `cron` and `back` the crontab and its backup. The user's process
(`pc`) and the job that cron starts after the boot (`job`) are two processes
that may run at once. `Kill` is a kill or a ^C, which `except Exception` does
not catch; `Restart` a shutdown or a power failure. `steady`, `killed`, `regrub`
and `recron` are history.

### NetFix

`todo` is the list of commands the methods called have yet to run, so that
ResetSoft, ResetHard and On read like the bodies of the methods. `cond` says
what it takes to get a device to work: nothing, a fresh NetworkManager, a
reload of the driver or a rebind, or it cannot be helped. NetworkManager connects
by itself (`Autoconnect`) and drops anything when it is restarted (`Drop`). The
waits of the methods have no effect: a device is ready as soon as its driver is
loaded, and a command on a device that is not listed yet counts as a fault. A
`systemctl start` of NetworkManager does not fail.

## 3. Runs

| run | question | bounds, and why they are enough | distinct states |
|---|---|---|---|
| `async` | can a left-over monitor hurt a later run; does every run end | three runs of one object: a monitor can be two runs behind | 4 402 |
| `multiprocess` | exact failures, return, refinement of TaskPool | three commands on two slots: one waits, two end in any order, and any of them are retried | 11 461 |
| `report` | do instances keep `-maxproc`, tarballs, rows and links; are the figures true | three instances with counts 1, 2, 2, each of which may sleep and try all files again; three launches, one crash, one skipped multitest; four tarballs: two with parts of one multitest, one with a hang and a slow test, one broken | 342 667 |
| `gdrive` | does the lock work as long as its file is not torn from anybody; are caches true; do calls end | two processes, two calls each, paths `a` and `b/a` (one name at two levels), one retry, lost replies, deaths; three folders | 243 413 |
| `stress_run` | is only a prepared machine tested; clean end; is the grub file safe; does the command end | one mode, three iterations, two fails, with and without a reset command; three pings with a reset after each but the first; install and move may fail, update-grub may be late; any grub state an earlier run leaves. A second mode starts like the first, from a machine after a reboot | 834 838 |
| `machine_list` | are flags kept, one test each | two machines, two processes, two commands of any kind started at any time over any earlier list: each pair of commands overlaps in every way, and the second finds what the first left | 105 564 |
| `kernel_bisect` | is the right commit blamed; what does no answer mean; does it end | five commits, three rounds, any culprit, eight command lines, with and without a kernel left by an earlier bisection, a target that restarts at any time | 1 519 686 |
| `sleepgraph_run` | prepared suspends, whole traces, what is put back, the end | two tests (a value is kept across tests), one or two suspends, one device, all options, one write that fails anywhere. `-maxfail` 2 ends no run of two tests early; the proofs hold for any number | 2 189 504 |
| `trace` | phases, verdicts, calls, times, graphs, with lost and exchanged lines | suspends that fail in each phase or by the header, up to three s2idle rounds, two tests in one trace, two devices with nested calls and locks in two threads, nested probes; all pairs of lost lines in the short logs, of graph and callback lines and of probe lines in the long ones, and each single line | 482 581 |
| `timeline_rows` | no overlap, end | three blocks over four points in time with all orders: touching, equal, empty and nested blocks occur, and rows of one, two and three | 365 808 |
| `bootgraph` | do grub file and crontab survive; is the boot test made and nothing left | three calls of -reboot, two faults, kills or power failures, two more boots: a call on what an interrupted one left, and a third on that | 63 852 |
| `netfix` | repaired, nothing left off, true exit code | every command, every condition of two devices, with and without NetworkManager and configuration, one fault | 323 140 |

`CHECK_DEADLOCK FALSE` stands where the program ends. Numbers that count
retries or pings are constants in the modules and small in the runs; the
proofs hold for all of them.

Every run passes. The history variables named above mark the situations the
code does not control or does not survive; a property that has one as its
condition says that this is the only way to break it.

### What the models show about the code

These are consequences of the code as it is. Each was found or confirmed while
its module was checked; a property excludes it by a named condition, or the
model has it and promises nothing.

*Library and stresstest*

* lib/googleapi.py:54: the lock file is removed by its name after it was closed.
  The next owner may then hold a file without a name, a third process locks a
  new one, and both make the folder. `LockHoldsOnce` holds until the first time
  this happens (`torn`), for any number of processes.
* lib/googleapi.py: the id cache of a process is told of nothing that another
  process does. `gdrive_backup` renames first and moves then (286): in between
  the renamed file is in the folder, and with an id cached earlier a second
  backup renames what the first one put away. `gdrive_delete` looks up by folder
  id and forgets by path (271).
* stresstest.py:755: `found` is older than the files that were regenerated. An
  iteration that has all of its files by then is counted a crash.
* stresstest.py:1070: the list is split at its newlines and written back without
  the last element: when the file has no newline at its end, that element is the
  last machine.
* wait_for_boot may see the old kernel because the target has not gone down
  yet; with -bisecthangbad a good commit is then graded bad, which is not the
  hang the help (stresstest.py:1162) speaks of.
* The results of upload and dpkg are ignored (stresstest.py:228): a kernel of the
  same name that an earlier bisection left passes every check of the round. In
  get_packages_deb `bisect1` matches `bisect10` as well.
* kernelBuild removes a source it cloned before move_packages looks for the packages in it.
* BootSetup: when the backup is made and the install fails, every later bootsetup
  sees the copy and returns: the machine is not set up until a bootclean.
* pm_graph_multi neither reserves nor releases the machine, and its installtools
  removes pm-graph-test on it without a look at whether sleepgraph is running.
* An unreadable kernel version counts toward `-failmax` (stresstest.py:664), the
  help (1152) speaks of sleepgraph fails.
* `getPhaseRows` is described as finding the smallest number of rows; filling
  by length can need one more: [0,3] [2,4] [3,5] [4,7] fit in two rows and get
  three. `Packed` is what the code does promise.
* With `-skiphtml` a test is never counted as failed, so that `-maxfail`
  ("Abort a -multi run after n consecutive fails") has no effect
  (sleepgraph.py:6356): `FailInv` of SleepgraphRun has that condition.
* cleanupFtrace (sleepgraph.py:830) turns tracing and probes off and sets the
  buffer size to 1024; the trace clock, tracer, filters, options, depth and power
  events stay as the tool set them (859-928). A mode file in which testVal finds
  no value is written and not put back (1236-1243). `PutBack` says that with
  failed writes this is all.
* setVal returns False when a write fails (800-810) and no caller looks: a
  suspend goes on with tracing off, without its alarm, or with devices whose
  runtime suspend was not set (1447, 1460). `Prepared` and `WholeTrace` name the file.
* The second suspend of `-x2` runs without the debug settings: `restoreall`
  took them back after the first (sleepgraph.py:5638), which is why `Prepared`
  has `count = 1`.
* An exception between `start` and `stop` leaves the process monitor running
  and the process with it (sleepgraph.py:3310): `Stranded` in `ProcessEnds`.
* lib/parallel.py:151: `terminate` kills and sets `terminated` after that;
  runcmd waits for the pipe of that child and may return in between. sshcmd then
  hands back partial output and not "SSH TIMEOUT". This is why `VerdictTrue`
  claims `KilledIsReported` of callers that poll `complete` only.
* lib/remotemachine.py:231: nobody looks at the result of the backup; if it fails
  and the copy over it works, the machine's own grub file is gone. This is why
  `backup` is not in `MayFail`; all other commands may fail without harm.
* Commands on one machine list lose each other's flags when they overlap, and
  two run commands may both start a test for a machine (stresstest.py:1006,
  1069): `KeepsFlags` and `OneTest` say that this is the only way.
* Uninstalling a kernel takes no flag away: `R` then stands on a machine without it.
* An install child that dies of an exception (`os.listdir` in lib/kernel.py:167
  on a package folder that is not there) or of a signal prints neither FAILURE
  nor ERROR and gets the flag `I` with nothing installed (stresstest.py:880-889).
* ktest is run again, after the user or a reset has brought the target back,
  without a look at its kernel (stresstest.py:398-415): a kernel other than the
  one of the round may be graded. `Blame` and `OwnKernel` have this as `strayed`.
* A bootsetup copy that takes effect after its time-out and after a bootclean
  puts the tester's file back; `Swapped` assumes that no copy is late.

*Trace analysis*

* In a trace of two tests (-x2) that lost RESUME COMPLETE of the first,
  `devicegroups` of that test stays a number and a later loop over it raises.
* When SUSPEND START and the first dpm_prepare are both lost, tKernSus is the
  time of the end marker; with two lost lines tResumed may be before tSuspended,
  and without the end of dpm_suspend_noirq suspend_machine starts at -1. `InOrder`
  claims the order for one lost line.
* isTraceEventOutsideDeviceCalls never excludes a call that is under way.
* loadKernelLog starts a new test at "PM: Syncing filesystems" and at
  "PM: ... entry".
* A passing freeze test whose kernel log has no device call after the thaw is
  judged failed; a log cut before "Restarting tasks" leaves an end of 0; a device
  met twice in a phase gets its end from the second call.
* What parseKernelLog says of a failed test is printed and dropped: processData
  leaves the error empty and runTest returns 0 (4268-4275, 6250, 6362), so that
  every test analysed from dmesg passes.
* The lines of a header belong to tests by their number; when the start marker
  of the first test is lost, the second is judged by the header of the first.
* slice() cuts the calls of a device out of one graph for many and is not
  followed by a repair (2671-2690): with the lock of the device and an unlock of
  its calls both missing, what is drawn is no tree (`Torn`).
* A lost line of a process sample shifts the samples after it; a thread that
  is joined over two tests ends where the second saw it last, which may be before
  a call that was under way when the first ended (1799-1815); a return at depth 0 whose call
  was lost becomes a leaf after its own end.

*stressreport*

* A multitest whose first test left no data is not in the overview at all
  (stressreport.py:1905, 315), however many of its tests have.
* update_data_cache: the open for writing empties the file, the lock of the
  reader goes with its file object, and the buffer is written after the unlock.
  Two updates at once lose rows; a kill in between loses all (`disturbed`).
* update_cache reads and then appends without a lock: the same line twice.
* A multitest whose folder cannot be made, because its kernel's folder is a file,
  the disk is full, or another instance makes it between the test and makedirs,
  is skipped (2452-2461): it is neither copied, listed nor linked, and with -rmtar
  its tarball is deleted. `TarballSafe` and `WorkDone` hold for all others.
* With a shared -tempdisk an instance removes the folder another one unpacked
  into, which with -rmtar then deletes a tarball of which nothing was kept.
  -rmtar also deletes what could not be categorized.
* The median of one or two passing tests is read back as the least. NETLOST
  counts as a line that "failed" for the health of a test.
* A summary.html that is read while it is written ends the instance.

*bootgraph and netfix*

* A ^C or a kill during update-grub leaves the test file in the place of the grub
  file. The next -reboot moves that one over the original that was put away
  (`regrub`).
* When -reboot is called again before the job of the first call ran, the job line
  goes into the backup: the job then runs at every boot, for ever (`recron`).
  When it follows an interrupted updateCron the user's crontab is lost.
* When the menu was made and the crontab fails, the parameters stay in the menu.
  The job reads its arguments (-func needs tracefs) before it restores anything.
* netfix enable reports device_failed or connect_failed and exits with 0. With
  two devices, one that cannot be reset ends the tool before the result of the
  other is printed, and an ONLINE that was printed may be stale: the reset of the
  second device restarts NetworkManager for the first. `StatusTrue` claims it
  for the last one, and says nothing of enable and disable. The waits for a
  device take a missing device for a ready one.

## 4. Fairness

Fairness is weak and is assumed of nothing but threads that are ready to run.

* AsyncProcess: the caller, every monitor, and the passing of time. The child
  gets none: it may hang for ever, and the timeout is what ends it.
* MultiProcess: the loop and the monitors, because a command that hangs is
  killed by its timeout, which AsyncProcess shows.
* RunSlots and StressReport: a waiting instance goes on trying. Nothing says when a running one
  ends; the wait ends all the same, by a slot or by its bound.
* GoogleDrive: a process goes on with its call (the lock is asked for
  without blocking, a bounded number of times). The drive may raise as often as it likes.
* StressRun and StressBoot: every remote call returns, because sshcmd and scp have timeouts;
  nothing is assumed of what it returns, nor of when `-duration` is over.
* KernelBisect: the host goes on, because all its waits have timeouts, and a target
  that was told to reboot goes down while a build runs. Nothing is assumed of
  whether it boots.
* BootGraph: a process that was started goes on, and a machine that is down boots.
* SleepgraphRun: every call of the main thread returns (the alarm ends the
  suspend) and a sample of a stopped monitor ends.
* TimelineRows: the loop runs.
* MachineList, the trace analysis and NetFix are checked for safety only.

## 5. Proofs

Every theorem holds for all values of the constants that satisfy the named
assumption of its module, and follows the same argument: an inductive invariant
`IInv` of the module, checked with TLC as well, `Init => IInv`,
`IInv /\ [Next]_vars => IInv'` by one step for each action, and
`IInv => Property`. The invariants stand at the end of the modules they are
about; the proofs are in eight modules, some of which hold the proofs of two
components.

* **MultiProcessProofs**, for any finite set of commands and any number of
  slots. `ListInv` says at which point of the loop which lists may overlap (the
  class keeps moved items in both lists until emptytrash), and `PoolInv` ties
  the items to their pool; without the former `active` could shrink while its
  child lives. Theorems: `SlotsRespected`, `NothingLost`, `ExactReturn`,
  `RetryAfterFailure`, and `Refinement`: every step is a step of TaskPool or a
  stutter.
* **StressReportProofs**, first about RunSlots, for any instances and counts. A
  running instance holds exactly one file below its own count, alone
  (`SlotOfOnesOwn`); `MaxProc` follows by an injection of the running instances
  into the files.
  Then about StressReport, for any instances, tarballs, folders and crashes.
  `SlotsKept` shows that every step of it is a step of RunSlots or a stutter, so
  that `ReportMaxProc` follows. `RowsInv` says that updates of the recorded rows
  that do not overlap come one at a time, and that each has read all the rows
  that were there: `RowsAreKept`. `UnpackInv`, `CopiesInv` and `HeldInv` follow
  a test from its tarball through the unpacked folder and the copies that are due
  to the web folder, or to the multitests that were skipped: `TarballsAreSafe`.
  It assumes `SameTests`, that two tarballs with a test of one name (the second
  it was started in) in one folder bring the same log; without that a later copy may write a bad log over a good one,
  which is what copy_tree is meant to do. The reading of summary files and
  the figures change no test; each of these actions has a lemma that says so
  (`Plain`).
  `WorkIsFound` has an invariant of its own, `FindInv`, that follows the
  multitests of a command line: with their timelines made they belong where they
  did (`Places`); after the copy each has its folder among those to list and its
  category noted; after update_cache its line is in the list, whether this
  instance appended it or read it there; after datasort its links are made; and
  nothing takes a line or a link away, so that all stays true whatever the
  others do or whoever crashes. A multitest that was skipped leaves the way and is
  in `skipped` from then on, which both theorems except. It assumes `SameMachine`: the category of a folder
  is that of the last multitest copied into it, the host is part of the path
  (stressreport.py:2455), and multitests of one host and kernel are taken to
  name one machine; of two that do not, one would get no link under its machine.
  `SumsInv` goes on from there: while the summary of a kernel is made, each
  multitest that was sorted under the kernel is still to be read, or is listed,
  or had no figures when it was read (`blank`, a ghost). `WorkIsDone` is both.
  `WorkSummed` speaks of what the writer of a summary saw: a summary file that
  another instance completes later is not in it, and need not be.
  `CountsAreTrue` rests on a fourth invariant, `FigInv`: every summary that can be
  read is one whole report (`IsReport`) on the tests that it names, so is the one
  an instance is about to write, what an instance works on is in the web folder or
  will be after its copies (`InWeb`), and each device of an overview is no slower
  on average than at its worst (`IsDevice`). `FigInv` is kept because a summary is
  emptied before it is written and is written whole; another instance
  that copies more tests meanwhile changes the folder, not what the summary says
  of the tests it was made of. That a report is right is the larger part
  of the proof and is about data alone: the loop over the tests is followed row
  by row (`ReadAll`: each row has the result of its test, all rows have one kernel
  and one mode from the first test that left data on), the three marked times are
  in their order whatever the number of tests that passed (`MarkedTimes`), the
  deductions of healthCheck end between 0 and 100 (`HealthPercent`), a sum is at
  most the count times the largest term (`SumBound`, a fold over a set), and
  overviews merge devices without losing that (`ListDevice`, a fold over a
  sequence). It needs nothing of the tests but what `IsTest` says: a file that is
  good names a kernel and a mode, which sleepgraph stamps into every log and
  requires of every html (sleepgraph.py:6404), and its times are natural numbers
  above zero.
  Filters and sorted lists are written as functions (`Among`, `Ascending`),
  because `SelectSeq` and `SortSeq` are opaque to the provers; that they give the
  elements asked for, in order, is `AmongElements` and `AscendingSeq`, by
  induction over the length and the number of elements before.
* **GoogleDriveProofs**, for any processes, calls, tries and retries. `OpenInv`
  ties open files to places; that there is always a file nobody has open is a
  pigeonhole argument. `OwnerInv`: until the file is torn, whoever has it open
  has the file of that name, and one process owns it. `FolderInv`: no folder
  appeared since its owner looked: `LockHolds`. `IdsInv` says of a process on its
  way that the folder it has reached has the path it has passed; it is proved
  with `PathOf` defined by recursion over the number of a folder, whose value is
  found by induction over the natural numbers (`PathOfIs`), and with the fact
  that a new folder changes no path (`PathStays`): `IdsAreTrue`. A path is assumed
  to be a sequence.
* **StressBootProofs**. For StressRun, with any limits, with and without a reset
  command: `Place` is where the code is or will return to from restart_or_die,
  so that the invariant is stated once for both. Theorems: `Ready`, `Clean`,
  `Bounded`. For the composition: every step is a step of StressRun or a stutter
  (`RunRefined`), so that those hold there as well; `SmoothInv` says where
  bootsetup is in a run without fault. Theorem: `Swapped`, under `Reliable`: the
  backup cannot fail silently and no copy is late. Both are needed, as the
  observations say.
* **SleepgraphRunProofs**, for any devices, tests and suspends. `Kept` is the
  core: what is kept is never the tool's own value although testVal runs again
  and again. Theorems: `Restored`, `SuspendsPrepared`, for any number of failed
  writes: each conjunct of the invariant excepts the file or device whose own
  write failed, and no other. The marks in the trace
  buffer and in the file are a function of the place in the code and of the count
  of suspends: `TraceComplete`.
* **CommandProofs**. About MachineList, for any processes, machines and commands:
  `CopyInv` ties the copy of a command to the file: a line it has visited is at
  most one step ahead, the others are as they were stored; `FileInv` says that a
  writer that nothing races is alone, `FoundInv` that the machines install has
  found are those the file still has online, `Earned` what is behind a flag: a
  child that was read as good is all that is behind an `I`. Theorems: `ListInductive`,
  `OneTestHolds`, and `FlagsKept`, the action property `KeepsFlags`.
  About AsyncProcess, for any number of runs of one object: the monitor of
  a run that is not the last is past its work. That is so when only a terminated
  run is repeated (all sshcmd does) or when the caller polls complete, which is
  the assumption `ReuseIsSafe`. Theorems: `AsyncInductive`, `JudgesRight`.
* **TargetProofs**. About KernelBisect, for any number of commits, rounds, resets
  and kernels on the target: `SearchInv` ties the commit under test to git's
  boundaries and the patches in the tree to the place, `HostInv` and `RebootInv`
  say that on a fresh target that has not restarted in the round (`strayed`) the
  kernel that answers is that of the round, and not the one that is about to go
  down. That a bisection without such a verdict blames the right commit does not
  need `strayed`: `TruthInv` is about the verdicts given. Theorems:
  `BisectInductive`, `BisectBlames`, `BisectNames`.
  About NetFix: `todo` is always the rest of the list its action began with
  (`TodoInv`); from what comes next follows what is stopped or unloaded
  (`AwayInv`), and what `on` has reached (`OnInv`). Theorems: `NetInductive`,
  `NetRepairs`, `NetComesBack`, `NetVerdict`.
* **TimelineProofs**. About TimelineRows, for any number of blocks at any integer
  times, in any order: `Separate` is stated with the comparison of the code
  (`Apart`), and that it implies `~Overlap` is a step of its own, which needs that
  blocks do not end before they start. Theorems: `RowsInductive`,
  `NeverOverlaps`. The proof uses no property of the sort order.
  About BootGraph, for any number of calls, faults and boots: where the file is
  follows from the place of the process unless one was killed; a backup is taken
  of a crontab without the job unless one was overwritten. Theorems:
  `GrubIsKept`, `CronIsKept`.

**Model-checked only.** All liveness properties (`EveryRunIsJudged`,
`RunReturns`, `WaitEnds`, `CallEnds`, `CommandEnds`, `BisectEnds`, `ProcessEnds`,
`LayoutEnds`, `RequestKept`): liveness under fairness and ENABLED are beyond the
prover. And the trace analysis (`PhasesTile`, `VerdictRight`, `CallsTrue`,
`TimesTrue`, `CallsNest`). What TraceLog reads is what the kernel prints in a run
of the constant `Logs` (`Script`), and what it makes of it is a chain of folds over
the whole log, each step of which relies on what was printed before, as that
each phase that begins also ends. Of lines in any order the statements are false,
as they are of the program; a proof would first need an inductive description
of the prefixes of every script with a line lost anywhere, and an induction
over it for each of the folds. TLC evaluates them for each log of the runs.

## 6. Not modelled

`PROJECT.json` lists each part with its reason. In short:

* **Formatting and reading of text**: html and css of sleepgraph, tables, mails
  and spreadsheets of stressreport, html and log parsing of bootgraph, the
  regular expressions that split a line, bug matching (lib/bugzilla.py), help and
  configuration files. A model would repeat the text of the code.
* **Straight lines of commands**: kernel build and install, pm_graph_multi and its
  download, the data server client, hwcheck, procmon, perftest, buggymon, logfix,
  the shell scripts. They keep no state between commands and run alone; what
  their failure does to others is in KernelBisect and MachineList.
* **Single calls of a service**: backup, delete, upload and spreadsheets on
  Google Drive, firmware and sysfs tables, wolon and woloff of netfix.
* **Outside the program**: kernel patches, presets, sample data, autotest wrappers.

What would come next: `gdrive_backup` and the publication of a sheet by several
instances, as an extension of GoogleDrive by files; the phases bootgraph reads
from a boot log, on top of PhaseData; and a grammar of the logs, for proofs about
the trace analysis.
