----------------------------- MODULE StressRun -----------------------------
(***************************************************************************)
(* The run command of stresstest.py: reserve a machine, test it in one     *)
(* mode after the other (pm_graph), reboot it in between, clean up and     *)
(* release it.  Whatever is done over the network may fail or time out;    *)
(* a machine that does not answer is restarted, or the command dies        *)
(* (restart_or_die, reboot_or_die and die of lib/remotemachine.py).        *)
(***************************************************************************)
EXTENDS Integers

CONSTANTS
  Modes,        \* the modes left to test when the command starts
  Count,        \* -count: iterations of sleepgraph per mode
  FailMax,      \* -failmax
  Pings,        \* pings restart_or_die waits for (30 in the code)
  ResetEvery,   \* the machine is reset again every so many of them (10)
  RebootPings   \* pings reboot_or_die waits for (15)

ASSUME StressRunAssumption ==
  /\ Modes \in Nat /\ Count \in Nat \ {0} /\ FailMax \in Nat \ {0}
  /\ Pings \in Nat /\ ResetEvery \in Nat \ {0} /\ RebootPings \in Nat

VARIABLES
  resetcmd,   \* whether -resetcmd is given
  pc,         \* the place in the code
  left,       \* the modes of modelist still to come
  i,          \* i of pm_graph: iterations done in this mode
  failcount,  \* failcount of pm_graph
  outres,     \* outres of pm_graph: go on with the next mode
  ret,        \* where restart_or_die returns to
  tries,      \* i of restart_or_die and of reboot_or_die
  rebooted,   \* rebooted of restart_or_die
  reserved,   \* the machine is reserved
  collecting, \* data collection was started and not stopped
  setup,      \* bootsetup was run since the machine was last reset or booted
  verified,   \* its kernel was checked since then
  ondisk,     \* output files of this iteration
  found,      \* found of pm_graph: the files it saw
  tests,      \* history: iterations of sleepgraph begun in this mode
  streak,     \* history: fails of sleepgraph since it passed last
  exit        \* how the command ended

run == <<left, outres>>
loop == <<i, failcount>>
wait == <<ret, tries, rebooted>>
machine == <<reserved, collecting, setup, verified>>
files == <<ondisk, found>>
history == <<tests, streak>>
vars == <<resetcmd, pc, run, loop, wait, machine, files, history, exit>>

Files == {"html", "dmesg", "ftrace", "result"}
Returns == {"host", "kfail", "copy", "recopy"}
PCs == Returns \cup {"reserve", "bootsetup", "mode", "verify", "prepare", "loop",
         "test", "files", "regen", "judge", "sync", "restart", "ping",
         "reboot", "bootping", "finish", "end"}

Flags ==
  /\ resetcmd \in BOOLEAN /\ outres \in BOOLEAN /\ rebooted \in BOOLEAN /\ reserved \in BOOLEAN
  /\ collecting \in BOOLEAN /\ setup \in BOOLEAN /\ verified \in BOOLEAN

Ranges ==
  /\ pc \in PCs /\ ret \in Returns /\ exit \in {"no", "refused", "died", "done"}
  /\ left \in 0..Modes /\ i \in 0..Count /\ failcount \in 0..FailMax
  /\ tries \in 0..(Pings + RebootPings)
  /\ tests \in Nat /\ streak \in Nat
  /\ ondisk \subseteq Files /\ found \subseteq Files

TypeOK == Flags /\ Ranges

Init ==
  /\ resetcmd \in BOOLEAN
  /\ pc = "reserve" /\ left = Modes /\ outres = TRUE
  /\ i = 0 /\ failcount = 0
  /\ ret = "host" /\ tries = 0 /\ rebooted = FALSE
  /\ reserved = FALSE /\ collecting = FALSE /\ setup = FALSE /\ verified = FALSE
  /\ ondisk = {} /\ found = {}
  /\ tests = 0 /\ streak = 0
  /\ exit = "no"

-----------------------------------------------------------------------------
(* lib/remotemachine.py                                                     *)

\* die: release the machine and leave
Die ==
  /\ pc' = "end" /\ exit' = "died"
  /\ reserved' = FALSE

\* restart_or_die is called and goes on at the given place.
CallRestart(label) ==
  /\ pc' = "restart" /\ ret' = label
  /\ UNCHANGED <<tries, rebooted>>

\* A serial file is passed wherever data is collected.
SerialOut == ret # "host"

\* Mutant: only the loop over sleepgraph hands on the serial file.
GiveUp_CopySilently ==
  /\ Die
  /\ collecting' = IF SerialOut /\ ret # "recopy" THEN FALSE ELSE collecting
  /\ UNCHANGED <<setup, verified, run, loop, wait, files, history>>

\* "Machine is dead": stop the collection and die
GiveUp ==
  /\ Die
  /\ collecting' = IF SerialOut THEN FALSE ELSE collecting
  /\ UNCHANGED <<setup, verified, run, loop, wait, files, history>>

\* reset_machine
Reset == setup' = FALSE /\ verified' = FALSE

\* restart_or_die up to its loop: wake the machine up if its network
\* addresses are known, or reset it
Restart ==
  /\ pc = "restart"
  /\ \/ ~resetcmd /\ GiveUp
     \/ /\ resetcmd
        /\ \/ rebooted' = FALSE /\ UNCHANGED <<setup, verified>>
           \/ rebooted' = TRUE /\ Reset
        /\ tries' = 0 /\ pc' = "ping"
        /\ UNCHANGED <<ret, run, loop, reserved, collecting, files, history, exit>>

PingAnswered ==
  /\ pc = "ping"
  /\ pc' = ret
  /\ setup' = (setup \/ rebooted)   \* bootsetup and wifisetup
  /\ UNCHANGED <<run, loop, wait, reserved, collecting, verified, files, history, exit>>

\* Mutant: a second reset is not remembered.
PingMissed_Forget ==
  /\ pc = "ping"
  /\ \/ tries >= Pings /\ GiveUp
     \/ /\ tries < Pings
        /\ tries' = tries + 1
        /\ IF tries # 0 /\ tries % ResetEvery = 0
           THEN Reset /\ UNCHANGED rebooted
           ELSE UNCHANGED <<rebooted, setup, verified>>
        /\ UNCHANGED <<pc, ret, run, loop, reserved, collecting, files, history, exit>>

PingMissed ==
  /\ pc = "ping"
  /\ \/ tries >= Pings /\ GiveUp
     \/ /\ tries < Pings
        /\ tries' = tries + 1
        /\ IF tries # 0 /\ tries % ResetEvery = 0
           THEN Reset /\ rebooted' = TRUE
           ELSE UNCHANGED <<rebooted, setup, verified>>
        /\ UNCHANGED <<pc, ret, run, loop, reserved, collecting, files, history, exit>>

\* reboot_or_die up to its loop: the shutdown may never have been received
Reboot ==
  /\ pc = "reboot"
  /\ tries' = 0 /\ pc' = "bootping"
  /\ setup' = FALSE /\ verified' = FALSE
  /\ UNCHANGED <<run, loop, ret, rebooted, reserved, collecting, files, history, exit>>

BootPing ==
  /\ pc = "bootping"
  /\ \/ /\ setup' = TRUE /\ pc' = "mode"
        /\ UNCHANGED <<tries, reserved, exit>>
     \/ /\ tries >= RebootPings /\ Die
        /\ UNCHANGED <<tries, setup>>
     \/ /\ tries < RebootPings /\ tries' = tries + 1
        /\ UNCHANGED <<pc, setup, reserved, exit>>
  /\ UNCHANGED <<run, loop, ret, rebooted, collecting, verified, files, history>>

-----------------------------------------------------------------------------
(* main of stresstest.py                                                    *)

Reserve ==
  /\ pc = "reserve"
  /\ \/ reserved' = TRUE /\ pc' = "bootsetup" /\ UNCHANGED exit
     \/ exit' = "refused" /\ pc' = "end" /\ UNCHANGED reserved
  /\ UNCHANGED <<run, loop, wait, collecting, setup, verified, files, history>>

BootSetup ==
  /\ pc = "bootsetup"
  /\ setup' = TRUE /\ pc' = "mode"
  /\ UNCHANGED <<run, loop, wait, reserved, collecting, verified, files, history, exit>>

\* The next mode, unless the host is blacklisted for it
NextMode ==
  /\ pc = "mode"
  /\ IF left = 0 THEN pc' = "finish" /\ UNCHANGED run
     ELSE /\ left' = left - 1 /\ UNCHANGED outres
          /\ pc' \in {"mode", "verify"}
  /\ UNCHANGED <<loop, wait, machine, files, history, exit>>

\* bootclean and release_machine
Finish ==
  /\ pc = "finish"
  /\ reserved' = FALSE /\ setup' = FALSE
  /\ exit' = "done" /\ pc' = "end"
  /\ UNCHANGED <<run, loop, wait, collecting, verified, files, history>>

-----------------------------------------------------------------------------
(* pm_graph                                                                 *)

\* Before anything else: does the machine answer?
Verify ==
  /\ pc = "verify"
  /\ \/ pc' = "host" /\ UNCHANGED wait
     \/ CallRestart("host")
  /\ UNCHANGED <<run, loop, machine, files, history, exit>>

\* Is it the right host with the right kernel, and does it support the mode?
Host ==
  /\ pc = "host"
  /\ \/ Die /\ UNCHANGED verified
     \/ /\ verified' = TRUE /\ pc' \in {"prepare", "reboot"}
        /\ UNCHANGED <<reserved, exit>>
  /\ UNCHANGED <<run, loop, wait, collecting, setup, files, history>>

\* data_start_collection, bootsetup, and the variables of the loop
Prepare ==
  /\ pc = "prepare"
  /\ collecting' = TRUE /\ setup' = TRUE
  /\ outres' = TRUE /\ i' = 0 /\ failcount' = 0
  /\ tests' = 0 /\ streak' = 0
  /\ pc' = "loop"
  /\ UNCHANGED <<left, wait, reserved, verified, files, exit>>

\* The time is up, all iterations are done, or there were too many fails.
Enough ==
  /\ pc = "loop"
  /\ pc' = "sync"
  /\ UNCHANGED <<run, loop, wait, machine, files, history, exit>>

MoreToDo == i < Count /\ failcount < FailMax

\* kernel_version gives no version: GET KERNEL FAIL
KernelFails ==
  /\ pc = "loop" /\ MoreToDo
  /\ CallRestart("kfail")
  /\ UNCHANGED <<run, loop, machine, files, history, exit>>

\* Mutant: a machine without kernel version does not count as a fail.
KernelFailed_NoCount ==
  /\ pc = "kfail"
  /\ pc' = "loop"
  /\ UNCHANGED <<run, i, failcount, wait, machine, files, history, exit>>

KernelFailed ==
  /\ pc = "kfail"
  /\ failcount' = failcount + 1 /\ pc' = "loop"
  /\ UNCHANGED <<run, i, wait, machine, files, history, exit>>

WrongKernel ==
  /\ pc = "loop" /\ MoreToDo
  /\ outres' = FALSE /\ pc' = "sync"
  /\ UNCHANGED <<left, loop, wait, machine, files, history, exit>>

\* The kernel is the right one: sleepgraph is started over ssh.
StartTest ==
  /\ pc = "loop" /\ MoreToDo
  /\ verified' = TRUE /\ pc' = "test"
  /\ tests' = tests + 1 /\ ondisk' = {} /\ found' = {}
  /\ UNCHANGED <<run, loop, wait, reserved, collecting, setup, streak, exit>>

\* sleepgraph ends, or ssh does: timeout, connection lost, no ping after it
Test ==
  /\ pc = "test"
  /\ \/ pc' = "copy" /\ UNCHANGED wait
     \/ CallRestart("copy")
  /\ UNCHANGED <<run, loop, machine, files, history, exit>>

\* scp of the output; when it is killed by its timeout: SCP FAILED
Copy ==
  /\ pc = "copy"
  /\ \/ pc' = "files" /\ ondisk' \in SUBSET Files /\ UNCHANGED wait
     \/ CallRestart("recopy") /\ UNCHANGED ondisk
  /\ UNCHANGED <<run, loop, machine, found, history, exit>>

\* ... and once more after the restart
Recopy ==
  /\ pc = "recopy"
  /\ \/ pc' = "files" /\ ondisk' \in SUBSET Files /\ UNCHANGED outres
     \/ pc' = "sync" /\ outres' = FALSE /\ UNCHANGED ondisk
  /\ UNCHANGED <<left, loop, wait, machine, found, history, exit>>

\* No file came: HANG
Hang ==
  /\ pc = "files" /\ ondisk = {}
  /\ found' = {} /\ failcount' = failcount + 1 /\ streak' = streak + 1
  /\ i' = i + 1 /\ pc' = "loop"
  /\ UNCHANGED <<run, wait, machine, ondisk, tests, exit>>

\* Some did: the html is made from the others if it is the one missing.
LookAtFiles ==
  /\ pc = "files" /\ ondisk # {}
  /\ found' = ondisk
  /\ pc' = IF "html" \notin found' /\ {"dmesg", "ftrace"} \subseteq found'
           THEN "regen" ELSE "judge"
  /\ UNCHANGED <<run, loop, wait, machine, ondisk, history, exit>>

\* sleepgraph -dmesg -ftrace, perhaps twice
Regen ==
  /\ pc = "regen"
  /\ \E made \in SUBSET {"html", "result"} : ondisk' = ondisk \cup made
  /\ pc' = "judge"
  /\ UNCHANGED <<run, loop, wait, machine, found, history, exit>>

\* "crash is one or more files is missing": MISSING OUTPUT FILES
Missing ==
  /\ pc = "judge" /\ found # Files
  /\ failcount' = failcount + 1 /\ streak' = streak + 1
  /\ i' = i + 1 /\ pc' = "loop"
  /\ UNCHANGED <<run, wait, machine, files, tests, exit>>

\* All files are there: result.txt tells whether the test passed.
Complete ==
  /\ pc = "judge" /\ found = Files
  /\ \/ failcount' = 0 /\ streak' = 0
     \/ failcount' = failcount + 1 /\ streak' = streak + 1
  /\ i' = i + 1 /\ pc' = "loop"
  /\ UNCHANGED <<run, wait, machine, files, tests, exit>>

\* data_stop_collection, rsync, and back in main
Sync ==
  /\ pc = "sync"
  /\ collecting' = FALSE
  /\ pc' = IF outres THEN "reboot" ELSE "finish"
  /\ UNCHANGED <<run, loop, wait, reserved, setup, verified, files, history, exit>>

PmGraph ==
  \/ Verify \/ Host \/ Prepare \/ Enough \/ KernelFails \/ KernelFailed \/ WrongKernel
  \/ StartTest \/ Test \/ Copy \/ Recopy \/ Hang \/ LookAtFiles \/ Regen
  \/ Missing \/ Complete \/ Sync

Next ==
  /\ \/ Reserve \/ BootSetup \/ NextMode \/ Finish
     \/ Restart \/ PingAnswered \/ PingMissed \/ Reboot \/ BootPing
     \/ PmGraph
  /\ UNCHANGED resetcmd

Spec == Init /\ [][Next]_vars

\* Every call returns in the end; nothing is assumed of what it returns.
FairSpec == Spec /\ WF_vars(Next)

-----------------------------------------------------------------------------
(* Properties                                                               *)

\* sleepgraph is started only on a machine that is reserved, that was set up
\* after its last reset, whose kernel was checked after it, and while the
\* data of the test is collected.
ReadyWhenTested ==
  pc = "test" => reserved /\ setup /\ verified /\ collecting

\* However the command ends, it leaves no machine reserved and no data
\* collection running.
CleanExit == exit # "no" => ~reserved /\ ~collecting

\* -count, "maximum sleepgraph iterations to run", restarts included, and
\* -failmax: testing stops after that many fails in a row.
LimitsRespected == tests <= Count /\ streak <= FailMax

\* The inductive strengthening.  Place is where the code is or will be once
\* restart_or_die has returned.
Place == IF pc \in {"restart", "ping"} THEN ret ELSE pc
Iterating == {"test", "copy", "recopy", "files", "regen", "judge"}

ReservedInv ==
  /\ exit # "no" <=> pc = "end"
  /\ reserved <=> pc \notin {"reserve", "end"}

CollectInv == collecting <=> Place \in Iterating \cup {"loop", "kfail", "sync"}

SetupInv ==
  /\ pc \notin {"reserve", "bootsetup", "bootping", "finish", "end", "ping"} => setup
  /\ pc = "ping" => setup \/ rebooted
  /\ pc = "test" => verified

CountInv ==
  /\ Place \in {"loop", "kfail"} => tests = i /\ streak <= failcount
  /\ Place = "kfail" => failcount < FailMax
  /\ Place \in Iterating =>
       tests = i + 1 /\ i < Count /\ failcount < FailMax /\ streak <= failcount
  /\ tests <= Count /\ streak <= FailMax

IInv == TypeOK /\ ReservedInv /\ CollectInv /\ SetupInv /\ CountInv

\* The command ends, even if the time of the run is never up and the machine
\* keeps failing in any order of ways.
CommandEnds == <>(exit # "no")

=============================================================================
