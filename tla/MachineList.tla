---------------------------- MODULE MachineList ----------------------------
(***************************************************************************)
(* The machine list of stresstest.py: a text file with a line for each     *)
(* machine, whose flag tells how far it has come: none, O (online),        *)
(* I (kernel installed), R (ready to run).  Every command is a process of  *)
(* its own that reads the whole file, visits the machines line by line,    *)
(* and writes the whole file if it changed a line (runStressCmd).          *)
(***************************************************************************)
EXTENDS Naturals

CONSTANTS
  Proc,      \* processes in which commands run, one after the other
  N,         \* number of machines, in the order of their lines
  MaxCalls,  \* bound on the number of commands
  Power      \* machines can be switched or reset: -oncmd, -resetcmd

ASSUME MachineListAssumption == N \in Nat /\ MaxCalls \in Nat /\ Power \in BOOLEAN

Hosts == 1..N
Flag == {"none", "O", "I", "R", "gone"}     \* "gone": there is no such line
Commands == {"init", "online", "install", "ready", "run"}

VARIABLES
  file,     \* the line of each machine in the file
  newline,  \* the file ends with a newline
  installed, \* the machines on which the kernel was installed some time
  passed,   \* history: those with an installation that was read as good
  tests,    \* number of spawned tests of each machine
  pc,       \* where each command is
  cmd,      \* which command it is
  second,   \* it is in its second pass over the list
  lines,    \* out: its copy of the lines
  whole,    \* the file it read ended with a newline
  pos,      \* the line it visits
  changed,  \* it has changed a line
  machlist, \* the machines a pass has found
  status,   \* those of them whose child has ended well
  todo,     \* those of them whose child has not ended
  calls,    \* commands started so far
  stored,   \* history: the lines written last
  raced,    \* history: a command wrote while another one was at work, was
            \* killed while it wrote, or read what another one was writing
  overlap   \* history: two run commands were at work at once

disk == <<file, newline, stored>>
copy == <<lines, whole, pos, changed>>
pool == <<machlist, status, todo>>
kernels == <<installed, passed>>
machine == <<kernels, tests>>
vars == <<disk, machine, pc, cmd, second, copy, pool, calls, raced, overlap>>

PCs == {"idle", "children", "again", "visit", "spawn", "store", "keyerror"}
AtWork(p) == pc[p] \notin {"idle", "keyerror"}
Blank == [h \in Hosts |-> "none"]
HalfWritten == \E q \in Proc : pc[q] = "store"

\* R stands only on lines of machines on which the kernel was installed, I on
\* those whose child was read as good, whether or not it installed anything.
\* (Uninstalling takes no flag away.)
Earned(text) ==
  \A h \in Hosts : (text[h] = "R" => h \in installed) /\ (text[h] = "I" => h \in passed)

\* The list is a new one, or earlier commands have left their flags in it.
Init ==
  /\ installed \in SUBSET Hosts
  /\ file \in [Hosts -> {"none", "O", "I", "R"}] /\ stored = file
  /\ passed = {h \in Hosts : file[h] = "I"} /\ Earned(file)
  /\ newline \in BOOLEAN /\ (newline \/ \A h \in Hosts : file[h] = "none")
  /\ tests = [h \in Hosts |-> 0]
  /\ pc = [p \in Proc |-> "idle"] /\ cmd = [p \in Proc |-> "init"]
  /\ second = [p \in Proc |-> FALSE]
  /\ lines = [p \in Proc |-> Blank] /\ whole = [p \in Proc |-> TRUE]
  /\ pos = [p \in Proc |-> 1] /\ changed = [p \in Proc |-> FALSE]
  /\ machlist = [p \in Proc |-> {}] /\ status = machlist /\ todo = machlist
  /\ calls = 0 /\ raced = FALSE /\ overlap = FALSE

\* The process of a command ends, and its variables with it.
Leave(p, how) ==
  /\ pc' = [pc EXCEPT ![p] = how]
  /\ cmd' = [cmd EXCEPT ![p] = "init"] /\ second' = [second EXCEPT ![p] = FALSE]
  /\ lines' = [lines EXCEPT ![p] = Blank] /\ whole' = [whole EXCEPT ![p] = TRUE]
  /\ pos' = [pos EXCEPT ![p] = 1] /\ changed' = [changed EXCEPT ![p] = FALSE]
  /\ machlist' = [machlist EXCEPT ![p] = {}] /\ status' = [status EXCEPT ![p] = {}]
  /\ todo' = [todo EXCEPT ![p] = {}]

-----------------------------------------------------------------------------
(* A command starts, with the file read                                     *)

Start(p, c) ==
  /\ ~AtWork(p) /\ calls < MaxCalls
  /\ calls' = calls + 1
  /\ cmd' = [cmd EXCEPT ![p] = c]
  /\ second' = [second EXCEPT ![p] = FALSE]
  /\ status' = [status EXCEPT ![p] = {}]
  /\ raced' = (raced \/ HalfWritten)
  /\ overlap' = (overlap \/ (c = "run" /\ \E q \in Proc : AtWork(q) /\ cmd[q] = "run"))
  /\ UNCHANGED <<disk, machine>>

Read(p, text, complete, first, edited) ==
  /\ lines' = [lines EXCEPT ![p] = text]
  /\ whole' = [whole EXCEPT ![p] = complete]
  /\ pos' = [pos EXCEPT ![p] = first]
  /\ changed' = [changed EXCEPT ![p] = edited]
  /\ pc' = [pc EXCEPT ![p] = "visit"]

\* online, ready and run visit the lines at once.
RunStressCmd(p) ==
  /\ \E c \in {"online", "ready", "run"} : Start(p, c)
  /\ Read(p, file, newline, 1, FALSE)
  /\ machlist' = [machlist EXCEPT ![p] = {}]
  /\ UNCHANGED todo

Cleared(text) == [h \in Hosts |-> IF text[h] = "gone" THEN "gone" ELSE "none"]

\* init takes the flags away and writes whatever it has read.
ResetMachineList(p) ==
  /\ Start(p, "init")
  /\ Read(p, Cleared(file), TRUE, N + 1, TRUE)
  /\ UNCHANGED <<machlist, todo>>

\* install finds the machines that are online (find:O), and starts a child
\* for each of them.
Find(p) ==
  /\ Start(p, "install")
  /\ machlist' = [machlist EXCEPT ![p] = {h \in Hosts : file[h] = "O"}]
  /\ todo' = [todo EXCEPT ![p] = {h \in Hosts : file[h] = "O"}]
  /\ pc' = [pc EXCEPT ![p] = "children"]
  /\ UNCHANGED copy

\* A child ends.  It may fail, die, or be ended by its timeout, before or after
\* it has installed the kernel.  It is read as good unless it was terminated or
\* printed FAILURE or ERROR: one that died of an exception or a signal is too.
ChildEnds(p) ==
  /\ pc[p] = "children"
  /\ \E h \in todo[p] :
       /\ todo' = [todo EXCEPT ![p] = @ \ {h}]
       /\ installed' \in {installed, installed \cup {h}}
       /\ \/ /\ status' = [status EXCEPT ![p] = @ \cup {h}]
             /\ passed' = passed \cup {h}
          \/ UNCHANGED <<status, passed>>
  /\ UNCHANGED <<disk, tests, pc, cmd, second, copy, machlist, calls, raced, overlap>>

\* The second pass over the list, after the children or a power cycle
SecondPass(p) ==
  /\ pc[p] = "again" \/ (pc[p] = "children" /\ todo[p] = {})
  /\ Read(p, file, newline, 1, FALSE)
  /\ second' = [second EXCEPT ![p] = TRUE]
  /\ raced' = (raced \/ HalfWritten)
  /\ UNCHANGED <<disk, machine, cmd, pool, calls, overlap>>

-----------------------------------------------------------------------------
(* The visit of a line                                                      *)

Visiting(p, c, flags) == pc[p] = "visit" /\ cmd[p] = c /\ pos[p] <= N /\ lines[p][pos[p]] \in flags

Keep(p) == UNCHANGED <<lines, changed>>
Mark(p, flag) ==
  /\ lines' = [lines EXCEPT ![p][pos[p]] = flag]
  /\ changed' = [changed EXCEPT ![p] = TRUE]

NextLine(p) ==
  /\ pos' = [pos EXCEPT ![p] = @ + 1]
  /\ UNCHANGED <<disk, machine, pc, cmd, second, whole, status, todo, calls, raced, overlap>>

\* Lines the command has no interest in; install without any machine found
\* has none in any.
Skip(p) ==
  /\ \/ Visiting(p, "online", {"O", "I", "R", "gone"})
     \/ Visiting(p, "install", {"none", "I", "R", "gone"})
     \/ Visiting(p, "install", {"O"}) /\ machlist[p] = {}
     \/ Visiting(p, "ready", {"none", "R", "gone"})
     \/ Visiting(p, "run", {"none", "O", "I", "gone"})
  /\ Keep(p) /\ NextLine(p) /\ UNCHANGED machlist

\* Mutant: marks machines whatever their flag is.
Online_Any(p) ==
  /\ Visiting(p, "online", {"none", "I"})
  /\ \/ Mark(p, "O") /\ UNCHANGED machlist
     \/ Keep(p) /\ machlist' = [machlist EXCEPT ![p] = @ \cup {pos[p]}]
  /\ NextLine(p)

\* checkhost succeeds or not.
Online(p) ==
  /\ Visiting(p, "online", {"none"})
  /\ \/ Mark(p, "O") /\ UNCHANGED machlist
     \/ Keep(p) /\ machlist' = [machlist EXCEPT ![p] = @ \cup {pos[p]}]
  /\ NextLine(p)

\* The status of a machine that was not found raises KeyError.
Install(p) ==
  /\ Visiting(p, "install", {"O"}) /\ pos[p] \in machlist[p]
  /\ IF pos[p] \in status[p] THEN Mark(p, "I") ELSE Keep(p)
  /\ NextLine(p) /\ UNCHANGED machlist

KeyError(p) ==
  /\ Visiting(p, "install", {"O"}) /\ machlist[p] # {} /\ pos[p] \notin machlist[p]
  /\ Leave(p, "keyerror")
  /\ UNCHANGED <<disk, machine, calls, raced, overlap>>

\* checkhost succeeds or not, and a machine with the kernel has booted it or
\* another one.
Ready(p) ==
  /\ Visiting(p, "ready", {"O", "I"})
  /\ \/ pos[p] \in installed /\ Mark(p, "R")
     \/ Keep(p)
  /\ NextLine(p) /\ UNCHANGED machlist

\* findProcess looks for a test of the machine.
Run(p) ==
  /\ Visiting(p, "run", {"R"}) /\ tests[pos[p]] > 0
  /\ Keep(p) /\ NextLine(p) /\ UNCHANGED machlist

\* Mutant: does not look for one.
NotRunning_Always(p) ==
  /\ Visiting(p, "run", {"R"})
  /\ pc' = [pc EXCEPT ![p] = "spawn"]
  /\ UNCHANGED <<disk, machine, cmd, second, copy, pool, calls, raced, overlap>>

NotRunning(p) ==
  /\ Visiting(p, "run", {"R"}) /\ tests[pos[p]] = 0
  /\ pc' = [pc EXCEPT ![p] = "spawn"]
  /\ UNCHANGED <<disk, machine, cmd, second, copy, pool, calls, raced, overlap>>

SpawnStressTest(p) ==
  /\ pc[p] = "spawn"
  /\ tests' = [tests EXCEPT ![pos[p]] = @ + 1]
  /\ pos' = [pos EXCEPT ![p] = @ + 1]
  /\ pc' = [pc EXCEPT ![p] = "visit"]
  /\ UNCHANGED <<disk, kernels, cmd, second, lines, whole, changed, pool, calls, raced, overlap>>

-----------------------------------------------------------------------------
(* The end of a pass                                                        *)

\* Machines that did not answer are power cycled and asked again, once;
\* otherwise the process ends.
AskAgain(p) == cmd[p] = "online" /\ ~second[p] /\ Power /\ machlist[p] # {}

Again(p) == pc' = [pc EXCEPT ![p] = "again"] /\ UNCHANGED <<cmd, second, copy, pool>>
After(p) == IF AskAgain(p) THEN Again(p) ELSE Leave(p, "idle")

\* open(file, 'w'): the file is empty until it is closed.
Truncate(p) ==
  /\ pc[p] = "visit" /\ pos[p] = N + 1 /\ changed[p]
  /\ file' = [h \in Hosts |-> "gone"]
  /\ newline' = TRUE
  /\ raced' = (raced \/ \E q \in Proc \ {p} : AtWork(q))
  /\ pc' = [pc EXCEPT ![p] = "store"]
  /\ UNCHANGED <<stored, machine, cmd, second, copy, pool, calls, overlap>>

\* out[:-1]: what follows the last newline is taken to be empty.
LastLine(text, h) == text[h] # "gone" /\ \A g \in Hosts : g > h => text[g] = "gone"
Text(p) ==
  [h \in Hosts |-> IF ~whole[p] /\ LastLine(lines[p], h) THEN "gone" ELSE lines[p][h]]

Store(p) ==
  /\ pc[p] = "store"
  /\ file' = Text(p) /\ stored' = Text(p)
  /\ After(p)
  /\ UNCHANGED <<newline, machine, calls, raced, overlap>>

Unchanged_(p) ==
  /\ pc[p] = "visit" /\ pos[p] = N + 1 /\ ~changed[p]
  /\ After(p)
  /\ UNCHANGED <<disk, machine, calls, raced, overlap>>

-----------------------------------------------------------------------------
(* Around the commands                                                      *)

\* A command is killed.
Interrupt(p) ==
  /\ AtWork(p)
  /\ Leave(p, "idle")
  /\ raced' = (raced \/ pc[p] = "store")
  /\ UNCHANGED <<disk, machine, calls, overlap>>

TestEnds(h) ==
  /\ tests[h] > 0
  /\ tests' = [tests EXCEPT ![h] = @ - 1]
  /\ UNCHANGED <<disk, kernels, pc, cmd, second, copy, pool, calls, raced, overlap>>

Begin(p) == RunStressCmd(p) \/ ResetMachineList(p) \/ Find(p)
Step(p) ==
  \/ ChildEnds(p) \/ SecondPass(p)
  \/ Skip(p) \/ Online(p) \/ Install(p) \/ KeyError(p) \/ Ready(p)
  \/ Run(p) \/ NotRunning(p) \/ SpawnStressTest(p)
  \/ Truncate(p) \/ Store(p) \/ Unchanged_(p)

Next ==
  \/ \E p \in Proc : Begin(p) \/ Step(p) \/ Interrupt(p)
  \/ \E h \in Hosts : TestEnds(h)

Spec == Init /\ [][Next]_vars

-----------------------------------------------------------------------------
(* Properties                                                               *)

TypeOK ==
  /\ file \in [Hosts -> Flag] /\ stored \in [Hosts -> Flag]
  /\ installed \subseteq Hosts /\ passed \subseteq Hosts /\ tests \in [Hosts -> Nat]
  /\ pc \in [Proc -> PCs] /\ cmd \in [Proc -> Commands]
  /\ lines \in [Proc -> [Hosts -> Flag]] /\ pos \in [Proc -> 1..(N + 1)]
  /\ machlist \in [Proc -> SUBSET Hosts] /\ status \in [Proc -> SUBSET Hosts]
  /\ todo \in [Proc -> SUBSET Hosts]
  /\ calls \in Nat

\* Flags are earned, in the file and in every copy however old: R by a kernel
\* that was booted, I by a child of the machine's own that was read as good,
\* which does not make sure that anything was installed.
FlagsEarned ==
  /\ Earned(file) /\ Earned(stored)
  /\ \A p \in Proc : Earned(lines[p]) /\ status[p] \subseteq passed

\* "It will append flags ... so that it can remember the state for subsequent
\* command calls": as long as no command writes into the work of another,
\* a write takes a machine one step on, or init takes its flag away; only the
\* last line of a file without a newline at its end is lost.
Step_(f, g) == f = g \/ <<f, g>> \in {<<"none", "O">>, <<"O", "I">>, <<"O", "R">>, <<"I", "R">>}
WriteKeepsFlags ==
  ~raced' /\ stored' # stored =>
     \E p \in Proc : \A h \in Hosts :
       \/ Step_(stored[h], stored'[h])
       \/ cmd[p] = "init" /\ stored[h] # "gone" /\ stored'[h] = "none"
       \/ ~whole[p] /\ stored'[h] = "gone" /\ \A g \in Hosts : g > h => stored'[g] = "gone"
KeepsFlags == [][WriteKeepsFlags]_vars

\* A machine is given a second test only when two run commands are at work
\* at the same time.
OneTest == overlap \/ \A h \in Hosts : tests[h] <= 1

\* A command raises KeyError only if others wrote into its work.
NoKeyError == raced \/ \A p \in Proc : pc[p] # "keyerror"

\* The inductive strengthening: what the place of a command says of it, what
\* its copy has to do with the file, and who may run.
PlaceInv ==
  \A p \in Proc :
    /\ pc[p] = "children" => cmd[p] = "install"
    /\ pc[p] = "again" => cmd[p] = "online"
    /\ pc[p] = "spawn" => cmd[p] = "run" /\ pos[p] <= N

FileInv ==
  ~raced =>
    /\ ~HalfWritten => file = stored
    /\ \A p, q \in Proc : pc[p] = "store" /\ p # q => ~AtWork(q)

CopyOK(p) ==
  IF cmd[p] = "init" THEN pos[p] = N + 1 /\ lines[p] = Cleared(stored)
  ELSE \A h \in Hosts : /\ Step_(stored[h], lines[p][h])
                        /\ h >= pos[p] => lines[p][h] = stored[h]
CopyInv == \A p \in Proc : ~raced /\ pc[p] \in {"visit", "spawn", "store"} => CopyOK(p)

FoundInv ==
  \A p \in Proc : ~raced /\ AtWork(p) /\ cmd[p] = "install" =>
    machlist[p] = {h \in Hosts : stored[h] = "O"}

RunInv ==
  ~overlap =>
    /\ \A p, q \in Proc : AtWork(p) /\ cmd[p] = "run" /\ AtWork(q) /\ cmd[q] = "run" => p = q
    /\ \A p \in Proc : pc[p] = "spawn" => tests[pos[p]] = 0

IInv ==
  /\ TypeOK /\ FlagsEarned /\ OneTest /\ NoKeyError
  /\ PlaceInv /\ FileInv /\ CopyInv /\ FoundInv /\ RunInv

=============================================================================
