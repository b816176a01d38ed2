---------------------------- MODULE KernelBisect ----------------------------
(***************************************************************************)
(* The kernel bisection of stresstest.py (kernelBisect) over lib/kernel.py *)
(* and lib/remotemachine.py.  Each round builds the commit that git put in *)
(* the source tree, installs it on the target under the name of the round, *)
(* reboots, waits for that kernel, asks a test or the user for a verdict   *)
(* and hands it to git.  Commits are 0 .. N in a line: 0 is kgood, N kbad. *)
(* git, the boot loader and the target's kernels are outside the program.  *)
(***************************************************************************)
EXTENDS Integers, FiniteSets

CONSTANTS
  N,         \* the commits between kgood (0) and kbad (N)
  MaxRounds, \* the rounds the program allows (99 in the code)
  Settings,  \* the argument records the command may be called with
  Leftovers  \* the kernels of earlier bisections the target may hold

ASSUME BisectAssumption ==
  /\ N \in Nat \ {0} /\ MaxRounds \in Nat \ {0}
  /\ Settings \subseteq [machine : BOOLEAN, userinput : BOOLEAN, ktest : BOOLEAN,
                         hangbad : BOOLEAN, ktesthangbad : BOOLEAN,
                         resetcmd : BOOLEAN, kerneldefault : BOOLEAN]
  /\ Leftovers \subseteq (0 .. N) \cup {-1}

VARIABLES
  args,     \* the command line
  left,     \* what an earlier bisection left under the names of the rounds
  culprit,  \* the commit that broke the kernel
  git,      \* git's state: last good, first bad, skipped commits
  tree,     \* "clean", or "patched" by kernel.configure
  commit,   \* the commit of this round, -1 when git named none
  i,        \* the round, and the name bisect<i> of its kernel
  pc, state, resets,
  built,    \* the kernel package of the round: its commit
  tmp,      \* the package of each name in /tmp of the target
  disk,     \* the kernel of each name installed on the target
  mach,     \* the target: up, the kernel it runs, the ones it boots next
  about,    \* history: the commit whose kernel the last verdict was about
  strayed,  \* history: the target restarted in this round, when the program
            \* no longer looked at what it runs
  guess,    \* history: a verdict was about no kernel or another round's
  result    \* "none" yet, "error", or "bad" with the commit named last

vars == <<args, left, culprit, git, tree, commit, i, pc, state, resets, built, tmp,
          disk, mach, about, strayed, guess, result>>

None == -1
Own == 0                 \* the name of the target's own kernel
Rounds == 1 .. MaxRounds
User == args.userinput
Truth(c) == IF c < culprit THEN "good" ELSE "bad"

\* automatic: a machine, and a test or nobody to ask (precedence as in the code).
automatic == args.machine /\ (User => args.ktest)

Host == <<tmp, disk, mach>>
Source == <<git, tree, commit>>
Start == <<args, left, culprit>>
Verdict == <<about, strayed, guess>>

Init ==
  /\ args \in Settings /\ culprit \in 1 .. N
  /\ (args.machine \/ User) \* otherwise the command ends with an error at once
  /\ git = [good |-> 0, bad |-> N, skipped |-> {}]
  /\ tree \in {"clean", "patched"} /\ commit = None /\ i = 0 /\ pc = "clean"
  /\ state = "none" /\ resets = 0 /\ built = None
  /\ left \in Leftovers
  /\ tmp = [n \in Rounds |-> left] /\ disk = tmp
  /\ \E k \in IF left = None THEN {Own} ELSE Rounds :
       mach = [up |-> "up", runs |-> k, next |-> Own, default |-> Own]
  /\ about = None /\ strayed = FALSE /\ guess = FALSE /\ result = "none"

-----------------------------------------------------------------------------
(* lib/kernel.py and git                                                    *)

\* What git leaves to test, and what its answer reads as: <<commit, done>>.
Candidates(g) == (g.good + 1 .. g.bad - 1) \ g.skipped

bisect_step_info(g) ==
  IF Candidates(g) # {} THEN {<<c, FALSE>> : c \in Candidates(g)}
  ELSE IF g.bad = g.good + 1 THEN {<<g.bad, TRUE>>}
  ELSE {<<None, TRUE>>} \* only skipped commits are left

\* Mutant: the boundaries of the search are taken the wrong way round.
bisect_step_Swapped(verdict) ==
  /\ git' = CASE verdict = "good" -> [git EXCEPT !.good = commit]
              [] verdict = "bad" -> [git EXCEPT !.bad = commit]
              [] verdict = "skip" -> [git EXCEPT !.good = commit]
  /\ \E a \in bisect_step_info(git') :
       /\ commit' = a[1]
       /\ IF a[2] THEN pc' = "done" /\ result' = "bad" ELSE pc' = "configure" /\ UNCHANGED result

\* git bisect good|bad|skip.  A patched tree cannot be switched: no line of
\* git's answer matches, which reads as the end.
bisect_step(verdict) ==
  /\ git' = CASE verdict = "good" -> [git EXCEPT !.good = commit]
              [] verdict = "bad" -> [git EXCEPT !.bad = commit]
              [] verdict = "skip" -> [git EXCEPT !.skipped = @ \cup {commit}]
  /\ \E a \in IF tree = "clean" THEN bisect_step_info(git') ELSE {<<None, TRUE>>} :
       /\ commit' = a[1]
       /\ IF a[2] THEN pc' = "done" /\ result' = "bad" ELSE pc' = "configure" /\ UNCHANGED result

\* kernel.clean: whatever patches a bisection before left in the tree go.
clean ==
  /\ pc = "clean" /\ pc' = "start" /\ tree' = "clean"
  /\ UNCHANGED <<Start, git, commit, i, state, resets, built, Host, Verdict, result>>

bisect_start ==
  /\ pc = "start"
  /\ \E a \in bisect_step_info(git) :
       /\ commit' = a[1]
       /\ IF a[2] THEN pc' = "done" /\ result' = "bad" ELSE pc' = "configure" /\ UNCHANGED result
  /\ UNCHANGED <<Start, git, tree, i, state, resets, built, Host, Verdict>>

\* kernel.configure: the patches go in, and the next round begins, or the same
\* one goes on when its commit was skipped for a failed build.
configure ==
  /\ pc = "configure" /\ tree' = "patched"
  /\ LET round == IF state = "skipbuild" THEN i ELSE i + 1 IN
       IF round \in Rounds
       THEN i' = round /\ pc' = "build" /\ UNCHANGED result
       ELSE i' = i /\ pc' = "done" /\ result' = "error" \* the rounds are used up
  /\ state' = "none" /\ resets' = 0 /\ built' = None
  /\ strayed' = FALSE
  /\ UNCHANGED <<Start, git, commit, Host, about, guess>>

\* doError
Fail ==
  /\ pc' = "done" /\ result' = "error"

-----------------------------------------------------------------------------
(* The build                                                                *)

\* A target asked to go down in the last round is down before the build ends.
build ==
  /\ pc = "build" /\ mach.up # "leaving"
  /\ \/ built' = commit /\ pc' = (IF automatic THEN "online" ELSE "grade") /\ UNCHANGED result
     \/ UNCHANGED built /\ User /\ pc' = "buildprompt" /\ UNCHANGED result
     \/ UNCHANGED built /\ ~User /\ Fail
  /\ UNCHANGED <<Start, Source, i, state, resets, Host, Verdict>>

\* yes, no, or skip; a no is asked once more.
BuildPrompt ==
  /\ pc = "buildprompt"
  /\ \/ pc' = "build" /\ UNCHANGED <<state, tree, result>>
     \/ Fail /\ UNCHANGED <<state, tree>>
     \/ state' = "skipbuild" /\ tree' = "clean" /\ pc' = "step" /\ UNCHANGED result
  /\ UNCHANGED <<Start, git, commit, i, resets, built, Host, Verdict>>

-----------------------------------------------------------------------------
(* The target: what RemoteMachine sees of it                                *)

\* A target that goes down still answers.
Hears == mach.up \in {"up", "leaving"}

\* Whether it is the wanted host that answers; one that boots answers ping first.
checkhost ==
  CASE Hears -> {"none"}
    [] mach.up = "booting" -> {"offline", "denied"}
    [] mach.up = "hung" -> {"offline"}

\* The kernel of the round that is wanted, or any when it is None.
wait_for_boot(want) ==
  {IF e = "none" /\ want # None /\ mach.runs # want THEN "wrong kernel" ELSE e : e \in checkhost}

reset_machine(m) == IF args.resetcmd THEN [m EXCEPT !.up = "booting"] ELSE m

\* sudo reboot, as far as the target still hears it.
reboot(m) == IF m.up = "up" THEN [m EXCEPT !.up = "leaving"] ELSE m

\* The boot loader takes the entry set for one boot, or the default one.
BootEntry == IF mach.next # Own THEN mach.next ELSE mach.default

GoDown ==
  /\ mach.up = "leaving" /\ pc # "done"
  /\ mach' = [mach EXCEPT !.up = "booting"]
  /\ UNCHANGED <<Start, Source, i, pc, state, resets, built, tmp, disk, Verdict, result>>

\* A kernel under test may not come up; the target's own one does.
Boot ==
  /\ mach.up = "booting" /\ pc # "done"
  /\ \E up \in IF BootEntry = Own THEN {"up"} ELSE {"up", "hung"} :
       mach' = [mach EXCEPT !.up = up, !.runs = BootEntry, !.next = Own]
  /\ UNCHANGED <<Start, Source, i, pc, state, resets, built, tmp, disk, Verdict, result>>

\* A kernel under test hangs while it runs.
Hang ==
  /\ mach.up = "up" /\ mach.runs # Own /\ pc # "done"
  /\ mach' = [mach EXCEPT !.up = "hung"]
  /\ UNCHANGED <<Start, Source, i, pc, state, resets, built, tmp, disk, Verdict, result>>

\* It is reset by hand, as the prompts suggest, or restarts by itself, at any
\* time: also after its kernel was installed and before the reboot, and
\* between the look at its kernel and the test, or one test and the next.
Restart ==
  /\ mach.up \in {"up", "hung"} /\ pc # "done"
  /\ mach' = [mach EXCEPT !.up = "booting"]
  /\ strayed' = (strayed \/ pc \in {"reboot", "ktest"})
  /\ UNCHANGED <<Start, Source, i, pc, state, resets, built, tmp, disk, about, guess, result>>

-----------------------------------------------------------------------------
(* Online, install, reboot                                                  *)

\* Mutant: the resets are not counted.
WaitOnline_NoCount ==
  /\ pc = "online"
  /\ \E e \in wait_for_boot(None) :
       \/ e = "none" /\ resets' = 0 /\ pc' = "install" /\ UNCHANGED <<mach, result>>
       \/ /\ e # "none" /\ args.resetcmd
          /\ mach' = reset_machine(mach) /\ UNCHANGED <<resets, pc, result>>
       \/ e # "none" /\ ~args.resetcmd /\ Fail /\ UNCHANGED <<mach, resets>>
  /\ UNCHANGED <<Start, Source, i, state, built, tmp, disk, Verdict>>

WaitOnline ==
  /\ pc = "online"
  /\ \E e \in wait_for_boot(None) :
       \/ e = "none" /\ resets' = 0 /\ pc' = "install" /\ UNCHANGED <<mach, result>>
       \/ /\ e = "offline" /\ args.resetcmd /\ resets < 2
          /\ mach' = reset_machine(mach) /\ resets' = resets + 1
          /\ UNCHANGED <<pc, result>>
       \/ /\ e # "none" /\ ~(e = "offline" /\ args.resetcmd /\ resets < 2)
          /\ (User /\ UNCHANGED <<pc, result>>) \/ Fail
          /\ UNCHANGED <<mach, resets>>
  /\ UNCHANGED <<Start, Source, i, state, built, tmp, disk, Verdict>>

\* A failed install is asked about, and tried again from its start.
InstallFailed ==
  \/ User /\ pc' = "install" /\ UNCHANGED result
  \/ Fail

\* kernelInstall up to the upload: the system, the host, bootsetup, the kernels listed.
InstallCheck ==
  /\ pc = "install"
  /\ \/ Hears /\ pc' = "upload" /\ UNCHANGED result
     \/ InstallFailed
  /\ UNCHANGED <<Start, Source, i, state, resets, built, Host, Verdict>>

\* scp of the packages: nobody looks at its result.
Upload ==
  /\ pc = "upload" /\ pc' = "dpkg"
  /\ \/ Hears /\ tmp' = [tmp EXCEPT ![i] = built]
     \/ UNCHANGED tmp
  /\ UNCHANGED <<Start, Source, i, state, resets, built, disk, mach, Verdict, result>>

\* list_kernels, kernel_uuid_grub: is the name of the round in the boot menu?
listed(d) == d[i] # None

\* dpkg -i, whose result nobody looks at either: the install is good when the
\* boot menu lists a kernel of the name, which then becomes the next to boot.
install_kernel ==
  /\ pc = "dpkg"
  /\ \/ Hears /\ tmp[i] # None /\ disk' = [disk EXCEPT ![i] = tmp[i]]
     \/ UNCHANGED disk
  /\ IF Hears /\ listed(disk')
     THEN /\ mach' = IF args.kerneldefault THEN [mach EXCEPT !.default = i]
                                           ELSE [mach EXCEPT !.next = i]
          /\ pc' = "reboot" /\ UNCHANGED result
     ELSE InstallFailed /\ UNCHANGED mach
  /\ UNCHANGED <<Start, Source, i, state, resets, built, tmp, Verdict>>

Reboot ==
  /\ pc = "reboot" /\ pc' = "boot"
  /\ mach' = reboot(mach)
  /\ UNCHANGED <<Start, Source, i, state, resets, built, tmp, disk, Verdict, result>>

-----------------------------------------------------------------------------
(* The verdict                                                              *)

\* Mutant: the patches of the last round are left in the tree.
Grade_LeavePatches(verdict, of) ==
  /\ state' = verdict /\ about' = of
  /\ pc' = "step" /\ UNCHANGED <<tree, strayed>>
  /\ guess' = (guess \/ (verdict # "skip" /\ of # commit))

\* A verdict is given, and the tree is cleaned before git hears of it.
Grade(verdict, of) ==
  /\ state' = verdict /\ about' = of
  /\ tree' = "clean" /\ pc' = "step"
  /\ guess' = (guess \/ (verdict # "skip" /\ of # commit))
  /\ UNCHANGED strayed

Kernel == IF mach.runs = Own THEN None ELSE disk[mach.runs]

\* The wait for the round's kernel: with -bisecthangbad every failure reads as
\* bad; else one reset, then the user grades it, or the bisection ends.
WaitBoot ==
  /\ pc = "boot"
  /\ \E e \in wait_for_boot(i) :
       \/ /\ e = "none" /\ pc' = (IF args.ktest THEN "ktest" ELSE IF User THEN "grade" ELSE "step")
          /\ UNCHANGED <<tree, state, resets, mach, Verdict, result>>
       \/ /\ e # "none" /\ args.hangbad
          /\ Grade("bad", None) /\ mach' = reset_machine(mach) /\ UNCHANGED <<resets, result>>
       \/ /\ e = "offline" /\ ~args.hangbad /\ args.resetcmd /\ resets < 1
          /\ mach' = reset_machine(mach) /\ resets' = resets + 1
          /\ UNCHANGED <<pc, tree, state, Verdict, result>>
       \/ /\ e # "none" /\ ~args.hangbad /\ ~(e = "offline" /\ args.resetcmd /\ resets < 1)
          /\ \/ User /\ UNCHANGED <<pc, tree, state, Verdict, result>>
             \/ User /\ \E v \in {Truth(commit), "skip"} : Grade(v, commit) /\ UNCHANGED result
             \/ Fail /\ UNCHANGED <<tree, state, Verdict>>
          /\ UNCHANGED <<resets, mach>>
  /\ UNCHANGED <<Start, git, commit, i, built, tmp, disk>>

\* The test script on the target, 300 seconds; what it says is about the
\* kernel that runs.  A copy that fails, a timeout, or any other last line is
\* an error: bad with -ktesthangbad after a timeout, else the user is asked.
ktest ==
  /\ pc = "ktest"
  /\ \/ Hears /\ Grade(Truth(Kernel), Kernel) /\ UNCHANGED result
     \/ mach.up # "up" /\ args.ktesthangbad /\ Grade("bad", None) /\ UNCHANGED result
     \/ User /\ Grade(Truth(commit), commit) /\ UNCHANGED result
     \/ User /\ UNCHANGED <<pc, tree, state, Verdict, result>>
     \/ ~User /\ Fail /\ UNCHANGED <<tree, state, Verdict>>
  /\ UNCHANGED <<Start, git, commit, i, resets, built, Host>>

\* No test, or no machine: the user says.
AskUser ==
  /\ pc = "grade" /\ Grade(Truth(commit), commit)
  /\ UNCHANGED <<Start, git, commit, i, resets, built, Host, result>>

\* The verdict goes to git; without a test and a user there is none, which
\* bisect_step refuses.
Step ==
  /\ pc = "step"
  /\ \/ state = "none" /\ Fail /\ UNCHANGED <<git, commit>>
     \/ state # "none" /\ bisect_step(IF state = "skipbuild" THEN "skip" ELSE state)
  /\ UNCHANGED <<Start, tree, i, state, resets, built, Host, Verdict>>

-----------------------------------------------------------------------------
Tool ==
  \/ clean \/ bisect_start \/ configure \/ build \/ BuildPrompt \/ WaitOnline
  \/ InstallCheck \/ Upload \/ install_kernel \/ Reboot \/ WaitBoot
  \/ ktest \/ AskUser \/ Step
Target == GoDown \/ Boot \/ Hang \/ Restart

Terminated == pc = "done" /\ UNCHANGED vars

Next == Tool \/ Target \/ Terminated

\* Every wait of the program has a timeout: it never waits for the target, but
\* for the shutdown that a build outlasts.
Spec == Init /\ [][Next]_vars /\ WF_vars(Tool) /\ WF_vars(GoDown)

-----------------------------------------------------------------------------
(* Properties                                                               *)

\* Nothing but the two hang options, a kernel left from an earlier bisection
\* and a restart of the target in that very round, after its kernel was
\* installed but not yet rebooted into, or after it was looked at, makes a
\* verdict about another kernel than the round's: not the reboot that has not
\* begun when the wait for it looks, not the resets that bring the own kernel
\* back at any other time, not a failed upload (wait_for_boot, 499-512).
OwnKernel ==
  pc = "step" /\ state \in {"good", "bad"} /\ about # commit =>
    args.hangbad \/ args.ktesthangbad \/ left # None \/ strayed

\* A bisection whose verdicts are all about the kernel of their round ends on
\* the commit that broke the kernel, or names none; and git's boundaries never
\* leave it outside (kernelBisect, 293-430).
Blame ==
  /\ OwnKernel
  /\ ~guess => /\ git.good < culprit /\ culprit <= git.bad
               /\ result = "bad" => commit \in {culprit, None}

\* When git names no commit, only skipped ones were left to test
\* (README.stresstest, "bisect"; bisect_step after checkout, 397, 426).
NamesOne ==
  result = "bad" /\ commit = None =>
    git.bad > git.good + 1 /\ Candidates(git) = {}

\* With nobody to ask, the bisection ends: every wait times out, the resets
\* are counted, and every round takes a commit away.
BisectEnds == ~User ~> pc = "done"

-----------------------------------------------------------------------------
(* The inductive invariant behind Blame and NamesOne                         *)

Names == 0 .. MaxRounds \* the kernels of the target: its own and the rounds'
Commits == 0 .. N
Machines == [up : {"up", "leaving", "booting", "hung"},
             runs : Names, next : Names, default : Names]

TypeOK ==
  /\ args \in Settings /\ left \in Leftovers /\ culprit \in 1 .. N
  /\ git \in [good : Commits, bad : Commits, skipped : SUBSET Commits]
  /\ tree \in {"clean", "patched"} /\ commit \in Commits \cup {None} /\ i \in Names
  /\ pc \in {"clean", "start", "configure", "build", "buildprompt", "online", "install",
            "upload", "dpkg", "reboot", "boot", "ktest", "grade", "step", "done"}
  /\ state \in {"none", "good", "bad", "skip", "skipbuild"} /\ resets \in Nat
  /\ built \in Commits \cup {None}
  /\ tmp \in [Rounds -> Commits \cup {None}] /\ disk \in [Rounds -> Commits \cup {None}]
  /\ mach \in Machines
  /\ about \in Commits \cup {None} /\ strayed \in BOOLEAN
  /\ guess \in BOOLEAN /\ result \in {"none", "error", "bad"}

\* Where the search stands: git's boundaries never meet, the commit of the round
\* lies between them, and git hears of a verdict with the patches taken out.
SearchInv ==
  /\ git.good < git.bad
  /\ pc \notin {"clean", "start", "done"} => commit \in git.good + 1 .. git.bad - 1
  /\ pc = "start" => tree = "clean"
  /\ pc = "step" => state = "none" \/ tree = "clean"
  /\ pc \notin {"step", "configure", "done"} => state = "none"
  /\ pc # "done" => result = "none"
  /\ NamesOne

\* What git was told is the truth, unless a verdict was a guess.
TruthInv ==
  ~guess => /\ git.good < culprit /\ culprit <= git.bad
            /\ pc = "step" /\ state \in {"good", "bad"} => state = Truth(commit)
            /\ result = "bad" => commit \in {culprit, None}

\* The kernel of this round is not installed yet.
NotInstalled ==
  \/ pc \in {"build", "buildprompt", "online", "install", "upload", "dpkg"}
  \/ pc \in {"step", "configure"} /\ state = "skipbuild"

\* The last round whose kernel the target can boot.
Newest == IF NotInstalled THEN i - 1 ELSE i

\* The kernels on a target that no earlier bisection used: the name of the round
\* holds the commit of the round, once it is installed, and nothing runs under
\* a name that is not installed.
HostInv ==
  left = None =>
    /\ mach.runs <= Newest /\ mach.next <= Newest /\ mach.default <= Newest
    /\ \A n \in Rounds : n > i => tmp[n] = None /\ disk[n] = None
    /\ NotInstalled /\ i \in Rounds =>
         tmp[i] \in {None, commit} /\ disk[i] \in {None, commit}
    /\ NotInstalled /\ i \in Rounds /\ pc \notin {"install", "upload", "dpkg"} =>
         tmp[i] = None /\ disk[i] = None
    /\ pc \in {"online", "install", "upload", "dpkg"} => built = commit
    /\ pc = "reboot" /\ ~strayed => mach.runs < i
    /\ pc \in {"reboot", "boot", "ktest"} => disk[i] = commit

\* The reboot: what the target runs before it begins is not the round's kernel.
RebootInv ==
  left = None =>
    /\ pc \in {"buildprompt", "online"} => mach.up # "leaving"
    /\ pc \in {"install", "upload", "dpkg", "reboot"} => mach.up # "leaving"
    /\ ~strayed /\ pc = "reboot" => mach.up # "booting"
    /\ ~strayed /\ pc = "boot" /\ mach.up = "leaving" => mach.runs < i
    /\ ~strayed /\ pc = "ktest" => mach.up \in {"up", "hung"} /\ mach.runs = i

\* From the first round on there is a round.
RoundInv == pc \notin {"clean", "start", "configure", "done"} => i \in Rounds

IInv == TypeOK /\ SearchInv /\ RoundInv /\ OwnKernel /\ TruthInv /\ HostInv /\ RebootInv
=============================================================================
