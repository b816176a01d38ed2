---------------------------- MODULE TargetProofs ----------------------------
(***************************************************************************)
(* Proofs about the tools that change a machine under test: the bisection   *)
(* of its kernel (KernelBisect) and the repair of its network (NetFix).     *)
(***************************************************************************)
EXTENDS KernelBisect, NetFix, SequenceTheorems, TLAPS

-----------------------------------------------------------------------------
(* KernelBisect                                                             *)

(* How git's answer reads: a commit to test, the culprit, or nothing left.    *)
LEMMA StepInfo ==
  ASSUME NEW g, g.good \in Commits, g.bad \in Commits, N \in Nat,
         g.good < g.bad, NEW a \in bisect_step_info(g)
  PROVE  \/ a[2] = FALSE /\ a[1] \in g.good + 1 .. g.bad - 1
         \/ a[2] = TRUE /\ a[1] = g.bad /\ g.bad = g.good + 1
         \/ a[2] = TRUE /\ a[1] = None /\ Candidates(g) = {} /\ g.bad > g.good + 1
  <1>1. CASE Candidates(g) # {}
    <2>1. PICK c \in Candidates(g) : a = <<c, FALSE>>
      BY <1>1 DEF bisect_step_info
    <2> QED BY <2>1 DEF Candidates
  <1>2. CASE Candidates(g) = {} /\ g.bad = g.good + 1
    <2>1. a = <<g.bad, TRUE>>
      BY <1>2 DEF bisect_step_info
    <2> QED BY <2>1, <1>2
  <1>3. CASE Candidates(g) = {} /\ g.bad # g.good + 1
    <2>1. a = <<None, TRUE>>
      BY <1>3 DEF bisect_step_info
    <2> QED BY <2>1, <1>3 DEF Commits
  <1> QED BY <1>1, <1>2, <1>3

(* What a wait for the target can answer: that the wanted kernel runs, or why  *)
(* it does not.                                                              *)
LEMMA WaitInfo ==
  ASSUME mach \in Machines, NEW want, NEW e \in wait_for_boot(want)
  PROVE  /\ e \in {"none", "offline", "denied", "wrong kernel"}
         /\ e = "none" => mach.up \in {"up", "leaving"} /\ (want # None => mach.runs = want)
  <1>1. PICK c \in checkhost :
          e = IF c = "none" /\ want # None /\ mach.runs # want THEN "wrong kernel" ELSE c
    BY DEF wait_for_boot
  <1>2. c \in {"none", "offline", "denied"} /\ (c = "none" => mach.up \in {"up", "leaving"})
    BY DEF checkhost, Hears, Machines
  <1> QED BY <1>1, <1>2

(* A target stays one of the targets under every change the model makes.      *)
LEMMA MachSet ==
  ASSUME mach \in Machines, BisectAssumption
  PROVE  /\ \A u \in {"up", "leaving", "booting", "hung"} :
              /\ [mach EXCEPT !.up = u] \in Machines
              /\ [mach EXCEPT !.up = u].runs = mach.runs
              /\ [mach EXCEPT !.up = u].next = mach.next
              /\ [mach EXCEPT !.up = u].default = mach.default
              /\ [mach EXCEPT !.up = u].up = u
         /\ reset_machine(mach) \in Machines
         /\ reset_machine(mach).runs = mach.runs
         /\ reset_machine(mach).next = mach.next
         /\ reset_machine(mach).default = mach.default
         /\ reset_machine(mach).up \in {mach.up, "booting"}
  <1>1. \A u \in {"up", "leaving", "booting", "hung"} :
              /\ [mach EXCEPT !.up = u] \in Machines
              /\ [mach EXCEPT !.up = u].runs = mach.runs
              /\ [mach EXCEPT !.up = u].next = mach.next
              /\ [mach EXCEPT !.up = u].default = mach.default
              /\ [mach EXCEPT !.up = u].up = u
    BY DEF Machines
  <1> QED BY <1>1, Zenon DEF reset_machine

(* Nothing about the kernels of a target changes while the tool waits.        *)
LEMMA HostKept ==
  ASSUME TypeOK, HostInv, BisectAssumption,
         UNCHANGED <<left, i, commit, built, tmp, disk>>,
         mach'.runs = mach.runs, mach'.next = mach.next, mach'.default = mach.default,
         NotInstalled' => NotInstalled,
         NotInstalled' /\ pc' \notin {"install", "upload", "dpkg"} =>
           pc \notin {"install", "upload", "dpkg"},
         pc' \in {"online", "install", "upload", "dpkg"} =>
           pc \in {"online", "install", "upload", "dpkg"},
         pc' = "reboot" => pc = "reboot" /\ (strayed => strayed'),
         pc' \in {"reboot", "boot", "ktest"} => pc \in {"reboot", "boot", "ktest"}
  PROVE  HostInv'
  <1>1. mach.runs \in Nat /\ mach.next \in Nat /\ mach.default \in Nat /\ i \in Nat
    BY DEF TypeOK, Machines, Names
  <1>2. Newest <= Newest' /\ Newest \in Int /\ Newest' \in Int
    BY <1>1 DEF Newest
  <1> SUFFICES ASSUME left = None PROVE HostInv!2'
    BY DEF HostInv
  <1>4. HostInv!2
    BY DEF HostInv
  <1>5. mach'.runs <= Newest' /\ mach'.next <= Newest' /\ mach'.default <= Newest'
    BY <1>1, <1>2, <1>4
  <1> QED BY <1>4, <1>5

(* Patches that a bisection before left in the tree go. *)
LEMMA Keeps_clean ==
  ASSUME IInv, clean, BisectAssumption PROVE IInv'
  <1> USE BisectAssumption DEF clean, IInv, None, Own, Rounds, User, Host, Source, Start, Verdict, Fail,
      Machines
  <1>1. TypeOK'
    BY SMTT(30) DEF TypeOK, Commits, Names
  <1>2. SearchInv'
    BY SMTT(30) DEF TypeOK, Commits, Names, SearchInv, NamesOne, Candidates
  <1>3. RoundInv'
    BY SMTT(30) DEF TypeOK, Commits, Names, RoundInv
  <1>4. OwnKernel'
    BY SMTT(30) DEF TypeOK, Commits, Names, OwnKernel
  <1>5. TruthInv'
    BY SMTT(30) DEF TypeOK, Commits, Names, TruthInv, Truth, SearchInv, NamesOne
  <1>6. HostInv'
    BY SMTT(30) DEF TypeOK, Commits, Names, HostInv, NotInstalled, Newest, SearchInv, RoundInv,
        RebootInv
  <1>7. RebootInv'
    BY SMTT(30) DEF TypeOK, Commits, Names, RebootInv, HostInv, NotInstalled, Newest
  <1> QED BY <1>1, <1>2, <1>3, <1>4, <1>5, <1>6, <1>7

(* git bisect start with the good and the bad commit. *)
LEMMA Keeps_bisect_start ==
  ASSUME IInv, bisect_start, BisectAssumption PROVE IInv'
  <1> USE BisectAssumption DEF bisect_start, IInv, None, Own, Rounds, User, Host, Source, Start, Verdict,
      Fail, Machines
  <1> DEFINE Advance == \/ /\ commit' \in git.good + 1 .. git.bad - 1
                           /\ pc' = "configure" /\ result' = result
                        \/ /\ commit' = git.bad /\ git.bad = git.good + 1
                           /\ pc' = "done" /\ result' = "bad"
                        \/ /\ commit' = None /\ Candidates(git) = {} /\ git.bad > git.good + 1
                           /\ pc' = "done" /\ result' = "bad"
  <1>0. Advance
    <2>1. PICK a \in bisect_step_info(git) :
       /\ commit' = a[1]
       /\ IF a[2] THEN pc' = "done" /\ result' = "bad" ELSE pc' = "configure" /\ UNCHANGED result
      BY Zenon
    <2>2. git.good \in Commits /\ git.bad \in Commits /\ git.good < git.bad
      BY DEF TypeOK, SearchInv
    <2> QED BY <2>1, <2>2, StepInfo
  <1> HIDE DEF bisect_start
  <1>z. UNCHANGED <<args, left, culprit, git, tree, i, state, resets, built, tmp, disk, mach,
                    Verdict>> /\ pc = "start"
    BY DEF bisect_start
  <1>1. TypeOK'
    BY <1>0, <1>z, SMTT(30) DEF TypeOK, Commits, Names
  <1>2. SearchInv'
    BY <1>0, <1>z, SMTT(30) DEF TypeOK, Commits, Names, SearchInv, NamesOne, Candidates
  <1>3. RoundInv'
    BY <1>0, <1>z, SMTT(30) DEF TypeOK, Commits, Names, RoundInv
  <1>4. OwnKernel'
    BY <1>0, <1>z, SMTT(30) DEF TypeOK, Commits, Names, OwnKernel
  <1>5. TruthInv'
    BY <1>0, <1>z, SMTT(30) DEF TypeOK, Commits, Names, TruthInv, Truth, SearchInv, NamesOne
  <1>6. HostInv'
    BY <1>0, <1>z, SMTT(30) DEF TypeOK, Commits, Names, HostInv, NotInstalled, Newest, SearchInv,
        RoundInv, RebootInv
  <1>7. RebootInv'
    BY <1>0, <1>z, SMTT(30) DEF TypeOK, Commits, Names, RebootInv, HostInv, NotInstalled, Newest
  <1> QED BY <1>1, <1>2, <1>3, <1>4, <1>5, <1>6, <1>7

(* The configuration of the kernel. *)
LEMMA Keeps_configure ==
  ASSUME IInv, configure, BisectAssumption PROVE IInv'
  <1> USE BisectAssumption DEF configure, IInv, None, Own, Rounds, User, Host, Source, Start, Verdict,
      Fail, Machines
  <1>0. strayed' \in BOOLEAN
    BY Zenon
  <1>1. TypeOK'
    BY <1>0, SMTT(30) DEF TypeOK, Commits, Names
  <1>2. SearchInv'
    BY SMTT(30) DEF TypeOK, Commits, Names, SearchInv, NamesOne, Candidates
  <1>3. RoundInv'
    BY SMTT(30) DEF TypeOK, Commits, Names, RoundInv
  <1>4. OwnKernel'
    BY SMTT(30) DEF TypeOK, Commits, Names, OwnKernel
  <1>5. TruthInv'
    BY SMTT(30) DEF TypeOK, Commits, Names, TruthInv, Truth, SearchInv, NamesOne
  <1>6. HostInv'
    BY SMTT(30) DEF TypeOK, Commits, Names, HostInv, NotInstalled, Newest, SearchInv, RoundInv,
        RebootInv
  <1>7. RebootInv'
    BY SMTT(30) DEF TypeOK, Commits, Names, RebootInv, HostInv, NotInstalled, Newest
  <1> QED BY <1>1, <1>2, <1>3, <1>4, <1>5, <1>6, <1>7

(* The build of the kernel. *)
LEMMA Keeps_build ==
  ASSUME IInv, build, BisectAssumption PROVE IInv'
  <1> USE BisectAssumption DEF build, IInv, None, Own, Rounds, User, Host, Source, Start, Verdict, Fail,
      Machines, automatic
  <1>1. TypeOK'
    BY SMTT(30) DEF TypeOK, Commits, Names
  <1>2. SearchInv'
    BY SMTT(30) DEF TypeOK, Commits, Names, SearchInv, NamesOne, Candidates
  <1>3. RoundInv'
    BY SMTT(30) DEF TypeOK, Commits, Names, RoundInv
  <1>4. OwnKernel'
    BY SMTT(30) DEF TypeOK, Commits, Names, OwnKernel
  <1>5. TruthInv'
    BY SMTT(30) DEF TypeOK, Commits, Names, TruthInv, Truth, SearchInv, NamesOne
  <1>6. HostInv'
    BY SMTT(30) DEF TypeOK, Commits, Names, HostInv, NotInstalled, Newest, SearchInv, RoundInv,
        RebootInv
  <1>7. RebootInv'
    BY SMTT(30) DEF TypeOK, Commits, Names, RebootInv, HostInv, NotInstalled, Newest
  <1> QED BY <1>1, <1>2, <1>3, <1>4, <1>5, <1>6, <1>7

(* The question to the user about a build that failed. *)
LEMMA Keeps_BuildPrompt ==
  ASSUME IInv, BuildPrompt, BisectAssumption PROVE IInv'
  <1> USE BisectAssumption DEF BuildPrompt, IInv, None, Own, Rounds, User, Host, Source, Start, Verdict,
      Fail, Machines
  <1>1. TypeOK'
    BY SMTT(30) DEF TypeOK, Commits, Names
  <1>2. SearchInv'
    BY SMTT(30) DEF TypeOK, Commits, Names, SearchInv, NamesOne, Candidates
  <1>3. RoundInv'
    BY SMTT(30) DEF TypeOK, Commits, Names, RoundInv
  <1>4. OwnKernel'
    BY SMTT(30) DEF TypeOK, Commits, Names, OwnKernel
  <1>5. TruthInv'
    BY SMTT(30) DEF TypeOK, Commits, Names, TruthInv, Truth, SearchInv, NamesOne
  <1>6. HostInv'
    BY SMTT(30) DEF TypeOK, Commits, Names, HostInv, NotInstalled, Newest, SearchInv, RoundInv,
        RebootInv
  <1>7. RebootInv'
    BY SMTT(30) DEF TypeOK, Commits, Names, RebootInv, HostInv, NotInstalled, Newest
  <1> QED BY <1>1, <1>2, <1>3, <1>4, <1>5, <1>6, <1>7

(* The wait before the install.                                               *)
LEMMA Keeps_WaitOnline ==
  ASSUME IInv, WaitOnline, BisectAssumption PROVE IInv'
  <1> USE BisectAssumption DEF None, Own, Rounds, User, Host, Source, Start, Verdict, Fail
  <1>1. mach \in Machines /\ mach' \in {mach, reset_machine(mach)} /\ resets' \in Nat
    BY DEF WaitOnline, IInv, TypeOK
  <1>2. /\ mach' \in Machines /\ mach'.runs = mach.runs /\ mach'.next = mach.next
        /\ mach'.default = mach.default /\ mach'.up \in {mach.up, "booting"}
    BY <1>1, MachSet, Zenon
  <1>3. \/ pc' = "online" /\ result' = result
        \/ pc' = "install" /\ mach' = mach /\ mach.up \in {"up", "leaving"} /\ result' = result
        \/ pc' = "done" /\ result' = "error"
    <2>1. PICK e \in wait_for_boot(None) :
            \/ e = "none" /\ resets' = 0 /\ pc' = "install" /\ UNCHANGED <<mach, result>>
            \/ pc' = pc /\ result' = result
            \/ pc' = "done" /\ result' = "error"
      BY Zenon DEF WaitOnline
    <2> QED BY <2>1, <1>1, WaitInfo DEF WaitOnline, Machines
  <1>4. UNCHANGED <<args, left, culprit, git, tree, commit, i, state, built, tmp, disk,
                    Verdict>> /\ pc = "online"
    BY DEF WaitOnline
  <1>5. TypeOK'
    BY <1>1, <1>2, <1>3, <1>4 DEF IInv, TypeOK, Commits, Names
  <1>6. (SearchInv /\ RoundInv /\ OwnKernel /\ TruthInv)'
    BY <1>3, <1>4 DEF IInv, TypeOK, SearchInv, RoundInv, OwnKernel, TruthInv, Truth, NamesOne,
        Candidates
  <1>7. HostInv'
    BY <1>2, <1>3, <1>4, HostKept DEF IInv, NotInstalled
  <1>8. RebootInv'
    BY <1>2, <1>3, <1>4 DEF IInv, TypeOK, RebootInv, HostInv
  <1> QED BY <1>5, <1>6, <1>7, <1>8 DEF IInv

(* The checks before the installation. *)
LEMMA Keeps_InstallCheck ==
  ASSUME IInv, InstallCheck, BisectAssumption PROVE IInv'
  <1> USE BisectAssumption DEF InstallCheck, IInv, None, Own, Rounds, User, Host, Source, Start, Verdict,
      Fail, Machines, InstallFailed, Hears
  <1>1. TypeOK'
    BY SMTT(30) DEF TypeOK, Commits, Names
  <1>2. SearchInv'
    BY SMTT(30) DEF TypeOK, Commits, Names, SearchInv, NamesOne, Candidates
  <1>3. RoundInv'
    BY SMTT(30) DEF TypeOK, Commits, Names, RoundInv
  <1>4. OwnKernel'
    BY SMTT(30) DEF TypeOK, Commits, Names, OwnKernel
  <1>5. TruthInv'
    BY SMTT(30) DEF TypeOK, Commits, Names, TruthInv, Truth, SearchInv, NamesOne
  <1>6. HostInv'
    BY SMTT(30) DEF TypeOK, Commits, Names, HostInv, NotInstalled, Newest, SearchInv, RoundInv,
        RebootInv
  <1>7. RebootInv'
    BY SMTT(30) DEF TypeOK, Commits, Names, RebootInv, HostInv, NotInstalled, Newest
  <1> QED BY <1>1, <1>2, <1>3, <1>4, <1>5, <1>6, <1>7

(* The packages go to the machine. *)
LEMMA Keeps_Upload ==
  ASSUME IInv, Upload, BisectAssumption PROVE IInv'
  <1> USE BisectAssumption DEF Upload, IInv, None, Own, Rounds, User, Host, Source, Start, Verdict, Fail,
      Machines, Hears
  <1>1. TypeOK'
    BY SMTT(30) DEF TypeOK, Commits, Names
  <1>2. SearchInv'
    BY SMTT(30) DEF TypeOK, Commits, Names, SearchInv, NamesOne, Candidates
  <1>3. RoundInv'
    BY SMTT(30) DEF TypeOK, Commits, Names, RoundInv
  <1>4. OwnKernel'
    BY SMTT(30) DEF TypeOK, Commits, Names, OwnKernel
  <1>5. TruthInv'
    BY SMTT(30) DEF TypeOK, Commits, Names, TruthInv, Truth, SearchInv, NamesOne
  <1>6. HostInv'
    BY SMTT(30) DEF TypeOK, Commits, Names, HostInv, NotInstalled, Newest, SearchInv, RoundInv,
        RebootInv
  <1>7. RebootInv'
    BY SMTT(30) DEF TypeOK, Commits, Names, RebootInv, HostInv, NotInstalled, Newest
  <1> QED BY <1>1, <1>2, <1>3, <1>4, <1>5, <1>6, <1>7

(* The installation, which names the kernel of the next boot. *)
LEMMA Keeps_install_kernel ==
  ASSUME IInv, install_kernel, BisectAssumption PROVE IInv'
  <1> USE BisectAssumption DEF install_kernel, IInv, None, Own, Rounds, User, Host, Source,
      Start, Verdict, Fail, Machines, InstallFailed, Hears, listed
  <1>0. /\ mach' \in Machines /\ mach'.up = mach.up /\ mach'.runs = mach.runs
        /\ mach'.next \in {mach.next, i} /\ mach'.default \in {mach.default, i}
        /\ pc' # "reboot" => mach' = mach
        /\ disk' \in [Rounds -> Commits \cup {None}]
    <2>1. mach \in Machines /\ i \in 0 .. MaxRounds /\ disk \in [Rounds -> Commits \cup {None}]
          /\ tmp \in [Rounds -> Commits \cup {None}] /\ i \in Rounds
      BY DEF TypeOK, RoundInv, Names
    <2>2. pc' = "reboot" \/ mach' = mach
      BY DEF InstallFailed
    <2>3. mach' \in {mach, [mach EXCEPT !.default = i], [mach EXCEPT !.next = i]}
      OBVIOUS
    <2>4. disk' \in {disk, [disk EXCEPT ![i] = tmp[i]]}
      OBVIOUS
    <2>5. i \in Names /\ Names \subseteq Int
      BY <2>1 DEF Names
    <2>6. /\ mach' \in Machines /\ mach'.up = mach.up /\ mach'.runs = mach.runs
          /\ mach'.next \in {mach.next, i} /\ mach'.default \in {mach.default, i}
      <3> HIDE DEF install_kernel, IInv
      <3> QED BY <2>1, <2>3, <2>5
    <2>7. disk' \in [Rounds -> Commits \cup {None}]
      <3> HIDE DEF install_kernel, IInv, Machines
      <3> QED BY <2>1, <2>4
    <2> QED BY <2>2, <2>6, <2>7, Zenon
  <1>1. TypeOK'
    BY <1>0, SMTT(30) DEF TypeOK, Commits, Names
  <1>2. SearchInv'
    BY <1>0, SMTT(30) DEF TypeOK, Commits, Names, SearchInv, NamesOne, Candidates
  <1>3. RoundInv'
    BY <1>0, SMTT(30) DEF TypeOK, Commits, Names, RoundInv
  <1>4. OwnKernel'
    BY <1>0, SMTT(30) DEF TypeOK, Commits, Names, OwnKernel
  <1>5. TruthInv'
    BY <1>0, SMTT(30) DEF TypeOK, Commits, Names, TruthInv, Truth, SearchInv, NamesOne
  <1>6. HostInv'
    <2> SUFFICES ASSUME left = None PROVE HostInv!2'
      BY DEF HostInv
    <2>1. HostInv!2 /\ NotInstalled /\ Newest = i - 1 /\ i \in Rounds /\ pc = "dpkg"
      BY DEF HostInv, NotInstalled, Newest, RoundInv
    <2>2. /\ disk' \in {disk, [disk EXCEPT ![i] = tmp[i]]} /\ UNCHANGED <<tmp, commit, i, left,
                                                                          built>>
          /\ disk \in [Rounds -> Commits \cup {None}]
      BY DEF TypeOK
    <2>3. /\ \A n \in Rounds : n > i => disk'[n] = None
          /\ disk'[i] \in {None, commit}
      BY <2>1, <2>2
    <2>4. pc' \in {"install", "reboot", "done"} /\ (pc' = "reboot" => disk'[i] # None)
      BY DEF InstallFailed
    <2>5. NotInstalled' <=> pc' = "install"
      BY <2>4 DEF NotInstalled
    <2>6. Newest' \in {i, i - 1} /\ (pc' = "reboot" => Newest' = i) /\ (pc' # "reboot" => mach' = mach)
      BY <2>2, <2>4, <2>5, <1>0 DEF Newest
    <2>7. mach.runs \in Nat /\ mach.next \in Nat /\ mach.default \in Nat
      BY DEF TypeOK, Names
    <2>8. mach'.runs <= Newest' /\ mach'.next <= Newest' /\ mach'.default <= Newest'
      <3>1. CASE pc' = "reboot"
        BY <3>1, <1>0, <2>1, <2>6, <2>7
      <3>2. CASE pc' # "reboot"
        BY <3>2, <2>1, <2>6, <2>7
      <3> QED BY <3>1, <3>2
    <2>9. pc' = "reboot" => mach'.runs < i
      BY <1>0, <2>1, <2>7
    <2> HIDE DEF install_kernel
    <2> QED BY <2>1, <2>2, <2>3, <2>4, <2>5, <2>8, <2>9
  <1>7. RebootInv'
    BY <1>0, SMTT(30) DEF TypeOK, Commits, Names, RebootInv, HostInv, NotInstalled, Newest
  <1> QED BY <1>1, <1>2, <1>3, <1>4, <1>5, <1>6, <1>7

(* The reboot that is asked of the machine. *)
LEMMA Keeps_Reboot ==
  ASSUME IInv, Reboot, BisectAssumption PROVE IInv'
  <1> USE BisectAssumption DEF Reboot, IInv, None, Own, Rounds, User, Host, Source, Start, Verdict, Fail,
      Machines
  <1>0. /\ mach' \in Machines /\ mach'.runs = mach.runs /\ mach'.next = mach.next
        /\ mach'.default = mach.default
        /\ IF mach.up = "up" THEN mach'.up = "leaving" ELSE mach' = mach
    BY MachSet DEF TypeOK, reboot
  <1>1. TypeOK'
    BY <1>0, SMTT(30) DEF TypeOK, Commits, Names
  <1>2. SearchInv'
    BY <1>0, SMTT(30) DEF TypeOK, Commits, Names, SearchInv, NamesOne, Candidates
  <1>3. RoundInv'
    BY <1>0, SMTT(30) DEF TypeOK, Commits, Names, RoundInv
  <1>4. OwnKernel'
    BY <1>0, SMTT(30) DEF TypeOK, Commits, Names, OwnKernel
  <1>5. TruthInv'
    BY <1>0, SMTT(30) DEF TypeOK, Commits, Names, TruthInv, Truth, SearchInv, NamesOne
  <1>6. HostInv'
    BY <1>0, SMTT(30) DEF TypeOK, Commits, Names, HostInv, NotInstalled, Newest, SearchInv, RoundInv,
        RebootInv
  <1>7. RebootInv'
    BY <1>0, SMTT(30) DEF TypeOK, Commits, Names, RebootInv, HostInv, NotInstalled, Newest
  <1> QED BY <1>1, <1>2, <1>3, <1>4, <1>5, <1>6, <1>7

(* The wait for the round's kernel.                                           *)
LEMMA Keeps_WaitBoot ==
  ASSUME IInv, WaitBoot, BisectAssumption PROVE IInv'
  <1> USE BisectAssumption DEF None, Own, Rounds, User, Host, Source, Start, Verdict, Fail
  <1>0. PICK e \in wait_for_boot(i) :
       \/ /\ e = "none" /\ pc' = (IF args.ktest THEN "ktest" ELSE IF User THEN "grade" ELSE "step")
          /\ UNCHANGED <<tree, state, resets, mach, Verdict, result>>
       \/ /\ e # "none" /\ args.hangbad
          /\ Grade("bad", None) /\ mach' = reset_machine(mach) /\ UNCHANGED <<resets, result>>
       \/ /\ e = "offline" /\ ~args.hangbad /\ args.resetcmd /\ resets < 1
          /\ mach' = reset_machine(mach) /\ resets' = resets + 1
          /\ UNCHANGED <<pc, tree, state, Verdict, result>>
       \/ /\ e # "none" /\ ~args.hangbad /\ ~(e = "offline" /\ args.resetcmd /\ resets < 1)
          /\ \/ User /\ UNCHANGED <<pc, tree, state, Verdict, result>>
             \/ User /\ \E v \in {Truth(commit), "skip"} : Grade(v, commit) /\ UNCHANGED result
             \/ Fail /\ UNCHANGED <<tree, state, Verdict>>
          /\ UNCHANGED <<resets, mach>>
    BY Zenon DEF WaitBoot
  <1>1. /\ UNCHANGED <<args, left, culprit, git, commit, i, built, tmp, disk>> /\ pc = "boot"
        /\ mach \in Machines /\ mach' \in {mach, reset_machine(mach)} /\ resets' \in Nat
        /\ guess \in BOOLEAN /\ state = "none" /\ result = "none" /\ i \in Rounds
        /\ commit \in Commits /\ commit # None /\ commit # None
    BY <1>0 DEF WaitBoot, IInv, TypeOK, SearchInv, RoundInv, Commits
  <1>2. /\ mach' \in Machines /\ mach'.runs = mach.runs /\ mach'.next = mach.next
        /\ mach'.default = mach.default /\ mach'.up \in {mach.up, "booting"}
    BY <1>1, MachSet, Zenon
  <1>3. \/ /\ pc' \in {"boot", "ktest", "grade"} /\ UNCHANGED <<tree, state, Verdict, result>>
           /\ pc' \in {"ktest", "grade"} =>
                mach' = mach /\ mach.up \in {"up", "leaving"} /\ mach.runs = i
        \/ pc' = "step" /\ UNCHANGED <<tree, state, Verdict, result>>
        \/ /\ pc' = "step" /\ tree' = "clean" /\ result' = result /\ state' = "bad"
           /\ guess' = TRUE /\ args.hangbad /\ about' = None /\ strayed' = strayed
        \/ /\ pc' = "step" /\ tree' = "clean" /\ result' = result
           /\ state' \in {Truth(commit), "skip"} /\ guess' = guess
           /\ about' = commit /\ strayed' = strayed
        \/ pc' = "done" /\ result' = "error" /\ UNCHANGED <<tree, state, Verdict>>
    <2>1. e = "none" => mach.up \in {"up", "leaving"} /\ mach.runs = i
      <3>1. i # None
        BY <1>1
      <3>2. e = "none" => mach.up \in {"up", "leaving"} /\ (i # None => mach.runs = i)
        BY <1>1, WaitInfo
      <3> QED BY <3>1, <3>2
    <2>2. CASE /\ e = "none" /\ pc' = (IF args.ktest THEN "ktest" ELSE IF User THEN "grade" ELSE "step")
               /\ UNCHANGED <<tree, state, resets, mach, Verdict, result>>
      BY <1>1, <2>1, <2>2
    <2>3. CASE args.hangbad /\ Grade("bad", None) /\ UNCHANGED result
      BY <1>1, <2>3, Zenon DEF Grade
    <2>4. CASE UNCHANGED <<pc, tree, state, Verdict, result>>
      BY <1>1, <2>4
    <2>5. CASE \E v \in {Truth(commit), "skip"} : Grade(v, commit) /\ UNCHANGED result
      <3>1. PICK v \in {Truth(commit), "skip"} : Grade(v, commit) /\ UNCHANGED result
        BY <2>5
      <3>2. guess' = guess
        BY <3>1, <1>1, Zenon DEF Grade
      <3> QED BY <3>1, <3>2, Zenon DEF Grade
    <2>6. CASE Fail /\ UNCHANGED <<tree, state, Verdict>>
      BY <2>6
    <2> QED BY <1>0, <2>2, <2>3, <2>4, <2>5, <2>6
  <1>4. TypeOK'
    <2>1. Truth(commit) \in {"good", "bad"}
      BY DEF Truth
    <2> QED BY <1>1, <1>2, <1>3, <2>1 DEF IInv, TypeOK, Commits, Names
  <1>5. (SearchInv /\ RoundInv)'
    BY <1>1, <1>3 DEF IInv, TypeOK, SearchInv, RoundInv, NamesOne, Candidates
  <1>6. OwnKernel' /\ TruthInv'
    BY <1>1, <1>3 DEF IInv, OwnKernel, TruthInv, SearchInv, Truth
  <1>7. HostInv'
    BY <1>1, <1>2, <1>3, HostKept DEF IInv, NotInstalled, Truth
  <1>8. RebootInv'
    BY <1>1, <1>2, <1>3 DEF IInv, TypeOK, RebootInv, HostInv, Names, Machines
  <1> QED BY <1>4, <1>5, <1>6, <1>7, <1>8 DEF IInv

(* The test, and what the user says of it.                                    *)
LEMMA Keeps_ktest ==
  ASSUME IInv, ktest, BisectAssumption PROVE IInv'
  <1> USE BisectAssumption DEF None, Own, Rounds, User, Host, Source, Start, Verdict, Fail
  <1>1. /\ UNCHANGED <<args, left, culprit, git, commit, i, resets, built, tmp, disk, mach>>
        /\ pc = "ktest" /\ guess \in BOOLEAN /\ state = "none" /\ result = "none" /\ i \in Rounds
        /\ commit \in Commits /\ culprit \in 1 .. N
    BY DEF ktest, IInv, TypeOK, SearchInv, RoundInv, Commits
  <1>2. left = None /\ ~strayed => mach.up \in {"up", "hung"} /\ Kernel = commit
    BY <1>1 DEF IInv, HostInv, RebootInv, Kernel
  <1>3. \/ UNCHANGED <<pc, tree, state, Verdict, result>>
        \/ pc' = "done" /\ result' = "error" /\ UNCHANGED <<tree, state, Verdict>>
        \/ /\ pc' = "step" /\ tree' = "clean" /\ result' = result
           /\ state' = Truth(commit) /\ guess' = guess
           /\ about' = commit /\ strayed' = strayed
        \/ /\ pc' = "step" /\ tree' = "clean" /\ result' = result
           /\ state' \in {"good", "bad"} /\ guess' = TRUE
           /\ about' \in Commits \cup {None} /\ strayed' = strayed
           /\ args.ktesthangbad \/ left # None \/ strayed
    <2>0. \A c : Truth(c) \in {"good", "bad"} /\ Truth(c) # "skip"
      BY DEF Truth
    <2>1. CASE Grade(Truth(Kernel), Kernel) /\ UNCHANGED result
      <3>1. CASE Kernel = commit
        BY <2>1, <3>1, <1>1, <2>0, Zenon DEF Grade
      <3>2. CASE Kernel # commit
        <4>1. (left # None \/ strayed) /\ Kernel \in Commits \cup {None}
          <5>1. mach.runs \in 0 .. MaxRounds /\ disk \in [Rounds -> Commits \cup {None}]
            BY DEF IInv, TypeOK, Machines, Names
          <5> QED BY <3>2, <1>2, <5>1 DEF Kernel
        <4>2. guess' = TRUE
          BY <2>1, <3>2, <2>0, Zenon DEF Grade
        <4> QED BY <2>1, <4>1, <4>2, <2>0, Zenon DEF Grade
      <3> QED BY <3>1, <3>2
    <2>2. CASE args.ktesthangbad /\ Grade("bad", None) /\ UNCHANGED result
      <3>1. guess' = TRUE
        <4>1. commit # None
          BY <1>1 DEF Commits
        <4>2. "bad" # "skip"
          OBVIOUS
        <4> QED BY <2>2, <4>1, <4>2, Zenon DEF Grade
      <3> QED BY <2>2, <3>1, Zenon DEF Grade
    <2>3. CASE Grade(Truth(commit), commit) /\ UNCHANGED result
      BY <2>3, <1>1, Zenon DEF Grade
    <2>4. CASE UNCHANGED <<pc, tree, state, Verdict, result>>
      BY <2>4
    <2>5. CASE Fail /\ UNCHANGED <<tree, state, Verdict>>
      BY <2>5
    <2> QED BY <2>1, <2>2, <2>3, <2>4, <2>5, Zenon DEF ktest
  <1>4. TypeOK'
    <2>1. Truth(commit) \in {"good", "bad"}
      BY DEF Truth
    <2> QED BY <1>1, <1>3, <2>1 DEF IInv, TypeOK, Commits, Names
  <1>5. (SearchInv /\ RoundInv)'
    BY <1>1, <1>3 DEF IInv, TypeOK, SearchInv, RoundInv, NamesOne, Candidates
  <1>6. OwnKernel' /\ TruthInv'
    BY <1>1, <1>3 DEF IInv, OwnKernel, TruthInv, SearchInv, Truth
  <1>7. HostInv'
    BY <1>1, <1>3, HostKept DEF IInv, NotInstalled, Truth
  <1>8. RebootInv'
    BY <1>1, <1>3 DEF IInv, RebootInv
  <1> QED BY <1>4, <1>5, <1>6, <1>7, <1>8 DEF IInv

(* The verdict of the user. *)
LEMMA Keeps_AskUser ==
  ASSUME IInv, AskUser, BisectAssumption PROVE IInv'
  <1> USE BisectAssumption DEF AskUser, IInv, None, Own, Rounds, User, Host, Source, Start, Verdict, Fail,
      Machines
  <1>0. /\ UNCHANGED <<args, left, culprit, git, commit, i, resets, built, tmp, disk, mach,
                       result>>
        /\ pc = "grade" /\ pc' = "step" /\ tree' = "clean" /\ state' = Truth(commit)
        /\ guess' = guess /\ guess \in BOOLEAN /\ Truth(commit) \in {"good", "bad"}
        /\ about' = commit /\ strayed' = strayed
    <2>1. guess \in BOOLEAN /\ Truth(commit) \in {"good", "bad"}
      BY DEF TypeOK, Truth
    <2>2. guess' = guess
      BY <2>1, Zenon DEF Grade
    <2> QED BY <2>1, <2>2 DEF Grade
  <1> HIDE DEF AskUser
  <1>1. TypeOK'
    BY <1>0, SMTT(30) DEF TypeOK, Commits, Names
  <1>2. SearchInv'
    BY <1>0, SMTT(30) DEF TypeOK, Commits, Names, SearchInv, NamesOne, Candidates
  <1>3. RoundInv'
    BY <1>0, SMTT(30) DEF TypeOK, Commits, Names, RoundInv
  <1>4. OwnKernel'
    BY <1>0, SMTT(30) DEF TypeOK, Commits, Names, OwnKernel
  <1>5. TruthInv'
    BY <1>0, SMTT(30) DEF TypeOK, Commits, Names, TruthInv, Truth, SearchInv, NamesOne
  <1>6. HostInv'
    BY <1>0, SMTT(30) DEF TypeOK, Commits, Names, HostInv, NotInstalled, Newest, SearchInv, RoundInv,
        RebootInv
  <1>7. RebootInv'
    BY <1>0, SMTT(30) DEF TypeOK, Commits, Names, RebootInv, HostInv, NotInstalled, Newest
  <1> QED BY <1>1, <1>2, <1>3, <1>4, <1>5, <1>6, <1>7

(* The verdict reaches git, and git names the next commit or the last one.    *)
LEMMA Keeps_Step ==
  ASSUME IInv, Step, BisectAssumption PROVE IInv'
  <1> USE BisectAssumption DEF None, Own, Rounds, User, Host, Source, Start, Verdict, Fail
  <1> DEFINE Told == \E g \in [good : Commits, bad : Commits, skipped : SUBSET Commits] :
                        /\ git' = g
                        /\ \/ state = "good" /\ g.good = commit /\ g.bad = git.bad
                           \/ state = "bad" /\ g.bad = commit /\ g.good = git.good
                           \/ state \in {"skip", "skipbuild"} /\ g.good = git.good /\ g.bad = git.bad
                        /\ \/ /\ commit' \in g.good + 1 .. g.bad - 1
                              /\ pc' = "configure" /\ result' = result
                           \/ /\ commit' = g.bad /\ g.bad = g.good + 1
                              /\ pc' = "done" /\ result' = "bad"
                           \/ /\ commit' = None /\ Candidates(g) = {} /\ g.bad > g.good + 1
                              /\ pc' = "done" /\ result' = "bad"
  <1>1. ASSUME state # "none" PROVE Told
    <2>1. /\ git \in [good : Commits, bad : Commits, skipped : SUBSET Commits]
          /\ commit \in Commits /\ git.good < commit /\ commit < git.bad /\ tree = "clean"
          /\ state \in {"good", "bad", "skip", "skipbuild"}
      BY <1>1 DEF Step, IInv, TypeOK, SearchInv, Commits
    <2>2. bisect_step(IF state = "skipbuild" THEN "skip" ELSE state)
      BY <1>1 DEF Step
    <2>3. PICK g : /\ g = git'
                   /\ \/ state = "good" /\ g = [git EXCEPT !.good = commit]
                      \/ state = "bad" /\ g = [git EXCEPT !.bad = commit]
                      \/ state \in {"skip", "skipbuild"} /\ g = [git EXCEPT !.skipped = @ \cup {commit}]
      BY <2>1, <2>2 DEF bisect_step
    <2>4. /\ g \in [good : Commits, bad : Commits, skipped : SUBSET Commits]
          /\ g.good < g.bad
          /\ \/ state = "good" /\ g.good = commit /\ g.bad = git.bad
             \/ state = "bad" /\ g.bad = commit /\ g.good = git.good
             \/ state \in {"skip", "skipbuild"} /\ g.good = git.good /\ g.bad = git.bad
      BY <2>1, <2>3 DEF Commits
    <2>5. PICK a \in bisect_step_info(g) :
            /\ commit' = a[1]
            /\ IF a[2] THEN pc' = "done" /\ result' = "bad" ELSE pc' = "configure" /\ UNCHANGED result
      BY <2>1, <2>2, <2>3 DEF bisect_step
    <2> QED BY <2>3, <2>4, <2>5, StepInfo DEF Commits
  <1>2. \/ state = "none" /\ pc' = "done" /\ result' = "error" /\ UNCHANGED <<git, commit>>
        \/ state # "none" /\ Told
    BY <1>1 DEF Step
  <1>3. /\ UNCHANGED <<args, left, culprit, tree, i, state, resets, built, tmp, disk, mach,
                       Verdict>>
        /\ pc = "step" /\ result = "none"
    BY DEF Step, IInv, SearchInv
  <1>4. TypeOK'
    BY <1>2, <1>3 DEF IInv, TypeOK, Commits, Names
  <1>5. (SearchInv /\ RoundInv /\ OwnKernel)'
    BY <1>2, <1>3 DEF IInv, TypeOK, SearchInv, RoundInv, OwnKernel, NamesOne, Commits
  <1>6. TruthInv'
    BY <1>2, <1>3, SMTT(30) DEF IInv, TypeOK, SearchInv, TruthInv, Truth, Commits
  <1>7. HostInv'
    <2>1. pc' \in {"configure", "done"} /\ mach.runs \in Nat /\ mach.next \in Nat
          /\ mach.default \in Nat /\ i \in Rounds
      BY <1>2, <1>3 DEF IInv, TypeOK, Machines, Names, RoundInv
    <2> QED BY <1>3, <2>1 DEF IInv, HostInv, NotInstalled, Newest
  <1>8. RebootInv'
    BY <1>2, <1>3 DEF RebootInv
  <1> QED BY <1>4, <1>5, <1>6, <1>7, <1>8 DEF IInv

(* The machine goes down. *)
LEMMA Keeps_GoDown ==
  ASSUME IInv, GoDown, BisectAssumption PROVE IInv'
  <1> USE BisectAssumption DEF GoDown, IInv, None, Own, Rounds, User, Host, Source, Start, Verdict, Fail,
      Machines
  <1>0. /\ mach' \in Machines /\ mach'.runs = mach.runs /\ mach'.next = mach.next
        /\ mach'.default = mach.default /\ mach'.up = "booting"
    BY MachSet DEF TypeOK
  <1>1. TypeOK'
    BY <1>0, SMTT(30) DEF TypeOK, Commits, Names
  <1>2. SearchInv'
    BY <1>0, SMTT(30) DEF TypeOK, Commits, Names, SearchInv, NamesOne, Candidates
  <1>3. RoundInv'
    BY <1>0, SMTT(30) DEF TypeOK, Commits, Names, RoundInv
  <1>4. OwnKernel'
    BY <1>0, SMTT(30) DEF TypeOK, Commits, Names, OwnKernel
  <1>5. TruthInv'
    BY <1>0, SMTT(30) DEF TypeOK, Commits, Names, TruthInv, Truth, SearchInv, NamesOne
  <1>6. HostInv'
    BY <1>0, SMTT(30) DEF TypeOK, Commits, Names, HostInv, NotInstalled, Newest, SearchInv, RoundInv,
        RebootInv
  <1>7. RebootInv'
    BY <1>0, SMTT(30) DEF TypeOK, Commits, Names, RebootInv, HostInv, NotInstalled, Newest
  <1> QED BY <1>1, <1>2, <1>3, <1>4, <1>5, <1>6, <1>7

(* The machine boots the kernel chosen for the next boot or the default one. *)
LEMMA Keeps_Boot ==
  ASSUME IInv, Boot, BisectAssumption PROVE IInv'
  <1> USE BisectAssumption DEF Boot, IInv, None, Own, Rounds, User, Host, Source, Start, Verdict, Fail,
      Machines, BootEntry
  <1>0. /\ mach' \in Machines /\ mach'.runs \in {mach.next, mach.default} /\ mach'.next = Own
        /\ mach'.default = mach.default /\ mach'.up \in {"up", "hung"} /\ mach.up = "booting"
    <2>1. PICK u \in {"up", "hung"} :
            mach' = [mach EXCEPT !.up = u, !.runs = BootEntry, !.next = Own]
      BY Zenon
    <2>2. mach \in Machines /\ BootEntry \in {mach.next, mach.default} /\ Own \in Names
      BY DEF TypeOK, Names
    <2> HIDE DEF BootEntry, Own
    <2>3. mach' = [mach EXCEPT !.up = u, !.runs = BootEntry, !.next = Own]
      BY <2>1
    <2> QED BY <2>2, <2>3
  <1>z. UNCHANGED <<Start, Source, i, pc, state, resets, built, tmp, disk, Verdict, result>>
    OBVIOUS
  <1> HIDE DEF Boot
  <1>1. TypeOK'
    BY <1>0, <1>z, SMTT(30) DEF TypeOK, Commits, Names
  <1>2. SearchInv'
    BY <1>0, <1>z, SMTT(30) DEF TypeOK, Commits, Names, SearchInv, NamesOne, Candidates
  <1>3. RoundInv'
    BY <1>0, <1>z, SMTT(30) DEF TypeOK, Commits, Names, RoundInv
  <1>4. OwnKernel'
    BY <1>0, <1>z, SMTT(30) DEF TypeOK, Commits, Names, OwnKernel
  <1>5. TruthInv'
    BY <1>0, <1>z, SMTT(30) DEF TypeOK, Commits, Names, TruthInv, Truth, SearchInv, NamesOne
  <1>6. HostInv'
    BY <1>0, <1>z, SMTT(30) DEF TypeOK, Commits, Names, HostInv, NotInstalled, Newest, SearchInv,
        RoundInv, RebootInv
  <1>7. RebootInv'
    BY <1>0, <1>z, SMTT(30) DEF TypeOK, Commits, Names, RebootInv, HostInv, NotInstalled, Newest
  <1> QED BY <1>1, <1>2, <1>3, <1>4, <1>5, <1>6, <1>7

(* The machine hangs. *)
LEMMA Keeps_Hang ==
  ASSUME IInv, Hang, BisectAssumption PROVE IInv'
  <1> USE BisectAssumption DEF Hang, IInv, None, Own, Rounds, User, Host, Source, Start, Verdict, Fail,
      Machines
  <1>0. /\ mach' \in Machines /\ mach'.runs = mach.runs /\ mach'.next = mach.next
        /\ mach'.default = mach.default /\ mach'.up = "hung"
    BY MachSet DEF TypeOK
  <1>1. TypeOK'
    BY <1>0, SMTT(30) DEF TypeOK, Commits, Names
  <1>2. SearchInv'
    BY <1>0, SMTT(30) DEF TypeOK, Commits, Names, SearchInv, NamesOne, Candidates
  <1>3. RoundInv'
    BY <1>0, SMTT(30) DEF TypeOK, Commits, Names, RoundInv
  <1>4. OwnKernel'
    BY <1>0, SMTT(30) DEF TypeOK, Commits, Names, OwnKernel
  <1>5. TruthInv'
    BY <1>0, SMTT(30) DEF TypeOK, Commits, Names, TruthInv, Truth, SearchInv, NamesOne
  <1>6. HostInv'
    BY <1>0, SMTT(30) DEF TypeOK, Commits, Names, HostInv, NotInstalled, Newest, SearchInv, RoundInv,
        RebootInv
  <1>7. RebootInv'
    BY <1>0, SMTT(30) DEF TypeOK, Commits, Names, RebootInv, HostInv, NotInstalled, Newest
  <1> QED BY <1>1, <1>2, <1>3, <1>4, <1>5, <1>6, <1>7

(* The machine is reset by hand or by itself. *)
LEMMA Keeps_Restart ==
  ASSUME IInv, Restart, BisectAssumption PROVE IInv'
  <1> USE BisectAssumption DEF Restart, IInv, None, Own, Rounds, User, Host, Source, Start, Verdict, Fail,
      Machines
  <1>0. /\ mach' \in Machines /\ mach'.runs = mach.runs /\ mach'.next = mach.next
        /\ mach'.default = mach.default /\ mach'.up = "booting"
    BY MachSet DEF TypeOK
  <1>1. TypeOK'
    BY <1>0, SMTT(30) DEF TypeOK, Commits, Names
  <1>2. SearchInv'
    BY <1>0, SMTT(30) DEF TypeOK, Commits, Names, SearchInv, NamesOne, Candidates
  <1>3. RoundInv'
    BY <1>0, SMTT(30) DEF TypeOK, Commits, Names, RoundInv
  <1>4. OwnKernel'
    BY <1>0, SMTT(30) DEF TypeOK, Commits, Names, OwnKernel
  <1>5. TruthInv'
    BY <1>0, SMTT(30) DEF TypeOK, Commits, Names, TruthInv, Truth, SearchInv, NamesOne
  <1>6. HostInv'
    <2>1. UNCHANGED <<left, i, commit, built, tmp, disk, pc, state>>
      BY DEF Restart
    <2>2. strayed => strayed'
      BY Zenon DEF Restart
    <2> QED BY <1>0, <2>1, <2>2, HostKept DEF NotInstalled
  <1>7. RebootInv'
    <2>1. UNCHANGED <<left, i, pc>> /\ (strayed => strayed')
      BY Zenon DEF Restart
    <2>2. pc \in {"reboot", "ktest"} => strayed'
      BY Zenon DEF Restart
    <2> HIDE DEF Restart, Machines
    <2> QED BY <1>0, <2>1, <2>2 DEF RebootInv
  <1> QED BY <1>1, <1>2, <1>3, <1>4, <1>5, <1>6, <1>7

(***************************************************************************)
(* The bisection keeps its inductive invariant.                             *)
(***************************************************************************)
THEOREM BisectInductive == Spec => []IInv
  <1> USE BisectAssumption
  <1>1. Init => IInv
    <2> SUFFICES ASSUME Init PROVE IInv
      OBVIOUS
    <2> USE DEF Init, None, Own, Rounds, User
    <2>0. mach \in Machines
      BY DEF Machines, Names
    <2>1. TypeOK
      <3>1. left \in Commits \cup {None} /\ left \in Leftovers
        BY DEF Commits
      <3>2. tmp \in [Rounds -> Commits \cup {None}] /\ disk \in [Rounds -> Commits \cup {None}]
        BY <3>1
      <3>3. /\ git \in [good : Commits, bad : Commits, skipped : SUBSET Commits]
            /\ i \in Names /\ culprit \in 1 .. N
        BY DEF Commits, Names
      <3> QED BY <2>0, <3>1, <3>2, <3>3 DEF TypeOK
    <2>2. SearchInv /\ RoundInv /\ OwnKernel /\ TruthInv
      BY DEF SearchInv, RoundInv, OwnKernel, TruthInv, NamesOne
    <2>3. HostInv /\ RebootInv
      BY DEF HostInv, RebootInv, NotInstalled, Newest
    <2> QED BY <2>1, <2>2, <2>3 DEF IInv
  <1>2. IInv /\ [Next]_vars => IInv'
    <2> SUFFICES ASSUME IInv, [Next]_vars PROVE IInv'
      OBVIOUS
    <2>1. CASE clean
      BY <2>1, Keeps_clean
    <2>2. CASE bisect_start
      BY <2>2, Keeps_bisect_start
    <2>3. CASE configure
      BY <2>3, Keeps_configure
    <2>4. CASE build
      BY <2>4, Keeps_build
    <2>5. CASE BuildPrompt
      BY <2>5, Keeps_BuildPrompt
    <2>6. CASE WaitOnline
      BY <2>6, Keeps_WaitOnline
    <2>7. CASE InstallCheck
      BY <2>7, Keeps_InstallCheck
    <2>8. CASE Upload
      BY <2>8, Keeps_Upload
    <2>9. CASE install_kernel
      BY <2>9, Keeps_install_kernel
    <2>10. CASE Reboot
      BY <2>10, Keeps_Reboot
    <2>11. CASE WaitBoot
      BY <2>11, Keeps_WaitBoot
    <2>12. CASE ktest
      BY <2>12, Keeps_ktest
    <2>13. CASE AskUser
      BY <2>13, Keeps_AskUser
    <2>14. CASE Step
      BY <2>14, Keeps_Step
    <2>15. CASE GoDown
      BY <2>15, Keeps_GoDown
    <2>16. CASE Boot
      BY <2>16, Keeps_Boot
    <2>17. CASE Hang
      BY <2>17, Keeps_Hang
    <2>18. CASE Restart
      BY <2>18, Keeps_Restart
    <2>s. CASE UNCHANGED vars
      BY <2>s DEF vars, IInv, TypeOK, SearchInv, RoundInv, OwnKernel, TruthInv, HostInv,
                  RebootInv, NotInstalled, Newest, NamesOne, Candidates, Truth, Verdict
    <2> QED BY <2>1, <2>2, <2>3, <2>4, <2>5, <2>6, <2>7, <2>8, <2>9, <2>10, <2>11, <2>12, <2>13,
        <2>14, <2>15, <2>16, <2>17, <2>18, <2>s DEF Next, Tool, Target, Terminated
  <1> QED BY <1>1, <1>2, PTL DEF Spec

(***************************************************************************)
(* Whatever the user, the target and git do, and however many commits,      *)
(* rounds and settings there are: a verdict that is not about the kernel of *)
(* its round comes from one of the two hang options, from a kernel an       *)
(* earlier bisection left, or from a restart of the target while the        *)
(* program does not look (kernelBisect, 293-430), and a bisection without   *)
(* such a verdict names the culprit or nothing.                             *)
(***************************************************************************)
THEOREM BisectBlames == Spec => []Blame
  <1>1. IInv => Blame
    BY DEF IInv, Blame, TruthInv
  <1> QED BY <1>1, BisectInductive, PTL

(***************************************************************************)
(* git names no commit only when nothing but skipped commits is left: it is *)
(* never asked while the patches of the round are still in the tree         *)
(* (bisect_step after checkout, 397 and 426).                               *)
(***************************************************************************)
THEOREM BisectNames == Spec => []NamesOne
  <1>1. IInv => NamesOne
    BY DEF IInv, SearchInv
  <1> QED BY <1>1, BisectInductive, PTL

-----------------------------------------------------------------------------
(* NetFix                                                                   *)

(* While a device is treated it is the first of the queue, and not printed yet. *)
LEMMA NetDev ==
  ASSUME QueueInv, queue # <<>>
  PROVE  /\ dev \in Devices /\ out[dev] = NoOut /\ ~Ended
         /\ \/ dev = "wifi" /\ Tail(queue) = <<"wired">> /\ Treated = {}
            \/ dev = "wired" /\ Tail(queue) = <<>>
  <1>1. CASE queue = <<"wifi", "wired">> /\ Treated = {}
    <2>1. dev = "wifi" /\ Tail(queue) = <<"wired">>
      BY <1>1 DEF dev
    <2>2. out["wifi"] = NoOut
      BY <1>1, Zenon DEF Treated, Devices
    <2> QED BY <2>1, <2>2, <1>1 DEF QueueInv, Devices
  <1>2. CASE queue = <<"wired">> /\ out["wired"] = NoOut
    <2>1. dev = "wired" /\ Tail(queue) = <<>>
      BY <1>2 DEF dev
    <2> QED BY <2>1, <1>2 DEF QueueInv, Devices
  <1> QED BY <1>1, <1>2 DEF QueueInv

(* Lists of commands that are put together                                    *)
Ops == {"netoff", "neton", "stop", "start", "restart", "unload", "load", "driver",
        "wait", "offstop", "judge", "ready", "connect", "disabled"}

(* Two lists of operations one after the other, element by element. *)
LEMMA Joined ==
  ASSUME NEW s \in Seq(Ops), NEW t \in Seq(Ops), NEW u \in Seq(Ops),
         Len(u) = Len(s) + Len(t),
         \A k \in 1 .. Len(s) : u[k] = s[k],
         \A k \in 1 .. Len(t) : u[Len(s) + k] = t[k]
  PROVE  s \o t = u
  <1>1. \A k \in 1 .. Len(s \o t) : (s \o t)[k] = u[k]
    <2> TAKE k \in 1 .. Len(s \o t)
    <2>1. (s \o t)[k] = IF k <= Len(s) THEN s[k] ELSE t[k - Len(s)]
      BY ConcatProperties
    <2>2. CASE k <= Len(s)
      BY <2>1, <2>2, ConcatProperties
    <2>3. CASE k > Len(s)
      <3>1. k - Len(s) \in 1 .. Len(t) /\ Len(s) + (k - Len(s)) = k
        BY <2>3, ConcatProperties
      <3> QED BY <2>1, <2>3, <3>1
    <2> QED BY <2>2, <2>3
  <1>2. s \o t \in Seq(Ops) /\ Len(s \o t) = Len(u)
    BY ConcatProperties
  <1> QED BY <1>1, <1>2, SeqEqual

(* What is left of a hard reset while NetworkManager runs, which is stopped first. *)
LEMMA SplicedOff ==
  <<"netoff", "stop">> \o <<"unload", "load", "start", "wait", "driver", "neton", "judge">>
    = <<"netoff", "stop", "unload", "load", "start", "wait", "driver", "neton", "judge">>
  <1> DEFINE s == <<"netoff", "stop">>
             t == <<"unload", "load", "start", "wait", "driver", "neton", "judge">>
             u == <<"netoff", "stop", "unload", "load", "start", "wait", "driver", "neton", "judge">>
  <1>1. s \in Seq(Ops) /\ Len(s) = 2
    BY DEF Ops
  <1>2. t \in Seq(Ops) /\ Len(t) = 7
    BY DEF Ops
  <1>3. u \in Seq(Ops) /\ Len(u) = 9
    BY DEF Ops
  <1>4. \A k \in 1 .. Len(s) : u[k] = s[k]
    BY <1>1
  <1>5. \A k \in 1 .. Len(t) : u[Len(s) + k] = t[k]
    BY <1>1, <1>2
  <1> HIDE DEF s, t, u
  <1>6. Len(u) = Len(s) + Len(t)
    BY <1>1, <1>2, <1>3
  <1>7. s \o t = u
    BY <1>1, <1>2, <1>3, <1>4, <1>5, <1>6, Joined, Zenon
  <1> QED BY <1>7 DEF s, t, u

(* The list of a soft reset. *)
LEMMA SplicedSoft ==
  <<"netoff", "restart", "wait", "driver", "neton">> \o <<"judge">>
    = <<"netoff", "restart", "wait", "driver", "neton", "judge">>
  <1> DEFINE s == <<"netoff", "restart", "wait", "driver", "neton">>
             t == <<"judge">>
             u == <<"netoff", "restart", "wait", "driver", "neton", "judge">>
  <1>1. s \in Seq(Ops) /\ Len(s) = 5
    BY DEF Ops
  <1>2. t \in Seq(Ops) /\ Len(t) = 1
    BY DEF Ops
  <1>3. u \in Seq(Ops) /\ Len(u) = 6
    BY DEF Ops
  <1>4. \A k \in 1 .. Len(s) : u[k] = s[k]
    BY <1>1
  <1>5. \A k \in 1 .. Len(t) : u[Len(s) + k] = t[k]
    BY <1>1, <1>2
  <1> HIDE DEF s, t, u
  <1>6. Len(u) = Len(s) + Len(t)
    BY <1>1, <1>2, <1>3
  <1>7. s \o t = u
    BY <1>1, <1>2, <1>3, <1>4, <1>5, <1>6, Joined, Zenon
  <1> QED BY <1>7 DEF s, t, u

(* The list of a hard reset with a command for it. *)
LEMMA SplicedHard ==
  <<"offstop", "unload", "load", "start", "wait", "driver", "neton">> \o <<"judge">>
    = <<"offstop", "unload", "load", "start", "wait", "driver", "neton", "judge">>
  <1> DEFINE s == <<"offstop", "unload", "load", "start", "wait", "driver", "neton">>
             t == <<"judge">>
             u == <<"offstop", "unload", "load", "start", "wait", "driver", "neton", "judge">>
  <1>1. s \in Seq(Ops) /\ Len(s) = 7
    BY DEF Ops
  <1>2. t \in Seq(Ops) /\ Len(t) = 1
    BY DEF Ops
  <1>3. u \in Seq(Ops) /\ Len(u) = 8
    BY DEF Ops
  <1>4. \A k \in 1 .. Len(s) : u[k] = s[k]
    BY <1>1
  <1>5. \A k \in 1 .. Len(t) : u[Len(s) + k] = t[k]
    BY <1>1, <1>2
  <1> HIDE DEF s, t, u
  <1>6. Len(u) = Len(s) + Len(t)
    BY <1>1, <1>2, <1>3
  <1>7. s \o t = u
    BY <1>1, <1>2, <1>3, <1>4, <1>5, <1>6, Joined, Zenon
  <1> QED BY <1>7 DEF s, t, u

(* The list of a network that is switched off. *)
LEMMA SplicedDisable ==
  <<"netoff">> \o <<"unload", "disabled">>
    = <<"netoff", "unload", "disabled">>
  <1> DEFINE s == <<"netoff">>
             t == <<"unload", "disabled">>
             u == <<"netoff", "unload", "disabled">>
  <1>1. s \in Seq(Ops) /\ Len(s) = 1
    BY DEF Ops
  <1>2. t \in Seq(Ops) /\ Len(t) = 2
    BY DEF Ops
  <1>3. u \in Seq(Ops) /\ Len(u) = 3
    BY DEF Ops
  <1>4. \A k \in 1 .. Len(s) : u[k] = s[k]
    BY <1>1
  <1>5. \A k \in 1 .. Len(t) : u[Len(s) + k] = t[k]
    BY <1>1, <1>2
  <1> HIDE DEF s, t, u
  <1>6. Len(u) = Len(s) + Len(t)
    BY <1>1, <1>2, <1>3
  <1>7. s \o t = u
    BY <1>1, <1>2, <1>3, <1>4, <1>5, <1>6, Joined, Zenon
  <1> QED BY <1>7 DEF s, t, u

(* The lists of a device without operations of its own. *)
LEMMA EmptyFirst ==
  /\ <<>> \o <<"judge">> = <<"judge">>
  /\ <<>> \o <<"unload", "disabled">> = <<"unload", "disabled">>
  /\ <<>> \o <<"unload", "load", "start", "wait", "driver", "neton", "judge">>
       = <<"unload", "load", "start", "wait", "driver", "neton", "judge">>
  <1>1. \A s \in Seq(Ops) : <<>> \o s = s
    BY ConcatEmptySeq
  <1>2. <<"judge">> \in Seq(Ops)
    BY DEF Ops
  <1>3. <<"unload", "disabled">> \in Seq(Ops)
    BY DEF Ops
  <1>4. <<"unload", "load", "start", "wait", "driver", "neton", "judge">> \in Seq(Ops)
    BY DEF Ops
  <1> QED BY <1>1, <1>2, <1>3, <1>4

(* What follows a command in a method                                         *)
After(a, op) ==
  CASE op = "netoff" -> (CASE a = "softreset" -> "restart" [] a = "hardreset" -> "stop"
                           [] a = "disable" -> "unload" [] OTHER -> "judge")
    [] op = "restart" -> "wait"
    [] op = "stop" -> "unload"
    [] op = "unload" -> (IF a = "disable" THEN "disabled" ELSE "load")
    [] op = "load" -> (IF a = "enable" THEN "ready" ELSE "start")
    [] op = "start" -> "wait"
    [] op = "ready" -> "neton"
    [] op = "wait" -> "driver"
    [] op = "driver" -> "neton"
    [] op = "neton" -> (IF a = "enable" THEN "connect" ELSE "judge")
    [] OTHER -> "none"

LastOnes == {"offstop", "judge", "connect", "disabled"}

(* What is left to do behind an operation that is not the last, and which operations belong
   to which action. *)
LEMMA NextOf ==
  ASSUME TodoInv, todo # <<>>
  PROVE  /\ Head(todo) \notin LastOnes =>
              Tail(todo) # <<>> /\ Tail(todo) \in LeftOf(act) /\ Head(Tail(todo)) = After(act, Head(todo))
         /\ act = "enabled" => Head(todo) \in {"driver", "neton", "judge"}
         /\ act = "softreset" => Head(todo) \in {"netoff", "restart", "wait", "driver", "neton", "judge"}
         /\ act = "hardreset" => Head(todo) \in {"offstop", "netoff", "stop", "unload", "load", "start",
                                               "wait", "driver", "neton", "judge"}
         /\ act = "disabled" => Head(todo) \in {"netoff", "judge"}
         /\ act = "enable" => Head(todo) \in {"load", "ready", "neton", "connect"}
         /\ act = "disable" => Head(todo) \in {"netoff", "unload", "disabled"}
  <1> USE DEF LastOnes
  <1>1. CASE act = "enabled"
    <2> USE <1>1 DEF LeftOfOn
    <2>1. CASE todo = <<"driver", "neton", "judge">>
      BY <2>1 DEF After, LeftOf
    <2>2. CASE todo = <<"neton", "judge">>
      BY <2>2 DEF After, LeftOf
    <2>3. CASE todo = <<"judge">>
      BY <2>3
    <2> QED BY <2>1, <2>2, <2>3 DEF TodoInv, LeftOf
  <1>2. CASE act = "softreset"
    <2> USE <1>2 DEF LeftOfSoft, LeftOfOn
    <2>1. CASE todo = <<"netoff", "restart", "wait", "driver", "neton", "judge">>
      BY <2>1 DEF After, LeftOf
    <2>2. CASE todo = <<"restart", "wait", "driver", "neton", "judge">>
      BY <2>2 DEF After, LeftOf
    <2>3. CASE todo = <<"wait", "driver", "neton", "judge">>
      BY <2>3 DEF After, LeftOf
    <2>4. CASE todo = <<"driver", "neton", "judge">>
      BY <2>4 DEF After, LeftOf
    <2>5. CASE todo = <<"neton", "judge">>
      BY <2>5 DEF After, LeftOf
    <2>6. CASE todo = <<"judge">>
      BY <2>6
    <2> QED BY <2>1, <2>2, <2>3, <2>4, <2>5, <2>6 DEF TodoInv, LeftOf
  <1>3. CASE act = "hardreset"
    <2> USE <1>3 DEF LeftOfHard, LeftOfOn
    <2>1. CASE todo = <<"offstop", "unload", "load", "start", "wait", "driver", "neton", "judge">>
      BY <2>1
    <2>2. CASE todo = <<"netoff", "stop", "unload", "load", "start", "wait", "driver", "neton", "judge">>
      BY <2>2 DEF After, LeftOf
    <2>3. CASE todo = <<"stop", "unload", "load", "start", "wait", "driver", "neton", "judge">>
      BY <2>3 DEF After, LeftOf
    <2>4. CASE todo = <<"unload", "load", "start", "wait", "driver", "neton", "judge">>
      BY <2>4 DEF After, LeftOf
    <2>5. CASE todo = <<"load", "start", "wait", "driver", "neton", "judge">>
      BY <2>5 DEF After, LeftOf
    <2>6. CASE todo = <<"start", "wait", "driver", "neton", "judge">>
      BY <2>6 DEF After, LeftOf
    <2>7. CASE todo = <<"wait", "driver", "neton", "judge">>
      BY <2>7 DEF After, LeftOf
    <2>8. CASE todo = <<"driver", "neton", "judge">>
      BY <2>8 DEF After, LeftOf
    <2>9. CASE todo = <<"neton", "judge">>
      BY <2>9 DEF After, LeftOf
    <2>10. CASE todo = <<"judge">>
      BY <2>10
    <2> QED BY <2>1, <2>2, <2>3, <2>4, <2>5, <2>6, <2>7, <2>8, <2>9, <2>10 DEF TodoInv, LeftOf
  <1>4. CASE act = "disabled"
    <2> USE <1>4 DEF LeftOfOff
    <2>1. CASE todo = <<"netoff", "judge">>
      BY <2>1 DEF After, LeftOf
    <2>2. CASE todo = <<"judge">>
      BY <2>2
    <2> QED BY <2>1, <2>2 DEF TodoInv, LeftOf
  <1>5. CASE act = "enable"
    <2> USE <1>5 DEF LeftOfEnable
    <2>1. CASE todo = <<"load", "ready", "neton", "connect">>
      BY <2>1 DEF After, LeftOf
    <2>2. CASE todo = <<"ready", "neton", "connect">>
      BY <2>2 DEF After, LeftOf
    <2>3. CASE todo = <<"neton", "connect">>
      BY <2>3 DEF After, LeftOf
    <2>4. CASE todo = <<"connect">>
      BY <2>4
    <2> QED BY <2>1, <2>2, <2>3, <2>4 DEF TodoInv, LeftOf
  <1>6. CASE act = "disable"
    <2> USE <1>6 DEF LeftOfDisable
    <2>1. CASE todo = <<"netoff", "unload", "disabled">>
      BY <2>1 DEF After, LeftOf
    <2>2. CASE todo = <<"unload", "disabled">>
      BY <2>2 DEF After, LeftOf
    <2>3. CASE todo = <<"disabled">>
      BY <2>3
    <2> QED BY <2>1, <2>2, <2>3 DEF TodoInv, LeftOf
  <1> QED BY <1>1, <1>2, <1>3, <1>4, <1>5, <1>6 DEF TodoInv

(* An action is over with its last operation: no action has an empty list left. *)
LEMMA NothingLeft ==
  \A a \in {"enabled", "softreset", "hardreset", "disabled", "enable", "disable"} : <<>> \notin LeftOf(a)
  BY DEF LeftOf, LeftOfOn, LeftOfSoft, LeftOfHard, LeftOfOff, LeftOfEnable, LeftOfDisable

(* The list a soft reset starts with. *)
LEMMA SoftList ==
  /\ ResetSoft(dev) \o <<"judge">> \in LeftOf("softreset") /\ ResetSoft(dev) \o <<"judge">> # <<>>
  /\ Head(ResetSoft(dev) \o <<"judge">>) = "netoff"
  <1> DEFINE ops == ResetSoft(dev) \o <<"judge">>
  <1>1. ops = <<"netoff", "restart", "wait", "driver", "neton", "judge">>
    BY SplicedSoft DEF ResetSoft
  <1> HIDE DEF ops
  <1>2. ops \in LeftOf("softreset") /\ ops # <<>> /\ Head(ops) = "netoff"
    BY <1>1 DEF LeftOf, LeftOfSoft
  <1> QED BY <1>2 DEF ops

(* The list a hard reset starts with. *)
LEMMA HardList ==
  /\ ResetHard(dev) \o <<"judge">> \in LeftOf("hardreset") /\ ResetHard(dev) \o <<"judge">> # <<>>
  /\ conf[dev].hard => Head(ResetHard(dev) \o <<"judge">>) = "offstop"
  <1> DEFINE ops == ResetHard(dev) \o <<"judge">>
  <1>1. CASE dev = "wired" /\ ~conf[dev].hard
    <2>1. ops = <<"judge">>
      BY <1>1, EmptyFirst DEF ResetHard
    <2> HIDE DEF ops
    <2>2. ops \in LeftOf("hardreset") /\ ops # <<>>
      BY <2>1 DEF LeftOf, LeftOfHard, LeftOfOn
    <2> QED BY <1>1, <2>2 DEF ops
  <1>2. CASE ~(dev = "wired" /\ ~conf[dev].hard)
    <2>1. ops = <<"offstop", "unload", "load", "start", "wait", "driver", "neton", "judge">>
      BY <1>2, SplicedHard DEF ResetHard
    <2> HIDE DEF ops
    <2>2. ops \in LeftOf("hardreset") /\ ops # <<>> /\ Head(ops) = "offstop"
      BY <2>1 DEF LeftOf, LeftOfHard
    <2> QED BY <2>2 DEF ops
  <1> QED BY <1>1, <1>2

(* A command of a method keeps the invariant, done or without effect.          *)
LEMMA CallKeeps ==
  ASSUME NetIInv, Call
  PROVE  NetIInv'
  <1> USE DEF call, main, net
  <1>1. /\ exit = "no" /\ todo # <<>> /\ act # "none" /\ queue # <<>> /\ todo \in LeftOf(act)
        /\ UNCHANGED <<cmd, conf, first, queue, act, out, status, exit,
                       dev>> /\ todo' = Tail(todo)
        /\ Head(todo) \in {"netoff", "neton", "stop", "start", "restart", "unload", "load", "driver"}
    BY DEF Call, Does, NetIInv, TodoInv, dev
  <1>2. /\ dev \in Devices /\ out[dev] = NoOut /\ out["wired"] = NoOut
    <2>1. Treated = {} => out["wired"] = NoOut
      BY Zenon DEF Treated, Devices
    <2> QED BY <1>1, <2>1, NetDev DEF NetIInv
  <1>3. /\ Head(todo) \notin LastOnes /\ todo' # <<>> /\ todo' \in LeftOf(act)
        /\ Head(todo') = After(act, Head(todo))
    <2>1. Head(todo) \notin LastOnes
      BY <1>1 DEF LastOnes
    <2> QED BY <1>1, <2>1, NextOf DEF NetIInv
  <1>4. TodoInv'
    <2>1. TodoInv
      BY DEF NetIInv
    <2> QED BY <1>1, <1>3, <2>1, Zenon DEF TodoInv, LeftOf
  <1>5. QueueInv' /\ StatusInv'
    BY <1>1, <1>2 DEF NetIInv, QueueInv, StatusInv, Treated, Ended, NoOut, Online
  <1>6. NetTypeOK'
    <2>1. faults' \in Nat
      BY DEF Call, NetIInv, NetTypeOK
    <2>2. nm' \in BOOLEAN /\ up' \in [Devices -> BOOLEAN] /\ cond' \in [Devices -> Conditions]
      <3> USE <1>2 DEF NetIInv, NetTypeOK, Conditions
      <3>d. Drop => up' \in [Devices -> BOOLEAN]
        <4>1. \A s : [d \in Devices |-> up[d] /\ d \in s] \in [Devices -> BOOLEAN]
          BY Zenon
        <4> SUFFICES ASSUME Drop PROVE up' \in [Devices -> BOOLEAN]
          OBVIOUS
        <4>2. PICK s \in SUBSET Devices : up' = [d \in Devices |-> up[d] /\ d \in s]
          BY DEF Drop
        <4> QED BY <4>1, <4>2, Zenon
      <3>f. Fresh => cond' \in [Devices -> Conditions]
        BY DEF Fresh
      <3>1. CASE Head(todo) = "netoff" /\ Does("netoff")
        BY <3>1 DEF Does, NetOff
      <3>2. CASE Head(todo) = "neton" /\ Does("neton")
        BY <3>2 DEF Does, NetOn
      <3>3. CASE Head(todo) = "stop" /\ Does("stop")
        BY <3>3, <3>d DEF Does, Stop
      <3>4. CASE Head(todo) = "start" /\ Does("start")
        BY <3>4, <3>f DEF Does, StartNM
      <3>5. CASE Head(todo) = "restart" /\ Does("restart")
        BY <3>5, <3>d, <3>f DEF Does, RestartNM
      <3>6. CASE Head(todo) = "unload" /\ Does("unload")
        BY <3>6 DEF Does, Unload
      <3>7. CASE Head(todo) = "load" /\ Does("load")
        BY <3>7 DEF Does, Load
      <3>8. CASE Head(todo) = "driver" /\ Does("driver")
        BY <3>8 DEF Does, Driver, Load
      <3>9. CASE UNCHANGED <<nm, up, cond>>
        BY <3>9
      <3> QED BY <1>1, <3>1, <3>2, <3>3, <3>4, <3>5, <3>6, <3>7, <3>8, <3>9 DEF Call
    <2> QED BY <1>1, <2>1, <2>2 DEF NetIInv, NetTypeOK
  <1>7. faults' = 0 => AwayInv' /\ OnInv'
    <2> SUFFICES ASSUME faults' = 0 PROVE AwayInv' /\ OnInv'
      OBVIOUS
    <2>1. faults = 0 /\ Does(Head(todo))
      BY DEF Call, NetIInv, NetTypeOK
    <2>2. /\ conf[dev].net \in BOOLEAN /\ conf[dev].hard \in BOOLEAN /\ nm \in BOOLEAN
          /\ up \in [Devices -> BOOLEAN] /\ cond \in [Devices -> Conditions]
          /\ first.nm \in BOOLEAN /\ first.cond \in [Devices -> Conditions]
      BY <1>2 DEF NetIInv, NetTypeOK
    <2>3. AwayInv /\ OnInv /\ TodoInv
      BY DEF NetIInv
    <2> USE <1>1, <1>2, <1>3, <2>1, <2>2, <2>3, NextOf DEF After
    <2>4. CASE Head(todo) = "netoff"
      <3> USE <2>4 DEF Does, NetOff
      <3>1. AwayInv'
        BY DEF AwayInv, At, Conditions, TodoInv
      <3>2. OnInv'
        BY DEF OnInv, AwayInv, At, Untouched, Loaded, Loads, Needs, TodoInv
      <3> QED BY <3>1, <3>2
    <2>5. CASE Head(todo) = "neton"
      <3> USE <2>5 DEF Does, NetOn
      <3>1. AwayInv'
        BY DEF AwayInv, At, Conditions, TodoInv
      <3>2. OnInv'
        BY DEF OnInv, AwayInv, At, Untouched, Loaded, Loads, Needs, TodoInv
      <3> QED BY <3>1, <3>2
    <2>6. CASE Head(todo) = "stop"
      <3> USE <2>6 DEF Does, Stop
      <3>1. AwayInv'
        BY DEF AwayInv, At, Conditions, TodoInv
      <3>2. OnInv'
        BY DEF OnInv, AwayInv, At, Untouched, Loaded, Loads, Needs, TodoInv
      <3> QED BY <3>1, <3>2
    <2>7. CASE Head(todo) = "start"
      <3> USE <2>7 DEF Does, StartNM, Fresh
      <3>1. AwayInv'
        BY DEF AwayInv, At, Conditions, TodoInv
      <3>2. OnInv'
        BY DEF OnInv, AwayInv, At, Untouched, Loaded, Loads, Needs, TodoInv
      <3> QED BY <3>1, <3>2
    <2>8. CASE Head(todo) = "restart"
      <3> USE <2>8 DEF Does, RestartNM, Drop, Fresh
      <3>1. AwayInv'
        BY DEF AwayInv, At, Conditions, TodoInv
      <3>2. OnInv'
        BY DEF OnInv, AwayInv, At, Untouched, Loaded, Loads, Needs, TodoInv
      <3> QED BY <3>1, <3>2
    <2>9. CASE Head(todo) = "unload"
      <3> USE <2>9 DEF Does, Unload
      <3>1. AwayInv'
        BY DEF AwayInv, At, Conditions, TodoInv
      <3>2. OnInv'
        BY DEF OnInv, AwayInv, At, Untouched, Loaded, Loads, Needs, TodoInv
      <3> QED BY <3>1, <3>2
    <2>10. CASE Head(todo) = "load"
      <3> USE <2>10 DEF Does, Load
      <3>1. AwayInv'
        BY DEF AwayInv, At, Conditions, TodoInv
      <3>2. OnInv'
        BY DEF OnInv, AwayInv, At, Untouched, Loaded, Loads, Needs, TodoInv
      <3> QED BY <3>1, <3>2
    <2>11. CASE Head(todo) = "driver"
      <3> USE <2>11 DEF Does, Driver, Load
      <3>1. AwayInv'
        BY DEF AwayInv, At, Conditions, TodoInv
      <3>2. OnInv'
        BY DEF OnInv, AwayInv, At, Untouched, Loaded, Loads, Needs, TodoInv
      <3> QED BY <3>1, <3>2
    <2> QED BY <2>4, <2>5, <2>6, <2>7, <2>8, <2>9, <2>10, <2>11
  <1>8. AwayInv' /\ OnInv'
    BY <1>7 DEF AwayInv, OnInv
  <1>9. Repaired'
    BY <1>1, <1>6 DEF NetIInv, Repaired, Treated, Cured, Needs, Call, NetTypeOK
  <1> QED BY <1>4, <1>5, <1>6, <1>8, <1>9 DEF NetIInv

(* The waits, and nmActive before NetworkManager is stopped.                   *)
LEMMA LookKeeps ==
  ASSUME NetIInv, Look
  PROVE  NetIInv'
  <1> USE DEF call, main, net
  <1>1. /\ exit = "no" /\ todo # <<>> /\ act # "none" /\ queue # <<>> /\ todo \in LeftOf(act)
        /\ UNCHANGED <<cmd, conf, first, queue, act, out, status, exit, nm, up, cond, faults,
                       dev>>
        /\ Head(todo) \in {"wait", "offstop"}
    BY DEF Look, NetIInv, TodoInv, dev
  <1>2. /\ todo' # <<>> /\ todo' \in LeftOf(act)
        /\ \/ Head(todo) = "wait" /\ Head(todo') = "driver"
           \/ Head(todo) = "offstop" /\ act = "hardreset" /\ ~nm /\ Head(todo') = "unload"
           \/ Head(todo) = "offstop" /\ act = "hardreset" /\ nm /\ Head(todo') = "netoff"
    <2>1. CASE Head(todo) = "wait"
      <3>1. todo' = Tail(todo) /\ Head(todo) \notin LastOnes
        BY <2>1 DEF Look, LastOnes
      <3>2. After(act, Head(todo)) = "driver"
        BY <2>1 DEF After
      <3> QED BY <1>1, <2>1, <3>1, <3>2, NextOf DEF NetIInv
    <2>2. CASE Head(todo) = "offstop"
      <3>1. act = "hardreset"
        BY <1>1, <2>2, NextOf DEF NetIInv, TodoInv
      <3>2. todo = <<"offstop", "unload", "load", "start", "wait", "driver", "neton", "judge">>
        BY <1>1, <2>2, <3>1 DEF LeftOf, LeftOfHard, LeftOfOn
      <3>3. Tail(todo) = <<"unload", "load", "start", "wait", "driver", "neton", "judge">>
        BY <3>2
      <3>4. CASE ~nm
        <4>1. todo' = <<>> \o Tail(todo)
          BY <2>2, <3>4 DEF Look
        <4>2. todo' = <<"unload", "load", "start", "wait", "driver", "neton", "judge">>
          BY <3>3, <4>1, EmptyFirst
        <4> QED BY <2>2, <3>1, <3>4, <4>2 DEF LeftOf, LeftOfHard
      <3>5. CASE nm
        <4>1. todo' = <<"netoff", "stop">> \o Tail(todo)
          BY <2>2, <3>5 DEF Look
        <4>2. todo' = <<"netoff", "stop", "unload", "load", "start", "wait", "driver", "neton", "judge">>
          BY <3>3, <4>1, SplicedOff
        <4> QED BY <2>2, <3>1, <3>5, <4>2 DEF LeftOf, LeftOfHard
      <3> QED BY <3>4, <3>5, <1>1 DEF NetIInv, NetTypeOK
    <2> QED BY <1>1, <2>1, <2>2
  <1>3. dev \in Devices
    BY <1>1, NetDev DEF NetIInv
  <1>4. TodoInv'
    BY <1>1, <1>2, Zenon DEF NetIInv, TodoInv, LeftOf
  <1>5. AwayInv'
    BY <1>1, <1>2 DEF NetIInv, AwayInv, At
  <1>6. OnInv'
    BY <1>1, <1>2, NextOf DEF NetIInv, OnInv, At, Loaded, Loads, Untouched, Needs
  <1>7. (NetTypeOK /\ QueueInv /\ StatusInv /\ Repaired)'
    BY <1>1 DEF NetIInv, NetTypeOK, QueueInv, StatusInv, Repaired, Treated, Ended, Cured, Needs,
        Online
  <1> QED BY <1>4, <1>5, <1>6, <1>7 DEF NetIInv

(* What is printed of a device: the status keeps standing for it.             *)
LEMMA ReportKeeps ==
  ASSUME NetIInv, queue # <<>>, exit = "no",
         todo = <<>> \/ Head(todo) \in {"judge", "disabled", "ready", "connect"},
         NEW a, NEW n, NEW good \in BOOLEAN,
         Report(a, n, good), UNCHANGED <<call, exit, net, faults>>,
         a \in {"noaction", "enabled", "disabled", "softreset", "hardreset", "enable", "disable"},
         n \in {"online", "offline", "unsupported", "disabled", "device_failed", "enabled",
                "connect_failed"},
         cmd \notin {"enable", "disable"} =>
           (good <=> n = (IF cmd = "off" THEN "offline" ELSE "online")),
         cmd \notin {"enable", "disable", "off"} => (n = "online" => Online(dev)),
         cmd = "on" /\ faults = 0 => (Cured(dev) => n = "online") /\ Needs(dev, a)
  PROVE  NetIInv'
  <1> USE DEF call, main, net
  <1>1. /\ UNCHANGED <<cmd, conf, first, exit, nm, up, cond, faults>> /\ exit = "no"
        /\ out' = [out EXCEPT ![dev] = [act |-> a, net |-> n]] /\ status' = (status /\ good)
        /\ queue' = Tail(queue) /\ todo' = <<>> /\ act' = "none"
    BY DEF Report
  <1>2. /\ dev \in Devices /\ out[dev] = NoOut
        /\ \/ dev = "wifi" /\ queue' = <<"wired">> /\ Treated = {}
           \/ dev = "wired" /\ queue' = <<>>
    BY <1>1, NetDev DEF NetIInv
  <1>3. NetTypeOK
    BY DEF NetIInv
  <1>4. /\ [act |-> a, net |-> n] # NoOut /\ out'[dev] # NoOut /\ out'[dev].net = n /\ out'[dev].act = a
        /\ \A d \in Devices : d # dev => out'[d] = out[d]
    BY <1>1, <1>2, <1>3 DEF NetTypeOK, NoOut
  <1>5. Treated' = Treated \cup {dev} /\ dev \notin Treated
    BY <1>1, <1>2, <1>3, <1>4 DEF Treated, NetTypeOK
  <1>6. NetTypeOK'
    <2>1. status' \in BOOLEAN
      BY <1>1, <1>3, Zenon DEF NetTypeOK
    <2>2. [act |-> a, net |-> n] \in
            [act : {"none", "noaction", "enabled", "disabled", "softreset",
                    "hardreset", "enable", "disable"},
             net : {"none", "online", "offline", "unsupported", "disabled",
                    "device_failed", "enabled", "connect_failed"}]
      OBVIOUS
    <2> QED BY <1>1, <1>2, <1>3, <2>1, <2>2 DEF NetTypeOK
  <1>7. QueueInv'
    <2>1. CASE dev = "wifi" /\ queue' = <<"wired">> /\ Treated = {}
      <3>1. out["wired"] = NoOut
        BY <2>1, Zenon DEF Treated, Devices
      <3> QED BY <1>1, <1>4, <2>1, <3>1 DEF QueueInv, Ended, Devices
    <2>2. CASE dev = "wired" /\ queue' = <<>>
      <3>1. out'["wired"] # NoOut /\ ~Ended'
        BY <1>1, <1>4, <2>2 DEF Ended
      <3> QED BY <2>2, <3>1, Zenon DEF QueueInv
    <2> QED BY <1>2, <2>1, <2>2
  <1>8. TodoInv'
    BY <1>1 DEF TodoInv
  <1>9. AwayInv'
    BY <1>1 DEF NetIInv, AwayInv, At
  <1>10. OnInv'
    BY <1>1, <1>4, <1>5 DEF NetIInv, OnInv, At, Untouched, Treated
  <1>11. StatusInv'
    <2> SUFFICES ASSUME cmd \notin {"enable", "disable"} PROVE StatusInv!2'
      BY <1>1 DEF StatusInv
    <2> DEFINE want == IF cmd = "off" THEN "offline" ELSE "online"
    <2>1. status \in BOOLEAN /\ (status <=> \A d \in Treated : out[d].net = want)
      BY <1>3 DEF NetIInv, StatusInv, NetTypeOK
    <2>2. good <=> out'[dev].net = want
      BY <1>4
    <2>3. \A d \in Treated : out'[d].net = out[d].net
      BY <1>4, <1>5 DEF Treated
    <2>4. status' <=> \A d \in Treated' : out'[d].net = want
      <3> HIDE DEF want
      <3> QED BY <1>1, <1>5, <2>1, <2>2, <2>3, ZenonT(60)
    <2>5. faults = 0 /\ cmd # "off" /\ out'["wired"].net = "online" => Online("wired")
      <3>1. CASE dev = "wired"
        BY <1>4, <3>1
      <3>2. CASE dev = "wifi"
        <4>1. out'["wired"] = out["wired"]
          BY <1>4, <3>2 DEF Devices
        <4> QED BY <4>1 DEF NetIInv, StatusInv
      <3> QED BY <1>2, <3>1, <3>2
    <2>6. ~Ended'
      BY <1>1 DEF Ended
    <2> QED BY <1>1, <2>4, <2>5, <2>6 DEF Online
  <1>12. Repaired'
    <2> SUFFICES ASSUME cmd = "on", faults = 0, NEW d \in Treated'
                 PROVE  (Cured(d) => out'[d].net = "online") /\ Needs(d, out'[d].act)
      BY <1>1 DEF Repaired, Cured, Needs
    <2>1. CASE d = dev
      BY <1>4, <2>1
    <2>2. CASE d \in Treated /\ d # dev
      <3>1. out'[d] = out[d]
        BY <1>4, <2>2 DEF Treated
      <3> QED BY <2>2, <3>1 DEF NetIInv, Repaired
    <2> QED BY <1>5, <2>1, <2>2
  <1> QED BY <1>6, <1>7, <1>8, <1>9, <1>10, <1>11, <1>12 DEF NetIInv

(* A method is called for the device.                                         *)
LEMMA DoKeeps ==
  ASSUME NetIInv, queue # <<>>, exit = "no", todo = <<>> \/ Head(todo) \in {"judge", "ready"},
         NEW a, NEW ops, Do(a, ops), UNCHANGED <<call, exit, net, faults>>,
         \/ cmd = "on" /\ a \in {"enabled", "softreset", "hardreset"}
         \/ cmd = "off" /\ a = "disabled"
         \/ cmd \in {"softreset", "hardreset", "enable", "disable"} /\ a = cmd,
         cmd = "on" /\ a = "hardreset" => conf[dev].hard /\ Head(ops) = "offstop",
         cmd = "on" /\ a = "enabled" => act = "none" /\ Head(ops) = "driver",
         cmd = "on" /\ a = "softreset" => act = "enabled" /\ Head(ops) = "netoff",
         cmd = "on" /\ faults = 0 => Needs(dev, a),
         ops # <<>>, ops \in LeftOf(a), a # "none"
  PROVE  NetIInv'
  <1> USE DEF call, main, net
  <1>1. /\ UNCHANGED <<cmd, conf, first, queue, out, status, exit, nm, up, cond, faults, dev>>
        /\ todo' = ops /\ act' = a
    BY DEF Do, dev
  <1>2. dev \in Devices /\ out[dev] = NoOut
    BY NetDev DEF NetIInv
  <1>3. (NetTypeOK /\ QueueInv /\ StatusInv /\ Repaired)'
    BY <1>1 DEF NetIInv, NetTypeOK, QueueInv, StatusInv, Repaired, Treated, Ended, Cured, Needs,
        Online
  <1>4. TodoInv'
    BY <1>1, Zenon DEF TodoInv, LeftOf
  <1>5. AwayInv'
    BY <1>1 DEF NetIInv, AwayInv, At
  <1>6. OnInv'
    BY <1>1, <1>2 DEF NetIInv, OnInv, At, Untouched, Loaded, Loads, Needs
  <1> QED BY <1>3, <1>4, <1>5, <1>6 DEF NetIInv


(* The check of a device, and what is done first.                              *)
LEMMA BeginKeeps ==
  ASSUME NetIInv, Begin
  PROVE  NetIInv'
  <1> USE DEF call, main, net
  <1>1. exit = "no" /\ queue # <<>> /\ todo = <<>> /\ act = "none"
    <2>1. exit = "no" /\ queue # <<>> /\ todo = <<>>
      BY DEF Begin, Idle
    <2>2. todo \notin LeftOf(act) \/ act = "none"
      BY <2>1, NothingLeft DEF NetIInv, TodoInv
    <2> QED BY <2>1, <2>2 DEF NetIInv, TodoInv
  <1>2. dev \in Devices /\ out[dev] = NoOut /\ cmd \in Commands
        /\ UNCHANGED <<call, net, faults>>
    BY <1>1, NetDev DEF NetIInv, NetTypeOK, Begin
  <1>3. CASE Impossible(dev)
    <2>1. exit' = "died" /\ UNCHANGED <<queue, todo, act, out, status, call, net, faults>>
      BY <1>3 DEF Begin
    <2> QED BY <1>1, <2>1 DEF NetIInv, NetTypeOK, QueueInv, TodoInv, AwayInv, OnInv, StatusInv,
        Repaired,
              Treated, Ended, Cured, Needs, Online, At, Untouched
  <1>4. CASE ~Impossible(dev)
    <2> USE <1>1, <1>2, <1>4
    <2>0. exit' = exit
      BY DEF Begin
    <2>1. CASE cmd = "on" /\ Online(dev) /\ Report("noaction", "online", TRUE)
      BY <2>0, <2>1, ReportKeeps DEF Needs
    <2>2. CASE cmd = "on" /\ ~Online(dev) /\ Do("enabled", On)
      <3>1. On \in LeftOf("enabled") /\ On # <<>> /\ Head(On) = "driver"
        BY DEF On, LeftOf, LeftOfOn
      <3>2. Needs(dev, "enabled")
        BY DEF Needs
      <3> QED BY <2>0, <2>2, <3>1, <3>2, DoKeeps
    <2>3. CASE cmd = "off" /\ ~Online(dev) /\ Report("noaction", "offline", TRUE)
      BY <2>0, <2>3, ReportKeeps
    <2>4. CASE cmd = "off" /\ Online(dev) /\ Do("disabled", <<"netoff", "judge">>)
      <3>1. <<"netoff", "judge">> \in LeftOf("disabled") /\ <<"netoff", "judge">> # <<>>
        BY DEF LeftOf, LeftOfOff
      <3> QED BY <2>0, <2>4, <3>1, DoKeeps
    <2>5. CASE cmd = "softreset" /\ Do("softreset", ResetSoft(dev) \o <<"judge">>)
      BY <2>0, <2>5, SoftList, DoKeeps
    <2>6. CASE cmd = "hardreset" /\ Do("hardreset", ResetHard(dev) \o <<"judge">>)
      BY <2>0, <2>6, HardList, DoKeeps
    <2>7. CASE cmd \in {"enable", "disable"} /\ Report(cmd, "unsupported", TRUE)
      BY <2>0, <2>7, ReportKeeps
    <2>8. CASE cmd = "enable" /\ Do("enable", Enable)
      <3>1. Enable \in LeftOf("enable") /\ Enable # <<>>
        BY DEF Enable, LeftOf, LeftOfEnable
      <3> QED BY <2>0, <2>8, <3>1, DoKeeps
    <2>9. CASE /\ cmd = "disable"
               /\ Do("disable", (IF nm THEN <<"netoff">> ELSE <<>>) \o <<"unload", "disabled">>)
      <3> DEFINE ops == (IF nm THEN <<"netoff">> ELSE <<>>) \o <<"unload", "disabled">>
      <3>1. ops \in LeftOf("disable") /\ ops # <<>>
        <4>1. ops \in LeftOfDisable
          BY SplicedDisable, EmptyFirst DEF LeftOfDisable
        <4> QED BY <4>1 DEF LeftOf, LeftOfDisable
      <3> HIDE DEF ops
      <3>2. Do("disable", ops)
        BY <2>9 DEF ops
      <3> QED BY <2>0, <2>9, <3>1, <3>2, DoKeeps
    <2> QED BY <2>1, <2>2, <2>3, <2>4, <2>5, <2>6, <2>7, <2>8, <2>9 DEF Begin
  <1> QED BY <1>3, <1>4

(* The check after a method; "on" goes on to a stronger one.                  *)
LEMMA JudgeKeeps ==
  ASSUME NetIInv, Judge
  PROVE  NetIInv'
  <1> USE DEF call, main, net
  <1>1. /\ exit = "no" /\ todo # <<>> /\ Head(todo) = "judge" /\ act # "none" /\ queue # <<>>
        /\ todo \in LeftOf(act) /\ UNCHANGED <<call, exit, net, faults>>
    <2>1. todo # <<>> /\ Head(todo) = "judge"
      BY DEF Judge
    <2> QED BY <2>1 DEF Judge, NetIInv, TodoInv
  <1>2. /\ dev \in Devices /\ out[dev] = NoOut /\ cmd \in Commands
        /\ conf[dev].net \in BOOLEAN /\ conf[dev].hard \in BOOLEAN /\ nm \in BOOLEAN
        /\ up \in [Devices -> BOOLEAN] /\ first.nm \in BOOLEAN
        /\ first.cond \in [Devices -> Conditions] /\ cond \in [Devices -> Conditions]
    BY <1>1, NetDev DEF NetIInv, NetTypeOK
  <1>3. /\ \/ act = "enabled" /\ cmd = "on"
           \/ act \in {"softreset", "hardreset"}
           \/ act = "disabled" /\ cmd = "off"
        /\ cmd = "on" => /\ act \in {"enabled", "softreset", "hardreset"}
                         /\ act = "hardreset" => conf[dev].hard
        /\ cmd \notin {"enable", "disable"} /\ (cmd = "off" => act = "disabled")
    <2>1. act \notin {"enable", "disable"}
      <3>1. TodoInv
        BY DEF NetIInv
      <3> QED BY <1>1, <3>1, NextOf
    <2>2. TodoInv
      BY DEF NetIInv
    <2>3. \/ cmd = "on" /\ act \in {"enabled", "softreset", "hardreset"}
          \/ cmd = "off" /\ act = "disabled"
          \/ cmd \in {"softreset", "hardreset", "enable", "disable"} /\ act = cmd
      BY <1>1, <2>2, Zenon DEF TodoInv
    <2>4. cmd = "on" /\ act = "hardreset" => conf[dev].hard
      BY <1>1, <2>2, Zenon DEF TodoInv
    <2> QED BY <2>1, <2>3, <2>4
  <1>4. At({"judge"}) /\ ~At({"driver"}) /\ ~At({"netoff", "restart"})
    BY <1>1 DEF At
  <1>5. CASE cmd = "on" /\ ~Online(dev) /\ Harder(dev) /\ act = "enabled"
    <2>1. Do("softreset", ResetSoft(dev) \o <<"judge">>)
      BY <1>5 DEF Judge
    <2>2. faults = 0 => Needs(dev, "softreset")
      <3> SUFFICES ASSUME faults = 0, first.cond[dev] = "fine", first.nm, conf[dev].net PROVE FALSE
        BY DEF Needs
      <3>1. nm
        BY <1>4, <1>1 DEF NetIInv, AwayInv, At
      <3>2. cond[dev] = "fine" /\ up[dev]
        BY <1>2, <1>4, <1>5, <3>1 DEF NetIInv, OnInv, Loaded, Loads, Untouched
      <3> QED BY <1>5, <3>1, <3>2 DEF Online
    <2> QED BY <1>1, <1>5, <2>1, <2>2, SoftList, DoKeeps
  <1>6. CASE cmd = "on" /\ ~Online(dev) /\ Harder(dev) /\ act # "enabled"
    <2>1. Do("hardreset", ResetHard(dev) \o <<"judge">>) /\ act = "softreset" /\ conf[dev].hard
      BY <1>6 DEF Judge, Harder
    <2>2. faults = 0 => Needs(dev, "hardreset")
      <3> SUFFICES ASSUME faults = 0, conf[dev].net PROVE Needs(dev, "hardreset")
        BY DEF Needs
      <3>1. nm /\ (first.cond[dev] \in {"fine", "soft"} \/ Loads => cond[dev] = "fine")
        BY <1>4, <1>6, <2>1 DEF NetIInv, OnInv
      <3>2. cond[dev] = "fine" => FALSE
        BY <1>2, <1>4, <1>6, <3>1 DEF NetIInv, OnInv, Online
      <3> QED BY <1>2, <2>1, <3>1, <3>2 DEF Needs, Loads, Devices, Conditions
    <2>3. Head(ResetHard(dev) \o <<"judge">>) = "offstop"
      BY <2>1, HardList
    <2> QED BY <1>1, <1>6, <2>1, <2>2, <2>3, HardList, DoKeeps
  <1>7. CASE ~(cmd = "on" /\ ~Online(dev) /\ Harder(dev))
    <2>1. Report(act, Word(Online(dev)), Online(dev) <=> cmd # "off")
      BY <1>7 DEF Judge
    <2>2. Word(Online(dev)) \in {"online", "offline"} /\ (Word(Online(dev)) = "online" <=> Online(dev))
      BY DEF Word
    <2>3. cmd = "on" /\ faults = 0 => (Cured(dev) => Word(Online(dev)) = "online") /\ Needs(dev, act)
      <3> SUFFICES ASSUME cmd = "on", faults = 0
                   PROVE  (Cured(dev) => Online(dev)) /\ Needs(dev, act)
        BY <2>2
      <3>1. CASE act = "enabled"
        BY <1>7, <3>1 DEF Harder, Needs
      <3>2. CASE act = "softreset"
        BY <1>2, <1>4, <1>7, <3>2 DEF NetIInv, OnInv, Harder, Cured, Online
      <3>3. CASE act = "hardreset"
        BY <1>1, <1>2, <1>4, <3>3 DEF NetIInv, OnInv, AwayInv, Cured, Online, At
      <3> QED BY <1>3, <3>1, <3>2, <3>3
    <2>4. (Online(dev) <=> cmd # "off") \in BOOLEAN
      BY Zenon
    <2>5. cmd \notin {"enable", "disable"} =>
            ((Online(dev) <=> cmd # "off")
              <=> Word(Online(dev)) = (IF cmd = "off" THEN "offline" ELSE "online"))
      BY DEF Word
    <2> QED BY <1>1, <1>3, <2>1, <2>2, <2>3, <2>4, <2>5, ReportKeeps
  <1> QED BY <1>5, <1>6, <1>7

(* The ends of enable and disable                                             *)
LEMMA ConcludeKeeps ==
  ASSUME NetIInv, Conclude
  PROVE  NetIInv'
  <1> USE DEF call, main, net
  <1>1. /\ exit = "no" /\ todo # <<>> /\ Head(todo) \in {"disabled", "ready", "connect"}
        /\ act # "none" /\ queue # <<>> /\ todo \in LeftOf(act) /\ UNCHANGED <<call, exit, net,
                                                                               faults>>
    BY DEF Conclude, NetIInv, TodoInv
  <1>2. cmd \in {"enable", "disable"} /\ (Head(todo) = "ready" => act = "enable" /\ cmd = "enable")
    BY <1>1, NextOf DEF NetIInv, TodoInv
  <1>3. CASE Head(todo) = "ready" /\ Do(act, Tail(todo))
    <2>1. Tail(todo) # <<>> /\ Tail(todo) \in LeftOf(act)
      BY <1>1, <1>3, NextOf DEF NetIInv, LastOnes
    <2> QED BY <1>1, <1>2, <1>3, <2>1, DoKeeps
  <1>4. ASSUME NEW a \in {"disable", "enable"},
               NEW n \in {"disabled", "device_failed", "enabled", "connect_failed"}, Report(a, n, TRUE)
        PROVE  NetIInv'
    BY <1>1, <1>2, <1>4, ReportKeeps
  <1> QED BY <1>3, <1>4 DEF Conclude

(* The exit of the tool. *)
LEMMA FinishKeeps ==
  ASSUME NetIInv, Finish
  PROVE  NetIInv'
  <1> USE DEF call, main, net
  <1>1. /\ UNCHANGED <<cmd, conf, first, queue, act, out, status, todo, nm, up, cond, faults>>
        /\ queue = <<>> /\ exit' \in {"good", "bad", "reboot"} /\ (exit' = "good" <=> status)
    BY DEF Finish, NetIInv, NetTypeOK
  <1>2. act = "none" /\ todo = <<>>
    BY <1>1 DEF NetIInv, TodoInv
  <1>3. (NetTypeOK /\ QueueInv /\ TodoInv)'
    BY <1>1, <1>2 DEF NetIInv, NetTypeOK, QueueInv, TodoInv, Treated
  <1>4. (AwayInv /\ OnInv /\ Repaired)'
    BY <1>1, <1>2 DEF NetIInv, AwayInv, OnInv, Repaired, Treated, Cured, Needs, At, Untouched
  <1>5. StatusInv'
    BY <1>1 DEF NetIInv, StatusInv, Treated, Online
  <1> QED BY <1>3, <1>4, <1>5 DEF NetIInv

(* What happens to the devices while the tool runs. *)
LEMMA MachineKeeps ==
  ASSUME NetIInv, Autoconnect \/ Break
  PROVE  NetIInv'
  <1> USE DEF call, main, net
  <1>1. CASE Autoconnect
    <2>1. PICK d \in Devices : ~up[d] /\ cond[d] = "fine" /\ up' = [up EXCEPT ![d] = TRUE]
      BY <1>1 DEF Autoconnect
    <2>2. UNCHANGED <<cmd, conf, first, queue, act, out, status, exit, todo, nm, cond, faults,
                      dev>>
      BY <1>1 DEF Autoconnect, dev
    <2>3. up' \in [Devices -> BOOLEAN] /\ \A e \in Devices : up[e] => up'[e]
      BY <2>1 DEF NetIInv, NetTypeOK
    <2>4. (NetTypeOK /\ QueueInv /\ TodoInv)'
      BY <2>2, <2>3 DEF NetIInv, NetTypeOK, QueueInv, TodoInv, Treated, Ended
    <2>5. AwayInv' /\ Repaired'
      BY <2>2 DEF NetIInv, AwayInv, Repaired, Treated, Cured, Needs, At
    <2>6. OnInv'
      <3>1. act = "none" \/ dev \in Devices
        BY NetDev DEF NetIInv, TodoInv
      <3>2. act = "none" => ~At({"judge"})
        BY NothingLeft DEF NetIInv, TodoInv, At
      <3> QED BY <2>2, <2>3, <3>1, <3>2 DEF NetIInv, OnInv, Needs, At, Untouched, Loaded, Loads
    <2>7. StatusInv'
      BY <2>2, <2>3 DEF NetIInv, StatusInv, Treated, Ended, Online, Devices
    <2> QED BY <2>4, <2>5, <2>6, <2>7 DEF NetIInv
  <1>2. CASE Break
    <2>1. /\ UNCHANGED <<cmd, conf, first, queue, act, out, status, exit, todo, nm,
                         dev>> /\ exit = "no"
          /\ faults' = faults + 1 /\ faults \in Nat
      BY <1>2 DEF Break, dev, NetIInv, NetTypeOK
    <2>2. PICK d \in Devices, c \in {"soft", "hard"} :
            cond' = [cond EXCEPT ![d] = c] /\ up' = [up EXCEPT ![d] = FALSE]
      BY <1>2 DEF Break
    <2>3. NetTypeOK'
      BY <2>1, <2>2 DEF NetIInv, NetTypeOK, Conditions
    <2>4. (QueueInv /\ TodoInv)'
      BY <2>1 DEF NetIInv, QueueInv, TodoInv, Treated, Ended
    <2>5. (AwayInv /\ OnInv /\ Repaired)'
      BY <2>1 DEF AwayInv, OnInv, Repaired
    <2>6. StatusInv'
      BY <2>1 DEF NetIInv, StatusInv, Treated, Ended
    <2> QED BY <2>3, <2>4, <2>5, <2>6 DEF NetIInv
  <1> QED BY <1>1, <1>2

(***************************************************************************)
(* The network repair keeps its inductive invariant.                        *)
(***************************************************************************)
THEOREM NetInductive == NetSpec => []NetIInv
  <1>1. NetInit => NetIInv
    <2> SUFFICES ASSUME NetInit PROVE NetIInv
      OBVIOUS
    <2>0. out = [d \in Devices |-> NoOut] /\ Treated = {} /\ todo = <<>> /\ act = "none" /\ faults = 0
          /\ exit = "no" /\ status = TRUE
      BY DEF NetInit, Treated
    <2>1. conf \in [Devices -> [net : BOOLEAN, hard : BOOLEAN]]
      <3>1. {[net |-> TRUE, hard |-> TRUE], [net |-> TRUE, hard |-> FALSE], [net |-> FALSE, hard |-> TRUE]}
              \subseteq [net : BOOLEAN, hard : BOOLEAN]
        OBVIOUS
      <3> QED BY <3>1 DEF NetInit
    <2>2. up \in [Devices -> BOOLEAN]
      <3>1. [d \in Devices |-> nm /\ cond[d] = "fine"] \in [Devices -> BOOLEAN]
        BY Zenon
      <3> QED BY <3>1, Zenon DEF NetInit
    <2>3. NetTypeOK
      BY <2>0, <2>1, <2>2 DEF NetInit, NetTypeOK, NoOut, Commands
    <2>4. QueueInv /\ TodoInv
      BY <2>0 DEF NetInit, QueueInv, TodoInv, Ended, Devices
    <2>5. first.cond = cond /\ first.nm = nm
      BY DEF NetInit
    <2>6. AwayInv /\ OnInv
      BY <2>0, <2>5 DEF AwayInv, OnInv, Untouched, At
    <2>7. StatusInv /\ Repaired
      BY <2>0 DEF StatusInv, Repaired, Ended, NoOut, Devices
    <2> QED BY <2>3, <2>4, <2>6, <2>7 DEF NetIInv
  <1>2. NetIInv /\ [NetNext]_netvars => NetIInv'
    <2> SUFFICES ASSUME NetIInv, [NetNext]_netvars PROVE NetIInv'
      OBVIOUS
    <2>1. CASE UNCHANGED netvars
      <3>1. UNCHANGED <<cmd, conf, first, queue, act, out, status, exit, todo, nm, up, cond,
                        faults, dev>>
        BY <2>1 DEF netvars, call, main, net, dev
      <3> QED BY <3>1 DEF NetIInv, NetTypeOK, QueueInv, TodoInv, AwayInv, OnInv, StatusInv,
          Repaired,
                          Treated, Ended, Cured, Needs, Online, At, Untouched, Loaded, Loads
    <2> QED BY <2>1, BeginKeeps, CallKeeps, LookKeeps, JudgeKeeps, ConcludeKeeps, FinishKeeps,
               MachineKeeps DEF NetNext, NetStep
  <1> QED BY <1>1, <1>2, PTL DEF NetSpec

(***************************************************************************)
(* "netfix on" gets every device online that a measure of its can help, and *)
(* takes no stronger measure than the device needs.                         *)
(***************************************************************************)
THEOREM NetRepairs == NetSpec => []Repaired
  <1>1. NetIInv => Repaired
    BY DEF NetIInv
  <1> QED BY <1>1, NetInductive, PTL

(***************************************************************************)
(* NetworkManager and the driver are away only while the command that       *)
(* brings them back is still to come.                                       *)
(***************************************************************************)
THEOREM NetComesBack == NetSpec => []ComesBack
  <1>1. NetIInv => ComesBack
    <2> SUFFICES ASSUME NetIInv, faults = 0 PROVE ComesBack!2
      BY DEF ComesBack
    <2>1. At({"unload", "load", "start"}) /\ act = "hardreset" =>
            \E k \in DOMAIN todo : todo[k] = "start"
      <3> SUFFICES ASSUME At({"unload", "load", "start"}), act = "hardreset"
                   PROVE  \E k \in DOMAIN todo : todo[k] = "start"
        OBVIOUS
      <3>1. todo \in LeftOfHard
        BY DEF NetIInv, TodoInv, At, LeftOf
      <3>2. Head(todo) \in {"unload", "load", "start"}
        BY DEF At
      <3>3. \/ todo = <<"unload", "load", "start", "wait", "driver", "neton", "judge">>
            \/ todo = <<"load", "start", "wait", "driver", "neton", "judge">>
            \/ todo = <<"start", "wait", "driver", "neton", "judge">>
        BY <3>1, <3>2 DEF LeftOfHard, LeftOfOn
      <3>4. CASE todo = <<"unload", "load", "start", "wait", "driver", "neton", "judge">>
        <4>1. 3 \in DOMAIN todo /\ todo[3] = "start"
          BY <3>4
        <4> QED BY <4>1
      <3>5. CASE todo = <<"load", "start", "wait", "driver", "neton", "judge">>
        <4>1. 2 \in DOMAIN todo /\ todo[2] = "start"
          BY <3>5
        <4> QED BY <4>1
      <3>6. CASE todo = <<"start", "wait", "driver", "neton", "judge">>
        <4>1. 1 \in DOMAIN todo /\ todo[1] = "start"
          BY <3>6
        <4> QED BY <4>1
      <3> QED BY <3>3, <3>4, <3>5, <3>6
    <2>2. At({"load"}) /\ act = "hardreset" => \E k \in DOMAIN todo : todo[k] = "load"
      <3> SUFFICES ASSUME At({"load"}), act = "hardreset"
                   PROVE  \E k \in DOMAIN todo : todo[k] = "load"
        OBVIOUS
      <3>1. todo \in LeftOfHard /\ Head(todo) = "load"
        BY DEF NetIInv, TodoInv, At, LeftOf
      <3>2. todo = <<"load", "start", "wait", "driver", "neton", "judge">>
        BY <3>1 DEF LeftOfHard, LeftOfOn
      <3>3. 1 \in DOMAIN todo /\ todo[1] = "load"
        BY <3>2
      <3> QED BY <3>3
    <2> QED BY <2>1, <2>2 DEF NetIInv, AwayInv
  <1> QED BY <1>1, NetInductive, PTL

(***************************************************************************)
(* netfix ends well exactly when every device it prints is as it was asked  *)
(* for, and then the last one still is.                                     *)
(***************************************************************************)
THEOREM NetVerdict == NetSpec => []StatusTrue
  <1>1. NetIInv => StatusTrue
    <2> SUFFICES ASSUME NetIInv, Ended, cmd \notin {"enable", "disable"} PROVE StatusTrue!2
      BY DEF StatusTrue
    <2>1. exit = "good" <=> \A d \in Treated : out[d].net = (IF cmd = "off" THEN "offline" ELSE "online")
      BY DEF NetIInv, StatusInv
    <2>2. "wired" \in Treated
      BY DEF NetIInv, QueueInv, Treated, Devices
    <2>3. faults = 0 /\ cmd # "off" /\ exit = "good" => Online("wired")
      BY <2>1, <2>2 DEF NetIInv, StatusInv
    <2> QED BY <2>1, <2>3
  <1> QED BY <1>1, NetInductive, PTL

=============================================================================
