----------------------------- MODULE KernelLog -----------------------------
(***************************************************************************)
(* loadKernelLog and parseKernelLog of sleepgraph.py: the phases, devices  *)
(* and actions of each test from the kernel log, for kernels whose trace   *)
(* lacks them.  processData takes this way or that of TraceLog.            *)
(***************************************************************************)
EXTENDS TraceLog

VARIABLES
  texts,  \* dmesgtext of each test
  dm,     \* the messages that still begin a phase
  clock,  \* first and previous time of this text, start of a cpu action
  actions \* the actions of this text

kvars == <<texts, dm, clock, actions>>

-----------------------------------------------------------------------------
(* loadKernelLog                                                            *)

Heads(lines) ==
  SelectSeq(Ints(Len(lines)), LAMBDA i : lines[i].n \in {"PM: Syncing filesystems", "PM: entry"})

\* Mutant: they stay as they are.
Unswap_Never(lines) == lines

\* A return that is logged at the time of its call, before it, goes after it.
Unswap(lines) ==
  LET swapped(i) == /\ i \in 2 .. Len(lines) /\ lines[i].k = "cb" /\ lines[i].b
                    /\ lines[i - 1].k = "cb" /\ ~lines[i - 1].b
                    /\ lines[i].n = lines[i - 1].n /\ lines[i].t = lines[i - 1].t
  IN [i \in DOMAIN lines |-> IF swapped(i) THEN lines[i - 1]
                             ELSE IF swapped(i + 1) THEN lines[i + 1] ELSE lines[i]]

loadKernelLog ==
  LET h == Heads(log)
      to(j) == IF j < Len(h) THEN h[j + 1] - 1 ELSE Len(log)
  IN [j \in DOMAIN h |-> Unswap(SubSeq(log, h[j], to(j)))]

LoadKernel ==
  /\ pc = "load" /\ rec.opt = "dmesg"
  /\ texts' = loadKernelLog /\ runs' = [j \in DOMAIN texts' |-> NewData]
  /\ pc' = IF texts' = <<>> THEN "failed" ELSE "text"
  /\ UNCHANGED <<rec, lost, log, usetracemarkers, reading, temps, verdict, dm, clock, actions>>

-----------------------------------------------------------------------------
(* parseKernelLog                                                           *)

Begins ==
  [suspend_prepare |-> {"PM: Syncing filesystems", "PM: entry"},
   suspend |-> {"Suspending console", "PM: Suspending system"},
   suspend_late |-> {"suspend complete"},
   suspend_noirq |-> {"late suspend complete"},
   suspend_machine |-> {"PM: suspend-to-idle", "noirq suspend complete"},
   resume_machine |-> {"Timekeeping suspended", "ACPI: Low-level resume complete"},
   resume_noirq |-> {"PM: resume from suspend-to-idle", "ACPI: Waking up"},
   resume_early |-> {"noirq resume complete"},
   resume |-> {"early resume complete"},
   resume_complete |-> {"resume complete"},
   post_resume |-> {"Restarting tasks"}]

\* The messages an action is known by: where it starts and where it ends.
ActionTable ==
  {<<"sync_filesystems", "PM: Syncing filesystems", "PM: Preparing system">>,
   <<"freeze_user_processes", "Freezing user space", "Freezing remaining">>,
   <<"freeze_tasks", "Freezing remaining", "PM: Suspending system">>}

text == texts[Len(terr) + 1]
kdata == runs[Len(terr) + 1]
PutK(d) == runs' = [runs EXCEPT ![Len(terr) + 1] = d]

NextText ==
  /\ pc = "text"
  /\ IF Len(terr) = Len(runs) THEN pc' = "trim" ELSE pc' = "dmesg"
  /\ at' = 1 /\ phase' = <<"suspend_runtime", 0>> /\ dm' = Begins /\ actions' = {}
  /\ clock' = [t0 |-> Unset, prev |-> Unset, cpu |-> Unset]
  /\ UNCHANGED <<setup, runs, limbo, hwsus, s2idle, temps, verdict, texts>>

msg == text[at]
Reading == pc = "dmesg" /\ at <= Len(text)
Changes(l) == {p \in DOMAIN dm : l.k = "msg" /\ l.n \in dm[p]}

\* The phase before ends, and one begins.
Turn(d, p, ended, t) ==
  LET shut == IF d.ph = <<>> THEN d ELSE EndPhase(d, lastPhase(d, 1).id[1], ended).d
  IN setPhase(shut, p, t, TRUE)

Kernel(p, d, l) ==
  CASE p = "suspend_prepare" ->
         [setPhase(d, p, l.t, TRUE).d EXCEPT !.start = l.t, !.tKernSus = l.t]
    [] p = "resume_machine" ->
         [Turn(d, p, clock.prev, l.t).d
            EXCEPT !.tSuspended = IF rec.mode = "freeze" THEN clock.prev ELSE l.t, !.tResumed = l.t]
    [] p = "post_resume" ->
         [EndPhase(d, lastPhase(d, 1).id[1], l.t).d EXCEPT !.end = l.t, !.tKernRes = l.t]
    [] OTHER -> Turn(d, p, l.t, l.t).d

\* A call in a phase, or its return: that of the first call of its name.
Device(d, ph, l) ==
  IF l.k # "cb" \/ ph \notin Ids(d) THEN d
  ELSE IF l.b THEN newAction(d, ph, l.n, l.pid, l.t, Unset)
  ELSE LET same == {v \in d.devs : v.ph = ph /\ v.name = l.n /\ v.k = 0}
       IN [d EXCEPT !.devs = (@ \ same) \cup {[v EXCEPT !.end = l.t] : v \in same}]

\* Actions begin once, and end with their first end; every processor is one.
Act(l) ==
  LET started == {a[1] : a \in {a \in ActionTable : a[2] = l.n}} \ {a.n : a \in actions}
      over == {a[1] : a \in {a \in ActionTable : a[3] = l.n}}
      cpu == l.n \in {"CPU1 is now offline", "CPU1 is up"}
      ended(a) == IF a.n \in over /\ a.start = a.end THEN [a EXCEPT !.end = l.t] ELSE a
  IN {ended(a) : a \in actions \cup {[n |-> s, start |-> l.t, end |-> l.t] : s \in started}}
     \cup (IF cpu THEN {[n |-> "CPU1", start |-> clock.cpu, end |-> l.t]} ELSE {})

CpuMsgs == {"Disabling non-boot CPUs", "Enabling non-boot CPUs", "CPU1 is now offline", "CPU1 is up"}
Tick(l) == [t0 |-> IF clock.t0 < 0 THEN l.t ELSE clock.t0, prev |-> l.t,
            cpu |-> IF l.n \in CpuMsgs THEN l.t ELSE clock.cpu]

\* The first time is the start of the test, until the phases begin; after a
\* freeze the first call of a device ends the time in which the clock stood.
Message ==
  /\ Reading /\ Changes(msg) \cap {"post_resume"} = {} /\ at' = at + 1
  /\ LET begun == IF clock.t0 < 0 THEN [kdata EXCEPT !.start = msg.t] ELSE kdata
         p == CHOOSE p \in Changes(msg) : TRUE
         thaw == rec.mode = "freeze" /\ phase[1] = "resume_machine" /\ msg.k = "cb" /\ msg.b
         turned == CASE thaw -> setPhase(EndPhase(begun, phase[1], msg.t).d, "resume_noirq", msg.t, TRUE).d
                     [] Changes(msg) # {} -> Kernel(p, begun, msg)
                     [] OTHER -> begun
         name == IF thaw THEN "resume_noirq" ELSE IF Changes(msg) # {} THEN p ELSE phase[1]
     IN /\ phase' = <<name, 0>>
        /\ dm' = IF Changes(msg) = {} THEN dm ELSE [dm EXCEPT ![p] = {msg.n}]
        /\ PutK(Device(turned, phase', msg))
  /\ actions' = Act(msg) /\ clock' = Tick(msg)
  /\ UNCHANGED <<setup, limbo, hwsus, s2idle, temps, verdict, texts, pc>>

\* Nothing is read after the end.
PostResume ==
  /\ Reading /\ "post_resume" \in Changes(msg)
  /\ PutK(Kernel("post_resume", kdata, msg))
  /\ at' = Len(text) + 1 /\ phase' = <<"post_resume", 0>>
  /\ UNCHANGED <<setup, limbo, hwsus, s2idle, temps, verdict, texts, dm, clock, actions, pc>>

failedIn(d) == IF Missing(d) = {} THEN "" ELSE phasedef[Min(Missing(d)) - 1]

\* A text that does not begin with a suspend ends the tool; the phase a test
\* failed in is printed and goes no further.
JudgeText ==
  /\ pc = "dmesg" /\ at > Len(text)
  /\ pc' = IF Has(kdata, "suspend_prepare") THEN "text" ELSE "failed"
  /\ LET d == closeGaps(fillTimes(initDevicegroups(kdata)))
         all == FoldLeft(LAMBDA x, a : newActionGlobal(x, a.n, a.start, a.end, -1), d, SetToSeq(actions))
     IN IF pc' = "text"
        THEN PutK(fixupInitcalls(deviceFilter(all, rec.filter))) /\ terr' = Append(terr, failedIn(kdata))
        ELSE UNCHANGED <<runs, terr>>
  /\ UNCHANGED <<setup, reading, temps, error, kvars>>

-----------------------------------------------------------------------------
(* processData: one way or the other                                        *)

KInit == Init /\ texts = <<>> /\ dm = Begins /\ actions = {}
              /\ clock = [t0 |-> Unset, prev |-> Unset, cpu |-> Unset]

Trace == Next /\ UNCHANGED kvars
KNext ==
  \/ rec.opt = "dmesg" /\ pc = "load" /\ LoadKernel
  \/ ~(rec.opt = "dmesg" /\ pc = "load") /\ Trace
  \/ NextText \/ Message \/ PostResume \/ JudgeText

processData == KInit /\ [][KNext]_<<vars, kvars>>
=============================================================================
