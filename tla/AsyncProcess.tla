---------------------------- MODULE AsyncProcess ----------------------------
(***************************************************************************)
(* One AsyncProcess object of lib/parallel.py: the thread that calls       *)
(* runcmd (or runcmdasync), the monitor thread each call starts, and the   *)
(* shell child each call spawns.  The object is reused: pm_graph calls     *)
(* runcmd again on the object of its scp, while the monitor of the         *)
(* earlier call may still be alive.  Every monitor works on the fields of  *)
(* the object, so an old monitor watches the child of the newest call.     *)
(***************************************************************************)
EXTENDS Naturals

CONSTANTS
  MaxRuns,   \* bound: how many times the object is run
  Uses,      \* the ways the object may be used, see Use
  RerunOn    \* the caller runs the object again after this verdict
             \* (pm_graph's scp: "timeout"; sshcmdfancy: "ok")

\* pinged: the object has a machine to ping; async: runcmdasync and a poll of
\* complete, not runcmd; saveout: runcmdasync(saveoutput), where the monitor
\* reads the pipe at the end
Use == [pinged : BOOLEAN, async : BOOLEAN, saveout : BOOLEAN]

ASSUME AsyncProcessAssumption ==
  /\ MaxRuns \in Nat \ {0}
  /\ Uses \subseteq Use
  /\ \A u \in Uses : u.saveout => u.async
  /\ RerunOn \in {"ok", "timeout"}

Runs == 1..MaxRuns

VARIABLES
  use,         \* how the object is used
  caller,      \* where the calling thread is: idle, spawn, wait, judge
  run,         \* number of runs started; the child of run is self.process
  child,       \* child process of each run: none, running, exited, killed
  mon,         \* where the monitor thread of each run is: none, poll, ping,
               \* kill, mark, drain, done
  late,        \* int(time.time()) - self.starttime > self.timeout
  complete,    \* self.complete
  terminated,  \* self.terminated
  verdict,     \* what the caller concluded from terminated, for each run:
               \* none, ok, timeout
  gaveup       \* history: runs whose own monitor decided to terminate

asyncvars == <<use, caller, run, child, mon, late, complete, terminated, verdict, gaveup>>


AsyncInit ==
  /\ use \in Uses
  /\ caller = "idle" /\ run = 0
  /\ child = [r \in Runs |-> "none"] /\ mon = [r \in Runs |-> "none"]
  /\ late = FALSE /\ complete = FALSE /\ terminated = FALSE
  /\ verdict = [r \in Runs |-> "none"]
  /\ gaveup = {}

Alive == child[run] = "running"      \* self.process.poll() == None

MonGoto(r, from, to) == mon[r] = from /\ mon' = [mon EXCEPT ![r] = to]

-----------------------------------------------------------------------------
(* The calling thread.                                                      *)

\* Mutant: terminated survives.
Reset_KeepFlag ==
  /\ caller = "idle" /\ run < MaxRuns
  /\ run > 0 => verdict[run] = RerunOn
  /\ caller' = "spawn"
  /\ late' = FALSE /\ complete' = FALSE
  /\ UNCHANGED <<use, run, child, mon, terminated, verdict, gaveup>>

\* runcmd and runcmdasync first reset the clock and the two flags...
\* A second call follows only the verdict that makes this caller try again.
Reset ==
  /\ caller = "idle" /\ run < MaxRuns
  /\ run > 0 => verdict[run] = RerunOn
  /\ caller' = "spawn"
  /\ late' = FALSE /\ complete' = FALSE /\ terminated' = FALSE
  /\ UNCHANGED <<use, run, child, mon, verdict, gaveup>>

\* ...then start the child and its monitor thread.
Spawn ==
  /\ caller = "spawn"
  /\ run' = run + 1
  /\ child' = [child EXCEPT ![run + 1] = "running"]
  /\ mon' = [mon EXCEPT ![run + 1] = "poll"]
  /\ caller' = "wait"
  /\ UNCHANGED <<use, late, complete, terminated, verdict, gaveup>>

\* runcmd reads the pipe to its end and reaps the child, then returns.
RunReturns ==
  /\ ~use.async /\ caller = "wait" /\ ~Alive
  /\ complete' = TRUE
  /\ caller' = "judge"
  /\ UNCHANGED <<use, run, child, mon, late, terminated, verdict, gaveup>>

\* The user of runcmdasync polls complete.
SeeComplete ==
  /\ use.async /\ caller = "wait" /\ complete
  /\ caller' = "judge"
  /\ UNCHANGED <<use, run, child, mon, late, complete, terminated, verdict, gaveup>>

\* sshcmd, sshcmdfancy, pm_graph and MultiProcess.run test terminated.
Judge ==
  /\ caller = "judge"
  /\ verdict' = [verdict EXCEPT ![run] = IF terminated THEN "timeout" ELSE "ok"]
  /\ caller' = "idle"
  /\ UNCHANGED <<use, run, child, mon, late, complete, terminated, gaveup>>

-----------------------------------------------------------------------------
(* A monitor thread: processMonitor, terminate and killProcessTree.         *)

\* Mutant: the clock is never compared.
MonPoll_NoTimeout(r) ==
  /\ mon[r] = "poll"
  /\ \/ ~Alive /\ MonGoto(r, "poll", "drain")
     \/ Alive /\ MonGoto(r, "poll", "ping")
  /\ UNCHANGED <<use, caller, run, child, late, complete, terminated, verdict, gaveup>>

\* while self.process.poll() == None, and the timeout half of the test
MonPoll(r) ==
  /\ mon[r] = "poll"
  /\ \/ ~Alive /\ MonGoto(r, "poll", "drain") /\ UNCHANGED gaveup
     \/ Alive /\ ~late /\ MonGoto(r, "poll", "ping") /\ UNCHANGED gaveup
     \/ Alive /\ late /\ MonGoto(r, "poll", "kill") /\ gaveup' = gaveup \union {r}
  /\ UNCHANGED <<use, caller, run, child, late, complete, terminated, verdict>>

\* not self.ping(3), then sleep(1); without a machine ping is always true
MonPing(r) ==
  /\ mon[r] = "ping"
  /\ \/ MonGoto(r, "ping", "poll") /\ UNCHANGED gaveup
     \/ use.pinged /\ MonGoto(r, "ping", "kill") /\ gaveup' = gaveup \union {r}
  /\ UNCHANGED <<use, caller, run, child, late, complete, terminated, verdict>>

\* killProcessTree(self.process.pid); a finished child is left alone
MonKill(r) ==
  /\ MonGoto(r, "kill", "mark")
  /\ child' = IF Alive THEN [child EXCEPT ![run] = "killed"] ELSE child
  /\ UNCHANGED <<use, caller, run, late, complete, terminated, verdict, gaveup>>

\* self.terminated = True
MonMark(r) ==
  /\ MonGoto(r, "mark", "drain")
  /\ terminated' = TRUE
  /\ UNCHANGED <<use, caller, run, child, late, complete, verdict, gaveup>>

\* self.process.stdout.read() returns at the end of the pipe; complete = True
MonDrain(r) ==
  /\ MonGoto(r, "drain", "done")
  /\ use.saveout => ~Alive
  /\ complete' = TRUE
  /\ UNCHANGED <<use, caller, run, child, late, terminated, verdict, gaveup>>

Monitor(r) == MonPoll(r) \/ MonPing(r) \/ MonKill(r) \/ MonMark(r) \/ MonDrain(r)

-----------------------------------------------------------------------------
(* The child and the clock.                                                 *)

ChildExits ==
  /\ run > 0 /\ Alive
  /\ child' = [child EXCEPT ![run] = "exited"]
  /\ UNCHANGED <<use, caller, run, mon, late, complete, terminated, verdict, gaveup>>

TimeoutPasses ==
  /\ run > 0 /\ Alive /\ ~late
  /\ late' = TRUE
  /\ UNCHANGED <<use, caller, run, child, mon, complete, terminated, verdict, gaveup>>

Caller == Reset \/ Spawn \/ RunReturns \/ SeeComplete \/ Judge

AsyncNext == Caller \/ (\E r \in Runs : Monitor(r)) \/ ChildExits \/ TimeoutPasses

AsyncSpec == AsyncInit /\ [][AsyncNext]_asyncvars

\* Threads are scheduled and time passes; the child may hang for ever.
AsyncFairSpec ==
  /\ AsyncSpec
  /\ WF_asyncvars(Caller)
  /\ WF_asyncvars(TimeoutPasses)
  /\ \A r \in Runs : WF_asyncvars(Monitor(r))

-----------------------------------------------------------------------------
(* Properties                                                               *)

\* A caller judges a run only once the child of that run is gone, so the
\* output it reads is final (runcmd: end of pipe and wait; runcmdasync: the
\* monitor publishes complete last).
JudgedAfterExit ==
  \A r \in Runs : verdict[r] # "none" => child[r] \in {"exited", "killed"}

\* A child is killed only when the monitor of its own run found it over its
\* time or its machine unreachable: no monitor left over from an earlier run
\* of the object may kill a younger child (terminate uses self.process).
KillHasCause ==
  \A r \in Runs : child[r] = "killed" => r \in gaveup

\* A command that was killed is never reported as one that ended by itself.
KilledIsReported ==
  \A r \in Runs : verdict[r] = "ok" => child[r] # "killed"

\* All three, where they can be relied on, and the converse: the caller that
\* polls complete sees terminated first, and a run is reported as terminated
\* only when its own monitor gave up on it, so the flag of an earlier run is
\* not taken for this one.
VerdictTrue ==
  /\ JudgedAfterExit /\ KillHasCause
  /\ use.async => KilledIsReported
  /\ \A r \in Runs : verdict[r] = "timeout" => r \in gaveup

\* Every run is judged in the end, even when the child hangs for ever,
\* and no monitor thread is left behind.
EveryRunIsJudged ==
  \A r \in Runs :
    (run = r /\ caller = "wait") ~> (verdict[r] # "none" /\ mon[r] = "done")

-----------------------------------------------------------------------------
(* The inductive invariant.  It needs the monitors of the earlier runs to be *)
(* past their work when the object is run again: that is so when only a      *)
(* terminated run is repeated, or when the caller waits for complete.        *)

ReuseIsSafe == RerunOn = "timeout" \/ \A u \in Uses : u.async

Gone(r) == child[r] \in {"exited", "killed"}
Over(r) == mon[r] \in {"drain", "done"}        \* it kills no more
Judged == caller \in {"idle", "spawn"}

AsyncTypeOK ==
  /\ use \in Uses /\ caller \in {"idle", "spawn", "wait", "judge"} /\ run \in 0..MaxRuns
  /\ child \in [Runs -> {"none", "running", "exited", "killed"}]
  /\ mon \in [Runs -> {"none", "poll", "ping", "kill", "mark", "drain", "done"}]
  /\ late \in BOOLEAN /\ complete \in BOOLEAN /\ terminated \in BOOLEAN
  /\ verdict \in [Runs -> {"none", "ok", "timeout"}] /\ gaveup \subseteq Runs

\* Runs come one after the other: none of the next one is there, and the
\* earlier ones are over with their monitors.
RunsInOrder ==
  /\ caller = "spawn" => run < MaxRuns
  /\ ~Judged => run > 0
  /\ \A r \in Runs :
       /\ r > run => child[r] = "none" /\ mon[r] = "none" /\ verdict[r] = "none"
       /\ r <= run => child[r] # "none" /\ mon[r] # "none"
       /\ r < run \/ (r = run /\ caller = "spawn") => Over(r)
       /\ verdict[r] # "none" <=> r < run \/ (r = run /\ Judged)

\* What the newest monitor has done to the child and the flags.
MonitorInv ==
  /\ terminated => caller # "spawn" /\ run > 0 /\ Over(run) /\ run \in gaveup
  /\ \A r \in Runs :
       /\ mon[r] \in {"kill", "mark"} => r \in gaveup
       /\ mon[r] \in {"mark", "drain", "done"} => Gone(r)
       /\ child[r] = "killed" => r \in gaveup
       /\ r = run /\ child[r] = "killed" /\ caller \in {"wait", "judge"}
             => mon[r] = "mark" \/ terminated

\* What a verdict tells, and what the caller knows when it gives one.
VerdictInv ==
  /\ caller = "judge" => Gone(run)
  /\ use.async => /\ complete /\ ~Judged => mon[run] = "done"
                  /\ caller = "judge" => complete
                  /\ caller = "spawn" => ~complete
  /\ \A r \in Runs :
       /\ verdict[r] # "none" => Gone(r)
       /\ verdict[r] = "timeout" => r \in gaveup /\ Over(r)
       /\ use.async /\ verdict[r] # "none" => mon[r] = "done"
       /\ use.async /\ verdict[r] = "ok" => child[r] # "killed"

AsyncIInv == AsyncTypeOK /\ RunsInOrder /\ MonitorInv /\ VerdictInv

=============================================================================
