---------------------------- MODULE MultiProcess ----------------------------
(***************************************************************************)
(* MultiProcess.run of lib/parallel.py with one monitor thread per command *)
(* it starts, used the way genHtml of stressreport.py does: a first pool   *)
(* over all commands, then a second pool over the ones that were           *)
(* terminated.  pending, active, complete and rmq are class attributes, so *)
(* the second pool works on the lists of the first.                        *)
(***************************************************************************)
EXTENDS Naturals, FiniteSets

CONSTANTS
  Cmd,     \* the commands
  Slots    \* count: how many commands may be active at once

ASSUME MultiProcessAssumption ==
  /\ IsFiniteSet(Cmd) /\ Cmd # {}
  /\ Slots \in Nat \ {0}

Pool == {1, 2}                \* the first pool and the retry pool
Task == Cmd \X Pool           \* one AsyncProcess object per command and pool

VARIABLES
  pc,          \* where run is
  pool,        \* which pool is running; 0 before the first
  pending, active, complete,   \* the lists of the class
  rmq,         \* items to be removed when the iteration over a list ends
  scan,        \* active commands the loop over active has still to visit
  fails,       \* the list run returns
  thread,      \* the child and monitor of each command
  terminated   \* the commands whose terminated flag is set

lists == <<pending, active, complete, rmq>>
vars == <<pc, pool, lists, scan, fails, thread, terminated>>

\* "new": not started; "running": child alive; "mark": killed, flag not set
\* yet; "drain": child gone, complete not set yet; "done": complete is set
ThreadSt == {"new", "running", "mark", "drain", "done"}

TypeOK ==
  /\ pc \in {"idle", "loop", "scan", "fill"}
  /\ pool \in {0} \union Pool
  /\ {pending, active, complete, rmq, scan, fails, terminated} \subseteq SUBSET Task
  /\ thread \in [Task -> ThreadSt]

Init ==
  /\ pc = "idle" /\ pool = 0
  /\ pending = {} /\ active = {} /\ complete = {} /\ rmq = {}
  /\ scan = {} /\ fails = {}
  /\ thread = [t \in Task |-> "new"]
  /\ terminated = {}

-----------------------------------------------------------------------------
(* The thread that calls run.  The order inside a list is left open.        *)

\* genHtml builds a pool over all commands, or over the failed ones
CreatePool ==
  /\ pc = "idle"
  /\ \/ /\ pool = 0
        /\ \E S \in (SUBSET Cmd) \ {{}} : pending' = pending \union (S \X {1})
     \/ /\ pool = 1 /\ fails # {}
        /\ pending' = pending \union {<<t[1], 2>> : t \in fails}
  /\ pool' = pool + 1 /\ pc' = "loop" /\ fails' = {}
  /\ UNCHANGED <<active, complete, rmq, scan, thread, terminated>>

\* Mutant: the loop ends when nothing is pending.
LoopTest_PendingOnly ==
  /\ pc = "loop"
  /\ \/ pending # {} /\ pc' = "scan" /\ scan' = active
     \/ pending = {} /\ pc' = "idle" /\ UNCHANGED scan
  /\ UNCHANGED <<pool, lists, fails, thread, terminated>>

\* while len(self.pending) > 0 or len(self.active) > 0
LoopTest ==
  /\ pc = "loop"
  /\ \/ /\ pending \union active # {}
        /\ pc' = "scan" /\ scan' = active
     \/ /\ pending \union active = {}
        /\ pc' = "idle" /\ UNCHANGED scan
  /\ UNCHANGED <<pool, lists, fails, thread, terminated>>

\* for cmd in self.active: if cmd.complete: ... (active -> completed)
ScanActive(t) ==
  /\ pc = "scan" /\ t \in scan
  /\ scan' = scan \ {t}
  /\ IF thread[t] = "done"
     THEN /\ rmq' = rmq \union {t}
          /\ complete' = complete \union {t}
          /\ fails' = IF t \in terminated THEN fails \union {t} ELSE fails
     ELSE UNCHANGED <<rmq, complete, fails>>
  /\ UNCHANGED <<pc, pool, pending, active, thread, terminated>>

\* Mutant: active is left as it is.
EmptyActive_KeepActive ==
  /\ pc = "scan" /\ scan = {}
  /\ rmq' = {}
  /\ pc' = "fill"
  /\ UNCHANGED <<pool, pending, active, complete, scan, fails, thread, terminated>>

\* self.emptytrash(self.active)
EmptyActive ==
  /\ pc = "scan" /\ scan = {}
  /\ active' = active \ rmq /\ rmq' = {}
  /\ pc' = "fill"
  /\ UNCHANGED <<pool, pending, complete, scan, fails, thread, terminated>>

\* for cmd in self.pending: ... cmd.runcmdasync(saveout) (pending -> active)
FillActive(t) ==
  /\ pc = "fill" /\ t \in pending \ rmq
  /\ Cardinality(active) < Slots
  /\ rmq' = rmq \union {t}
  /\ active' = active \union {t}
  /\ thread' = [thread EXCEPT ![t] = "running"]
  /\ UNCHANGED <<pc, pool, pending, complete, scan, fails, terminated>>

\* Mutant: what did not fit into active is dropped.
EmptyPending_DropAll ==
  /\ pc = "fill"
  /\ pending \subseteq rmq \/ Cardinality(active) >= Slots
  /\ pending' = {} /\ rmq' = {}
  /\ pc' = "loop"
  /\ UNCHANGED <<pool, active, complete, scan, fails, thread, terminated>>

\* self.emptytrash(self.pending), then sleep(1)
EmptyPending ==
  /\ pc = "fill"
  /\ pending \subseteq rmq \/ Cardinality(active) >= Slots
  /\ pending' = pending \ rmq /\ rmq' = {}
  /\ pc' = "loop"
  /\ UNCHANGED <<pool, active, complete, scan, fails, thread, terminated>>

-----------------------------------------------------------------------------
(* The child of a command and its monitor thread: AsyncProcess, run once.   *)

Goto(t, from, to) == thread[t] = from /\ thread' = [thread EXCEPT ![t] = to]
MonUnchanged == UNCHANGED <<pc, pool, lists, scan, fails>>

ChildEnds(t) == Goto(t, "running", "drain") /\ MonUnchanged /\ UNCHANGED terminated

\* over the timeout: terminate kills the process tree...
Kill(t) == Goto(t, "running", "mark") /\ MonUnchanged /\ UNCHANGED terminated

\* ...and then sets the flag
Mark(t) ==
  /\ Goto(t, "mark", "drain")
  /\ terminated' = terminated \union {t}
  /\ MonUnchanged

\* self.complete = True
Publish(t) == Goto(t, "drain", "done") /\ MonUnchanged /\ UNCHANGED terminated

-----------------------------------------------------------------------------
Loop ==
  \/ LoopTest \/ EmptyActive \/ EmptyPending
  \/ \E t \in Task : ScanActive(t) \/ FillActive(t)

Monitor(t) == ChildEnds(t) \/ Kill(t) \/ Mark(t) \/ Publish(t)

Next == CreatePool \/ Loop \/ \E t \in Task : Monitor(t)

Spec == Init /\ [][Next]_vars

\* The loop and the monitors are threads; every command ends or times out.
FairSpec == Spec /\ WF_vars(Loop) /\ \A t \in Task : WF_vars(Monitor(t))

-----------------------------------------------------------------------------
(* Properties                                                               *)

Started(t) == thread[t] # "new"
Live(t) == thread[t] \in {"running", "mark"}

\* -multi: at most Slots children exist at any time.
AtMostSlots == Cardinality({t \in Task : thread[t] = "running"}) <= Slots

\* No running command is forgotten or run twice while it moves between the
\* lists: a started command is active until it is complete, complete holds
\* only commands whose monitor is through, and the lists overlap only where
\* the code iterates over one of them (rmq not emptied yet).
Conservation ==
  /\ \A t \in pending : Started(t) => t \in rmq \intersect active
  /\ \A t \in active \intersect complete : t \in rmq /\ pc = "scan"
  /\ \A t \in Task : Started(t) => t \in active \union complete
  /\ complete \subseteq {t \in Task : thread[t] = "done"}

\* run returns with no child alive, and names exactly the commands of its
\* pool that its monitors terminated.
ReturnIsExact ==
  pc = "idle" =>
    /\ pending = {} /\ active = {}
    /\ \A t \in Task : ~Live(t)
    /\ fails = {t \in terminated : t[2] = pool}

\* A command is started again only after it was terminated.
RetryOnlyFailed ==
  \A c \in Cmd : Started(<<c, 2>>) => <<c, 1>> \in terminated

\* The inductive strengthening of the four properties above: which lists may
\* overlap at each point of the loop, what every list implies of the threads,
\* and which pool the listed commands belong to.
Listed == pending \union active \union complete

ListInv ==
  /\ \A t \in Task : Started(t) <=> t \in active \union complete
  /\ complete \subseteq {t \in Task : thread[t] = "done"}
  /\ terminated \subseteq {t \in Task : thread[t] \in {"drain", "done"}}
  /\ Cardinality(active) <= Slots
  /\ pending \intersect complete = {}
  /\ pending \intersect active = IF pc = "fill" THEN rmq ELSE {}
  /\ active \intersect complete = IF pc = "scan" THEN rmq ELSE {}
  /\ pc \in {"idle", "loop"} => rmq = {}
  /\ scan \subseteq active \ complete
  /\ pc # "scan" => scan = {}
  /\ pc = "idle" => pending \union active = {}

PoolInv ==
  /\ pool = 0 => pc = "idle"
  /\ pc # "idle" => \E t \in Listed : t[2] = pool
  /\ \A t \in pending \union active : t[2] = pool
  /\ \A t \in complete : t[2] <= pool
  /\ fails = {t \in terminated \intersect complete : t[2] = pool}
  /\ \A c \in Cmd : <<c, 2>> \in Listed => <<c, 1>> \in terminated

IInv == TypeOK /\ ListInv /\ PoolInv

\* run returns.
RunReturns == pc = "loop" ~> pc = "idle"

-----------------------------------------------------------------------------
(* The promise of TaskPool, kept by these lists and flags.                  *)

AbsState(t) ==
  CASE thread[t] = "new"     -> IF t \in pending THEN "waiting" ELSE "absent"
    [] thread[t] = "running" -> "running"
    [] OTHER                 -> IF t \in terminated \/ thread[t] = "mark"
                                THEN "terminated" ELSE "ok"

Promise == INSTANCE TaskPool WITH
  state  <- [t \in Task |-> AbsState(t)],
  batch  <- IF pc = "idle" THEN {}
            ELSE {t \in Task : t[2] = pool /\ AbsState(t) # "absent"},
  failed <- IF pc = "idle" THEN fails ELSE {}

PromiseKept == Promise!Spec

=============================================================================
