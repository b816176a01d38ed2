------------------------------ MODULE RunSlots ------------------------------
(***************************************************************************)
(* permission_to_run of lib/parallel.py: instances of stressreport that    *)
(* were given -maxproc share the lock files /tmp/<name>0.lock, ... and     *)
(* run only while they hold one of the first count of them.  The files are *)
(* never removed and the kernel drops the lock of an instance that ends,   *)
(* whichever way it ends.  Every instance has its own count.               *)
(***************************************************************************)
EXTENDS Integers, FiniteSets

CONSTANTS
  Proc,      \* the instances
  Count,     \* Count[p]: the -maxproc argument of p
  MaxCount,  \* the largest of them
  Wait       \* bound on the tries of permission_to_run (86400 in the code)

ASSUME RunSlotsAssumption ==
  /\ MaxCount \in Nat \ {0}
  /\ Count \in [Proc -> 1..MaxCount]
  /\ Wait \in Nat \ {0}

Slot == 0..(MaxCount - 1)

VARIABLES
  pc,     \* what each instance does
  idx,    \* the lock file it tries next
  tries,  \* i: how often it found all of them taken
  held    \* the slots whose lock each instance holds

vars == <<pc, idx, tries, held>>

PCs == {"out", "try", "sleep", "run"}

TypeOK ==
  /\ pc \in [Proc -> PCs]
  /\ idx \in [Proc -> Slot]
  /\ tries \in [Proc -> 0..Wait]
  /\ held \in [Proc -> SUBSET Slot]

Init ==
  /\ pc = [p \in Proc |-> "out"]
  /\ idx = [p \in Proc |-> 0]
  /\ tries = [p \in Proc |-> 0]
  /\ held = [p \in Proc |-> {}]

Taken(s) == \E q \in Proc : s \in held[q]

\* An instance is started and opens its lock files.
Launch(p) ==
  /\ pc[p] = "out"
  /\ pc' = [pc EXCEPT ![p] = "try"]
  /\ UNCHANGED <<idx, tries, held>>

\* Mutant: takes a slot without the lock.
TryLock_Shared(p) ==
  /\ pc[p] = "try"
  /\ held' = [held EXCEPT ![p] = {idx[p]}]
  /\ pc' = [pc EXCEPT ![p] = "run"]
  /\ UNCHANGED <<idx, tries>>

\* What permission_to_run counts is gone when it returns.
Forget(p) == idx' = [idx EXCEPT ![p] = 0] /\ tries' = [tries EXCEPT ![p] = 0]

\* fcntl.flock(fp, LOCK_NB | LOCK_EX) on the next file
TryLock(p) ==
  /\ pc[p] = "try"
  /\ \/ /\ ~Taken(idx[p])
        /\ held' = [held EXCEPT ![p] = {idx[p]}]
        /\ pc' = [pc EXCEPT ![p] = "run"]
        /\ Forget(p)
     \/ /\ Taken(idx[p]) /\ idx[p] + 1 < Count[p]
        /\ idx' = [idx EXCEPT ![p] = idx[p] + 1]
        /\ UNCHANGED <<pc, tries, held>>
     \/ /\ Taken(idx[p]) /\ idx[p] + 1 >= Count[p]
        /\ pc' = [pc EXCEPT ![p] = "sleep"]
        /\ UNCHANGED <<idx, tries, held>>

\* Mutant: the tries are not counted.
Sleep_Forever(p) ==
  /\ pc[p] = "sleep"
  /\ pc' = [pc EXCEPT ![p] = "try"]
  /\ idx' = [idx EXCEPT ![p] = 0]
  /\ UNCHANGED <<tries, held>>

\* time.sleep(1) and the next try, or sys.exit(1) when the wait is over
Sleep(p) ==
  /\ pc[p] = "sleep"
  /\ IF tries[p] + 1 < Wait
     THEN /\ pc' = [pc EXCEPT ![p] = "try"]
          /\ idx' = [idx EXCEPT ![p] = 0] /\ tries' = [tries EXCEPT ![p] = @ + 1]
     ELSE pc' = [pc EXCEPT ![p] = "out"] /\ Forget(p)
  /\ UNCHANGED held

\* The instance finishes, fails or is killed: the kernel closes its files.
End(p) ==
  /\ pc[p] # "out"
  /\ pc' = [pc EXCEPT ![p] = "out"]
  /\ held' = [held EXCEPT ![p] = {}]
  /\ Forget(p)

Next == \E p \in Proc : Launch(p) \/ TryLock(p) \/ Sleep(p) \/ End(p)

Spec == Init /\ [][Next]_vars

\* A waiting instance keeps trying; nothing says when a running one ends.
FairSpec == Spec /\ \A p \in Proc : WF_vars(TryLock(p) \/ Sleep(p))

-----------------------------------------------------------------------------
(* Properties                                                               *)

Running == {p \in Proc : pc[p] = "run"}

\* -maxproc: never more instances run than the largest count allows.
AtMostMaxCount == Cardinality(Running) <= MaxCount

\* An instance with a smaller count still runs only on one of its own files,
\* which no other instance holds, and a lock is held only while running: a
\* dead instance blocks nobody.
OwnSlot ==
  /\ \A p \in Proc : held[p] # {} <=> pc[p] = "run"
  /\ \A p \in Running : \E s \in 0..(Count[p] - 1) : held[p] = {s}
  /\ \A p, q \in Running : p # q => held[p] # held[q]

\* Whoever waits gets a slot or is told that there is none.
WaitEnds == \A p \in Proc : pc[p] = "try" ~> pc[p] \in {"run", "out"}

\* The inductive strengthening.
IInv ==
  /\ TypeOK
  /\ OwnSlot
  /\ \A p \in Proc : idx[p] < Count[p]
  /\ \A p \in Proc : tries[p] < Wait

=============================================================================
