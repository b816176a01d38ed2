------------------------- MODULE MultiProcessProofs -------------------------
(***************************************************************************)
(* Proofs about MultiProcess for any finite set of commands and any number *)
(* of slots: the inductive invariant IInv, the safety properties that      *)
(* follow from it, and the refinement of TaskPool.                         *)
(***************************************************************************)
EXTENDS MultiProcess, FiniteSetTheorems, TLAPS

(* Finitely many commands give finitely many AsyncProcess objects.         *)
LEMMA TaskFinite == IsFiniteSet(Task)
  <1>1. IsFiniteSet(Pool)
    <2>1. IsFiniteSet({1})
      BY FS_Singleton
    <2>2. IsFiniteSet({1} \union {2})
      BY <2>1, FS_AddElement
    <2>3. Pool = {1} \union {2}
      BY DEF Pool
    <2> QED BY <2>2, <2>3
  <1> QED
    BY <1>1, FS_Product, MultiProcessAssumption DEF Task

(* The active list is finite, so its length is a number.                   *)
LEMMA ActiveFinite ==
  ASSUME TypeOK
  PROVE  IsFiniteSet(active) /\ Cardinality(active) \in Nat
  BY TaskFinite, FS_Subset, FS_CardinalityType DEF TypeOK

(* Every step keeps the types.                                             *)
LEMMA TypeStep ==
  ASSUME TypeOK, [Next]_vars
  PROVE  TypeOK'
  <1> USE DEF TypeOK, ThreadSt
  <1>1. CASE CreatePool
    <2>1. pool \in {0, 1} /\ pool' \in Pool
      BY <1>1 DEF CreatePool, Pool
    <2>2. pending' \subseteq Task
      BY <1>1 DEF CreatePool, Task, Pool
    <2> QED BY <1>1, <2>1, <2>2 DEF CreatePool
  <1>2. CASE LoopTest
    BY <1>2 DEF LoopTest, lists
  <1>3. ASSUME NEW t \in Task, ScanActive(t) PROVE TypeOK'
    BY <1>3 DEF ScanActive
  <1>4. CASE EmptyActive
    BY <1>4 DEF EmptyActive
  <1>5. ASSUME NEW t \in Task, FillActive(t) PROVE TypeOK'
    BY <1>5 DEF FillActive
  <1>6. CASE EmptyPending
    BY <1>6 DEF EmptyPending
  <1>7. ASSUME NEW t \in Task, Monitor(t) PROVE TypeOK'
    BY <1>7 DEF Monitor, ChildEnds, Kill, Mark, Publish, Goto, MonUnchanged, lists
  <1>8. CASE UNCHANGED vars
    BY <1>8 DEF vars, lists
  <1> QED BY <1>1, <1>2, <1>3, <1>4, <1>5, <1>6, <1>7, <1>8 DEF Next, Loop

(* The invariant holds before the first start. *)
LEMMA InitIInv == Init => IInv
  <1> SUFFICES ASSUME Init PROVE IInv
    OBVIOUS
  <1>1. TypeOK
    BY DEF Init, TypeOK, ThreadSt
  <1>2. ListInv
    BY FS_EmptySet, MultiProcessAssumption DEF Init, ListInv, Started
  <1>3. PoolInv
    BY DEF Init, PoolInv, Listed
  <1> QED BY <1>1, <1>2, <1>3 DEF IInv

(* Every step keeps the overlaps between the lists and the thread states.  *)
LEMMA ListStep ==
  ASSUME IInv, [Next]_vars
  PROVE  ListInv'
  <1> USE DEF IInv, TypeOK, ListInv, Started
  <1>1. CASE CreatePool
    <2>1. \A t \in pending' : t[2] = pool + 1
      BY <1>1 DEF CreatePool, Task, Pool
    <2>2. pending' \intersect complete = {}
      BY <1>1, <2>1 DEF PoolInv, CreatePool, Pool
    <2> QED BY <1>1, <2>2 DEF CreatePool
  <1>2. CASE LoopTest
    BY <1>2 DEF LoopTest, lists
  <1>3. ASSUME NEW t \in Task, ScanActive(t) PROVE ListInv'
    BY <1>3 DEF ScanActive
  <1>4. CASE EmptyActive
    <2>1. Cardinality(active') <= Cardinality(active) /\ Cardinality(active') \in Nat
      BY <1>4, ActiveFinite, FS_Subset, FS_CardinalityType DEF EmptyActive
    <2>2. Cardinality(active') <= Slots
      BY <2>1, ActiveFinite, MultiProcessAssumption
    <2> QED BY <1>4, <2>2 DEF EmptyActive
  <1>5. ASSUME NEW t \in Task, FillActive(t) PROVE ListInv'
    <2>1. IsFiniteSet(active) /\ Cardinality(active) \in Nat
      BY ActiveFinite
    <2>2. Cardinality(active') =
            IF t \in active THEN Cardinality(active) ELSE Cardinality(active) + 1
      BY <1>5, <2>1, FS_AddElement, Zenon DEF FillActive
    <2>3. Cardinality(active') <= Slots
      BY <1>5, <2>1, <2>2, MultiProcessAssumption DEF FillActive
    <2> QED BY <1>5, <2>3 DEF FillActive
  <1>6. CASE EmptyPending
    BY <1>6 DEF EmptyPending
  <1>7. ASSUME NEW t \in Task, Monitor(t) PROVE ListInv'
    BY <1>7 DEF Monitor, ChildEnds, Kill, Mark, Publish, Goto, MonUnchanged, lists, ThreadSt
  <1>8. CASE UNCHANGED vars
    BY <1>8 DEF vars, lists
  <1> QED BY <1>1, <1>2, <1>3, <1>4, <1>5, <1>6, <1>7, <1>8 DEF Next, Loop

(* A new pool has at least one command.                                    *)
LEMMA CreateNonEmpty ==
  ASSUME CreatePool
  PROVE  pending' # {}
  <1>1. CASE pool = 0
    <2>1. PICK S \in (SUBSET Cmd) \ {{}} : pending' = pending \union (S \X {1})
      BY <1>1 DEF CreatePool
    <2>2. PICK c \in S : TRUE
      BY <2>1
    <2>3. <<c, 1>> \in pending'
      BY <2>1, <2>2
    <2> QED BY <2>3
  <1>2. CASE pool # 0
    <2>1. fails # {} /\ pending' = pending \union {<<t[1], 2>> : t \in fails}
      BY <1>2 DEF CreatePool
    <2> QED BY <2>1
  <1> QED BY <1>1, <1>2

(* Every step keeps the commands of the two pools apart.                   *)
LEMMA PoolStep ==
  ASSUME IInv, [Next]_vars
  PROVE  PoolInv'
  <1> USE DEF IInv, TypeOK, PoolInv, Listed
  <1>1. CASE CreatePool
    <2>1. \A t \in pending' : t[2] = pool + 1
      BY <1>1 DEF CreatePool, Task, Pool, ListInv
    <2>2. fails' = {t \in terminated' \intersect complete' : t[2] = pool'}
      BY <1>1 DEF CreatePool, Task, Pool
    <2>3. ASSUME NEW c \in Cmd, <<c, 2>> \in Listed'
          PROVE  <<c, 1>> \in terminated'
      <3>1. CASE <<c, 2>> \in Listed
        BY <1>1, <3>1 DEF CreatePool
      <3>2. CASE <<c, 2>> \in pending' \ pending
        <4>1. pool = 1
          BY <1>1, <3>2 DEF CreatePool
        <4>2. PICK t \in fails : <<c, 2>> = <<t[1], 2>>
          BY <1>1, <3>2, <4>1 DEF CreatePool
        <4>3. t = <<c, 1>>
          BY <4>1, <4>2 DEF Task
        <4> QED BY <1>1, <4>3 DEF CreatePool
      <3> QED BY <1>1, <2>3, <3>1, <3>2 DEF CreatePool
    <2>4. \A t \in pending' \union active' : t[2] = pool'
      BY <1>1, <2>1 DEF CreatePool, ListInv
    <2>5. \A t \in complete' : t[2] <= pool'
      BY <1>1 DEF CreatePool, Task, Pool
    <2>6. pool' # 0
      BY <1>1 DEF CreatePool, Pool
    <2>7. \E t \in Listed' : t[2] = pool'
      BY <1>1, <2>1, CreateNonEmpty DEF CreatePool
    <2> QED BY <2>2, <2>3, <2>4, <2>5, <2>6, <2>7
  <1>2. CASE LoopTest
    BY <1>2 DEF LoopTest, lists
  <1>3. ASSUME NEW t \in Task, ScanActive(t) PROVE PoolInv'
    <2>1. t \in active
      BY <1>3 DEF ScanActive, ListInv
    <2>2. t[2] = pool /\ pool \in Nat
      BY <2>1 DEF Pool
    <2> QED BY <1>3, <2>1, <2>2 DEF ScanActive
  <1>4. CASE EmptyActive
    BY <1>4 DEF EmptyActive, ListInv
  <1>5. ASSUME NEW t \in Task, FillActive(t) PROVE PoolInv'
    <2>1. Listed' = Listed
      BY <1>5 DEF FillActive
    <2> QED BY <1>5, <2>1 DEF FillActive
  <1>6. CASE EmptyPending
    BY <1>6 DEF EmptyPending, ListInv
  <1>7. ASSUME NEW t \in Task, Monitor(t) PROVE PoolInv'
    BY <1>7 DEF Monitor, ChildEnds, Kill, Mark, Publish, Goto, MonUnchanged, lists, ListInv
  <1>8. CASE UNCHANGED vars
    BY <1>8 DEF vars, lists
  <1> QED BY <1>1, <1>2, <1>3, <1>4, <1>5, <1>6, <1>7, <1>8 DEF Next, Loop

(* The lists of the pool and the states of its threads agree, always.      *)
THEOREM Inductive == Spec => []IInv
  <1>1. IInv /\ [Next]_vars => IInv'
    BY TypeStep, ListStep, PoolStep DEF IInv
  <1> QED BY InitIInv, <1>1, PTL DEF Spec

(* At most Slots children run at once: parallel.py's -multi.               *)
THEOREM SlotsRespected == Spec => []AtMostSlots
  <1>1. IInv => AtMostSlots
    <2> SUFFICES ASSUME IInv PROVE AtMostSlots
      OBVIOUS
    <2> DEFINE Busy == {t \in Task : thread[t] = "running"}
    <2>1. Busy \subseteq active
      BY DEF IInv, ListInv, Started
    <2>2. Cardinality(Busy) <= Cardinality(active) /\ Cardinality(Busy) \in Nat
      BY <2>1, ActiveFinite, FS_Subset, FS_CardinalityType DEF IInv
    <2>3. Cardinality(Busy) <= Slots
      BY <2>2, ActiveFinite, MultiProcessAssumption DEF IInv, ListInv
    <2> QED BY <2>3 DEF AtMostSlots
  <1> QED BY <1>1, Inductive, PTL

(* No command is lost or started twice while it moves between the lists.   *)
THEOREM NothingLost == Spec => []Conservation
  <1>1. IInv => Conservation
    BY DEF IInv, ListInv, TypeOK, Conservation, Started
  <1> QED BY <1>1, Inductive, PTL

(* run returns with every command ended, naming exactly the terminated ones
   of its own pool although the lists belong to the class.                 *)
THEOREM ExactReturn == Spec => []ReturnIsExact
  <1>1. IInv => ReturnIsExact
    <2> SUFFICES ASSUME IInv, pc = "idle" PROVE ReturnIsExact
      BY DEF ReturnIsExact
    <2>1. \A t \in Task : Started(t) => t \in complete
      BY DEF IInv, ListInv, TypeOK
    <2>2. terminated \subseteq complete
      BY <2>1 DEF IInv, ListInv, TypeOK, Started
    <2> QED BY <2>1, <2>2 DEF IInv, ListInv, PoolInv, TypeOK, ReturnIsExact, Live, Started
  <1> QED BY <1>1, Inductive, PTL

(* genHtml retries a command only after it was terminated.                 *)
THEOREM RetryAfterFailure == Spec => []RetryOnlyFailed
  <1>1. IInv => RetryOnlyFailed
    BY DEF IInv, ListInv, PoolInv, RetryOnlyFailed, Listed, Task, Pool
  <1> QED BY <1>1, Inductive, PTL

-----------------------------------------------------------------------------
(* The refinement of TaskPool.                                              *)

AbsStates == [t \in Task |-> AbsState(t)]
AbsBatch  == IF pc = "idle" THEN {}
             ELSE {t \in Task : t[2] = pool /\ AbsState(t) # "absent"}
AbsFailed == IF pc = "idle" THEN fails ELSE {}

(* A step that changes none of the three abstract variables stutters.       *)
LEMMA Stutter ==
  ASSUME pc = "idle" <=> pc' = "idle", pool' = pool,
         pc = "idle" => fails' = fails,
         \A t \in Task : AbsState(t)' = AbsState(t)
  PROVE  UNCHANGED Promise!vars
  <1>1. AbsStates' = AbsStates
    BY DEF AbsStates
  <1>2. AbsBatch' = AbsBatch
    BY DEF AbsBatch
  <1>3. AbsFailed' = AbsFailed
    BY DEF AbsFailed
  <1> QED BY <1>1, <1>2, <1>3 DEF Promise!vars, AbsStates, AbsBatch, AbsFailed

(* Building a pool submits a batch.                                         *)
LEMMA CreateSubmits ==
  ASSUME IInv, CreatePool, NEW S, S = pending'
  PROVE  Promise!Submit(S)
  <1> USE DEF IInv, TypeOK
  <1>1. pending = {} /\ active = {} /\ rmq = {} /\ pc = "idle" /\ pc' = "loop"
    BY DEF CreatePool, ListInv
  <1>2. \A t \in Task : Started(t) => t \in complete
    BY <1>1 DEF ListInv
  <1>3. pending' \subseteq Task /\ \A t \in pending' : t[2] = pool + 1
    BY <1>1 DEF CreatePool, Task, Pool
  <1>4. pending' # {}
    BY CreateNonEmpty
  <1>5. \A t \in pending' : ~Started(t)
    BY <1>2, <1>3 DEF PoolInv, Pool
  <1>6. \A t \in pending' : AbsState(t) = "absent" /\ AbsState(t)' = "waiting"
    BY <1>1, <1>5 DEF AbsState, Started, CreatePool
  <1>7. \A t \in Task \ pending' : AbsState(t)' = AbsState(t)
    BY <1>1 DEF AbsState, CreatePool
  <1>8. AbsStates' = [t \in Task |-> IF t \in pending' THEN "waiting" ELSE AbsStates[t]]
    BY <1>6, <1>7 DEF AbsStates
  <1>9. \A t \in Task : t[2] = pool' /\ AbsState(t)' # "absent" => t \in pending'
    <2> SUFFICES ASSUME NEW t \in Task \ pending', t[2] = pool'
                 PROVE  AbsState(t)' = "absent"
      OBVIOUS
    <2>1. ~Started(t)
      BY <1>2 DEF PoolInv, CreatePool, Pool
    <2> QED BY <1>1, <1>7, <2>1 DEF AbsState, Started
  <1>10. AbsBatch' = pending'
    BY <1>1, <1>3, <1>6, <1>9 DEF AbsBatch, CreatePool
  <1>11. AbsFailed' = {} /\ AbsBatch = {}
    BY <1>1 DEF AbsFailed, AbsBatch
  <1> QED
    BY <1>3, <1>4, <1>6, <1>8, <1>10, <1>11
    DEF Promise!Submit, Promise!In, AbsStates, AbsBatch, AbsFailed

(* Leaving the loop reports the batch.                                      *)
LEMMA ReturnReports ==
  ASSUME IInv, LoopTest, pc' = "idle"
  PROVE  Promise!Report
  <1> USE DEF IInv, TypeOK
  <1>1. pc = "loop" /\ pending = {} /\ active = {} /\ UNCHANGED <<pool, pending, fails, thread,
                                                                  terminated>>
    BY DEF LoopTest, lists
  <1>2. \A t \in Task : thread[t] \in {"new", "done"}
    BY <1>1 DEF ListInv, Started
  <1>3. \A t \in Task : AbsState(t) # "absent" =>
           /\ thread[t] = "done"
           /\ AbsState(t) = IF t \in terminated THEN "terminated" ELSE "ok"
    BY <1>1, <1>2 DEF AbsState
  <1>4. fails = {t \in AbsBatch : AbsState(t) = "terminated"}
    <2>1. terminated \subseteq complete
      BY <1>1 DEF ListInv, Started
    <2>2. \A t \in terminated : thread[t] # "new" /\ AbsState(t) = "terminated"
      BY <1>2, <1>3 DEF ListInv, AbsState
    <2> QED BY <1>1, <1>3, <2>1, <2>2 DEF PoolInv, AbsBatch
  <1>5. AbsBatch # {}
    <2>1. PICK t \in complete : t[2] = pool
      BY <1>1 DEF PoolInv, Listed
    <2>2. t \in Task /\ thread[t] = "done"
      BY <2>1 DEF ListInv
    <2> QED BY <1>1, <2>1, <2>2 DEF AbsBatch, AbsState
  <1>6. \A t \in AbsBatch : AbsStates[t] \in {"ok", "terminated"} /\ AbsStates[t] = AbsState(t)
    BY <1>3 DEF AbsBatch, AbsStates
  <1>7. AbsBatch' = {} /\ AbsFailed' = fails
    BY <1>1 DEF AbsBatch, AbsFailed
  <1>8. AbsStates' = AbsStates
    BY <1>1 DEF AbsStates, AbsState
  <1> QED
    BY <1>4, <1>5, <1>6, <1>7, <1>8 DEF Promise!Report, AbsStates, AbsBatch, AbsFailed

(* TaskPool counts with the same Cardinality as MultiProcess.               *)
LEMMA SameCardinality == \A S : Promise!Cardinality(S) = Cardinality(S)
  BY DEF Promise!Cardinality, Cardinality, Promise!IsFiniteSet, IsFiniteSet

(* Starting a command takes one of the free slots.                          *)
LEMMA FillStarts ==
  ASSUME IInv, NEW t \in Task, FillActive(t)
  PROVE  Promise!Start(t)
  <1> USE DEF IInv, TypeOK
  <1> DEFINE Busy == {u \in Task : AbsStates[u] = "running"}
  <1>1. pc = "fill" /\ pc' = "fill" /\ t \in pending \ active /\ t \notin complete
    BY DEF FillActive, ListInv
  <1>2. thread[t] = "new"
    BY <1>1 DEF ListInv, Started
  <1>3. AbsState(t) = "waiting" /\ AbsState(t)' = "running"
    BY <1>1, <1>2 DEF AbsState, FillActive
  <1>4. \A u \in Task : u # t => AbsState(u)' = AbsState(u)
    BY DEF AbsState, FillActive
  <1>5. AbsStates' = [AbsStates EXCEPT ![t] = "running"]
    BY <1>3, <1>4 DEF AbsStates
  <1>6. \A u \in Task : AbsState(u) = "running" => thread[u] = "running"
    BY DEF AbsState, ThreadSt
  <1>7. Busy \subseteq active
    BY <1>6 DEF AbsStates, ListInv, Started
  <1>8. Cardinality(Busy) < Slots
    <2>1. Cardinality(Busy) <= Cardinality(active) /\ Cardinality(Busy) \in Nat
      BY <1>7, ActiveFinite, FS_Subset, FS_CardinalityType
    <2>2. Cardinality(active) < Slots
      BY DEF FillActive
    <2> QED BY <2>1, <2>2, ActiveFinite, MultiProcessAssumption
  <1>9. AbsBatch' = AbsBatch /\ AbsFailed' = AbsFailed
    BY <1>1, <1>3, <1>4 DEF AbsBatch, AbsFailed, FillActive
  <1>10. Promise!Cardinality(Promise!In("running")) < Slots
    BY <1>8, SameCardinality DEF Promise!In, AbsStates
  <1>11. AbsStates[t] = "waiting"
    BY <1>3 DEF AbsStates
  <1> QED
    BY <1>5, <1>9, <1>10, <1>11 DEF Promise!Start, AbsStates, AbsBatch, AbsFailed

(* The child of a command ends by itself or is killed by its monitor.       *)
LEMMA EndFinishes ==
  ASSUME IInv, NEW t \in Task, ChildEnds(t) \/ Kill(t)
  PROVE  Promise!Finish(t, "ok") \/ Promise!Finish(t, "terminated")
  <1> USE DEF IInv, TypeOK, Goto, MonUnchanged, lists
  <1> DEFINE how == IF thread'[t] = "mark" THEN "terminated" ELSE "ok"
  <1>1. thread[t] = "running" /\ t \notin terminated
    BY DEF ChildEnds, Kill, ListInv
  <1>2. UNCHANGED <<pc, pool, pending, fails, terminated>>
    BY DEF ChildEnds, Kill
  <1>3. thread' = [thread EXCEPT ![t] = "mark"] \/ thread' = [thread EXCEPT ![t] = "drain"]
    BY DEF ChildEnds, Kill
  <1>4. AbsState(t) = "running" /\ AbsState(t)' = how
    BY <1>1, <1>2, <1>3 DEF AbsState
  <1>5. \A u \in Task : u # t => AbsState(u)' = AbsState(u)
    BY <1>2, <1>3 DEF AbsState
  <1>6. AbsStates' = [AbsStates EXCEPT ![t] = how]
    BY <1>4, <1>5 DEF AbsStates
  <1>7. AbsBatch' = AbsBatch /\ AbsFailed' = AbsFailed
    BY <1>2, <1>4, <1>5 DEF AbsBatch, AbsFailed
  <1> QED BY <1>4, <1>6, <1>7 DEF Promise!Finish, AbsStates, AbsBatch, AbsFailed

(* MultiProcess keeps the promise of TaskPool: every step of the loop and of
   the monitors is a step of the abstract pool or leaves it alone.          *)
THEOREM Refinement == Spec => PromiseKept
  <1>1. Init => Promise!Init
    BY DEF Init, Promise!Init, AbsState
  <1>2. IInv /\ [Next]_vars => [Promise!Next]_(Promise!vars)
    <2> SUFFICES ASSUME IInv, [Next]_vars
                 PROVE  Promise!Next \/ UNCHANGED Promise!vars
      OBVIOUS
    <2> USE DEF IInv, TypeOK
    <2>1. CASE CreatePool
      <3>1. PICK S \in SUBSET Task : S = pending'
        BY TypeStep DEF TypeOK
      <3>2. Promise!Submit(S)
        BY <2>1, <3>1, CreateSubmits
      <3> QED BY <3>2 DEF Promise!Next
    <2>2. CASE LoopTest
      <3>1. CASE pc' = "idle"
        BY <2>2, <3>1, ReturnReports DEF Promise!Next
      <3>2. CASE pc' # "idle"
        BY <2>2, <3>2, Stutter DEF LoopTest, lists, AbsState
      <3> QED BY <3>1, <3>2
    <2>3. ASSUME NEW t \in Task, ScanActive(t)
          PROVE  UNCHANGED Promise!vars
      BY <2>3, Stutter DEF ScanActive, AbsState
    <2>4. CASE EmptyActive
      BY <2>4, Stutter DEF EmptyActive, AbsState
    <2>5. ASSUME NEW t \in Task, FillActive(t)
          PROVE  Promise!Next
      BY <2>5, FillStarts DEF Promise!Next
    <2>6. CASE EmptyPending
      <3>1. \A t \in rmq : Started(t)
        BY <2>6 DEF EmptyPending, ListInv
      <3>2. \A t \in Task : AbsState(t)' = AbsState(t)
        BY <2>6, <3>1 DEF EmptyPending, AbsState, Started
      <3> QED BY <2>6, <3>2, Stutter DEF EmptyPending
    <2>7. ASSUME NEW t \in Task, Monitor(t)
          PROVE  Promise!Next \/ UNCHANGED Promise!vars
      <3>1. CASE ChildEnds(t) \/ Kill(t)
        BY <3>1, EndFinishes DEF Promise!Next
      <3>2. CASE Mark(t) \/ Publish(t)
        <4>1. \A u \in Task : AbsState(u)' = AbsState(u)
          BY <3>2 DEF Mark, Publish, Goto, MonUnchanged, lists, AbsState
        <4> QED BY <3>2, <4>1, Stutter DEF Mark, Publish, MonUnchanged, lists
      <3> QED BY <2>7, <3>1, <3>2 DEF Monitor
    <2>8. CASE UNCHANGED vars
      <3>1. \A u \in Task : AbsState(u)' = AbsState(u)
        BY <2>8 DEF vars, lists, AbsState
      <3> QED BY <2>8, <3>1, Stutter DEF vars
    <2> QED
      BY <2>1, <2>2, <2>3, <2>4, <2>5, <2>6, <2>7, <2>8 DEF Next, Loop
  <1> QED BY <1>1, <1>2, Inductive, PTL DEF Spec, PromiseKept, Promise!Spec

=============================================================================
