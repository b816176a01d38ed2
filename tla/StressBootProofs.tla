-------------------------- MODULE StressBootProofs --------------------------
(***************************************************************************)
(* Proofs about StressRun for any number of modes, iterations, fails and   *)
(* pings, with and without a reset command; and about its composition with *)
(* BootSetup: the grub file under a run is safe as long as the backup      *)
(* cannot fail silently and nothing but update-grub takes effect late, and *)
(* a test runs with the tester's file in the menu when bootsetup had no    *)
(* fault.                                                                  *)
(***************************************************************************)
EXTENDS StressBoot, TLAPS

-----------------------------------------------------------------------------
(* StressRun                                                                *)

(* Every step keeps the flags Boolean.                                     *)
LEMMA FlagsStep ==
  ASSUME Flags, [Next]_vars
  PROVE  Flags'
  <1> USE StressRunAssumption DEF vars, run, loop, wait, machine, files, history, Flags
  <1>0. resetcmd' = resetcmd
    BY DEF Next
  <1>1. CASE Reserve
    BY <1>1, <1>0, Zenon DEF Reserve
  <1>2. CASE BootSetup
    BY <1>2, <1>0, Zenon DEF BootSetup
  <1>3. CASE NextMode
    BY <1>3, <1>0, Zenon DEF NextMode
  <1>4. CASE Finish
    BY <1>4, <1>0, Zenon DEF Finish
  <1>5. CASE Restart
    BY <1>5, <1>0, Zenon DEF Restart, GiveUp, Die, Reset, SerialOut
  <1>6. CASE PingAnswered
    BY <1>6, <1>0, Zenon DEF PingAnswered
  <1>7. CASE PingMissed
    BY <1>7, <1>0, Zenon DEF PingMissed, GiveUp, Die, Reset, SerialOut
  <1>8. CASE Reboot
    BY <1>8, <1>0, Zenon DEF Reboot
  <1>9. CASE BootPing
    BY <1>9, <1>0, Zenon DEF BootPing, Die
  <1>10. CASE Verify
    BY <1>10, <1>0, Zenon DEF Verify, CallRestart
  <1>11. CASE Host
    BY <1>11, <1>0, Zenon DEF Host, Die
  <1>12. CASE Prepare
    BY <1>12, <1>0, Zenon DEF Prepare
  <1>13. CASE Enough
    BY <1>13, <1>0, Zenon DEF Enough
  <1>14. CASE KernelFails
    BY <1>14, <1>0, Zenon DEF KernelFails, CallRestart, MoreToDo
  <1>15. CASE KernelFailed
    BY <1>15, <1>0, Zenon DEF KernelFailed
  <1>16. CASE WrongKernel
    BY <1>16, <1>0, Zenon DEF WrongKernel, MoreToDo
  <1>17. CASE StartTest
    BY <1>17, <1>0, Zenon DEF StartTest, MoreToDo
  <1>18. CASE Test
    BY <1>18, <1>0, Zenon DEF Test, CallRestart
  <1>19. CASE Copy
    BY <1>19, <1>0, Zenon DEF Copy, CallRestart
  <1>20. CASE Recopy
    BY <1>20, <1>0, Zenon DEF Recopy
  <1>21. CASE Hang
    BY <1>21, <1>0, Zenon DEF Hang
  <1>22. CASE LookAtFiles
    BY <1>22, <1>0, Zenon DEF LookAtFiles
  <1>23. CASE Regen
    BY <1>23, <1>0, Zenon DEF Regen
  <1>24. CASE Missing
    BY <1>24, <1>0, Zenon DEF Missing
  <1>25. CASE Complete
    BY <1>25, <1>0, Zenon DEF Complete
  <1>26. CASE Sync
    BY <1>26, <1>0, Zenon DEF Sync
  <1>27. CASE UNCHANGED vars
    BY <1>27
  <1> QED
    BY <1>1, <1>2, <1>3, <1>4, <1>5, <1>6, <1>7, <1>8, <1>9, <1>10, <1>11, <1>12, <1>13, <1>14,
        <1>15, <1>16, <1>17, <1>18, <1>19, <1>20, <1>21, <1>22, <1>23, <1>24, <1>25, <1>26,
        <1>27 DEF Next, PmGraph

(* Every step keeps the counters within their limits.                      *)
LEMMA RangesStep ==
  ASSUME Ranges, CountInv, [Next]_vars
  PROVE  Ranges'
  <1> USE StressRunAssumption DEF vars, run, loop, wait, machine, files, history, Ranges, PCs,
      Returns, Files, CountInv, Iterating, Place
  <1>1. CASE Reserve
    BY <1>1 DEF Reserve
  <1>2. CASE BootSetup
    BY <1>2 DEF BootSetup
  <1>3. CASE NextMode
    BY <1>3 DEF NextMode
  <1>4. CASE Finish
    BY <1>4 DEF Finish
  <1>5. CASE Restart
    <2>1. CASE GiveUp
      BY <2>1 DEF GiveUp, Die
    <2>2. CASE ~GiveUp
      <3>1. tries' = 0 /\ pc' = "ping"
        BY <1>5, <2>2 DEF Restart
      <3>2. UNCHANGED <<ret, exit, run, loop, files, history>>
        BY <1>5, <2>2 DEF Restart
      <3> QED BY <3>1, <3>2
    <2> QED BY <2>1, <2>2
  <1>6. CASE PingAnswered
    BY <1>6 DEF PingAnswered
  <1>7. CASE PingMissed
    <2>1. CASE GiveUp
      BY <2>1 DEF GiveUp, Die
    <2>2. CASE ~GiveUp
      <3>1. tries < Pings /\ tries' = tries + 1
        BY <1>7, <2>2 DEF PingMissed
      <3>2. UNCHANGED <<pc, ret, exit, run, loop, files, history>>
        BY <1>7, <2>2 DEF PingMissed
      <3> QED BY <3>1, <3>2
    <2> QED BY <2>1, <2>2
  <1>8. CASE Reboot
    BY <1>8 DEF Reboot
  <1>9. CASE BootPing
    BY <1>9 DEF BootPing, Die
  <1>10. CASE Verify
    BY <1>10 DEF Verify, CallRestart
  <1>11. CASE Host
    BY <1>11 DEF Host, Die
  <1>12. CASE Prepare
    BY <1>12 DEF Prepare
  <1>13. CASE Enough
    BY <1>13 DEF Enough
  <1>14. CASE KernelFails
    BY <1>14 DEF KernelFails, CallRestart, MoreToDo
  <1>15. CASE KernelFailed
    BY <1>15 DEF KernelFailed
  <1>16. CASE WrongKernel
    BY <1>16 DEF WrongKernel, MoreToDo
  <1>17. CASE StartTest
    BY <1>17 DEF StartTest, MoreToDo
  <1>18. CASE Test
    BY <1>18 DEF Test, CallRestart
  <1>19. CASE Copy
    BY <1>19 DEF Copy, CallRestart
  <1>20. CASE Recopy
    BY <1>20 DEF Recopy
  <1>21. CASE Hang
    BY <1>21 DEF Hang
  <1>22. CASE LookAtFiles
    BY <1>22 DEF LookAtFiles
  <1>23. CASE Regen
    BY <1>23 DEF Regen
  <1>24. CASE Missing
    BY <1>24 DEF Missing
  <1>25. CASE Complete
    BY <1>25 DEF Complete
  <1>26. CASE Sync
    BY <1>26 DEF Sync
  <1>27. CASE UNCHANGED vars
    BY <1>27
  <1> QED
    BY <1>1, <1>2, <1>3, <1>4, <1>5, <1>6, <1>7, <1>8, <1>9, <1>10, <1>11, <1>12, <1>13, <1>14,
        <1>15, <1>16, <1>17, <1>18, <1>19, <1>20, <1>21, <1>22, <1>23, <1>24, <1>25, <1>26,
        <1>27 DEF Next, PmGraph

(* Only Die and Finish end the command, and both release the machine.      *)
LEMMA ReservedStep ==
  ASSUME TypeOK, ReservedInv, [Next]_vars
  PROVE  ReservedInv'
  <1> USE StressRunAssumption DEF vars, run, loop, wait, machine, files, history, TypeOK, Ranges,
      Flags, Returns, ReservedInv
  <1>1. CASE Reserve
    BY <1>1 DEF Reserve
  <1>2. CASE BootSetup
    BY <1>2 DEF BootSetup
  <1>3. CASE NextMode
    BY <1>3 DEF NextMode
  <1>4. CASE Finish
    BY <1>4 DEF Finish
  <1>5. CASE Restart
    BY <1>5 DEF Restart, GiveUp, Die, Reset, SerialOut
  <1>6. CASE PingAnswered
    BY <1>6 DEF PingAnswered
  <1>7. CASE PingMissed
    BY <1>7 DEF PingMissed, GiveUp, Die, Reset, SerialOut
  <1>8. CASE Reboot
    BY <1>8 DEF Reboot
  <1>9. CASE BootPing
    BY <1>9 DEF BootPing, Die
  <1>10. CASE Verify
    BY <1>10 DEF Verify, CallRestart
  <1>11. CASE Host
    BY <1>11 DEF Host, Die
  <1>12. CASE Prepare
    BY <1>12 DEF Prepare
  <1>13. CASE Enough
    BY <1>13 DEF Enough
  <1>14. CASE KernelFails
    BY <1>14 DEF KernelFails, CallRestart, MoreToDo
  <1>15. CASE KernelFailed
    BY <1>15 DEF KernelFailed
  <1>16. CASE WrongKernel
    BY <1>16 DEF WrongKernel, MoreToDo
  <1>17. CASE StartTest
    BY <1>17 DEF StartTest, MoreToDo
  <1>18. CASE Test
    BY <1>18 DEF Test, CallRestart
  <1>19. CASE Copy
    BY <1>19 DEF Copy, CallRestart
  <1>20. CASE Recopy
    BY <1>20 DEF Recopy
  <1>21. CASE Hang
    BY <1>21 DEF Hang
  <1>22. CASE LookAtFiles
    BY <1>22 DEF LookAtFiles
  <1>23. CASE Regen
    BY <1>23 DEF Regen
  <1>24. CASE Missing
    BY <1>24 DEF Missing
  <1>25. CASE Complete
    BY <1>25 DEF Complete
  <1>26. CASE Sync
    BY <1>26 DEF Sync
  <1>27. CASE UNCHANGED vars
    BY <1>27
  <1> QED
    BY <1>1, <1>2, <1>3, <1>4, <1>5, <1>6, <1>7, <1>8, <1>9, <1>10, <1>11, <1>12, <1>13, <1>14,
        <1>15, <1>16, <1>17, <1>18, <1>19, <1>20, <1>21, <1>22, <1>23, <1>24, <1>25, <1>26,
        <1>27 DEF Next, PmGraph

(* Data is collected from Prepare to Sync, across any restart in between.  *)
LEMMA CollectStep ==
  ASSUME TypeOK, CollectInv, [Next]_vars
  PROVE  CollectInv'
  <1> USE StressRunAssumption DEF vars, run, loop, wait, machine, files, history, TypeOK, Ranges,
      Flags, Returns, CollectInv, Place, Iterating
  <1>1. CASE Reserve
    BY <1>1 DEF Reserve
  <1>2. CASE BootSetup
    BY <1>2 DEF BootSetup
  <1>3. CASE NextMode
    BY <1>3 DEF NextMode
  <1>4. CASE Finish
    BY <1>4 DEF Finish
  <1>5. CASE Restart
    BY <1>5 DEF Restart, GiveUp, Die, Reset, SerialOut
  <1>6. CASE PingAnswered
    BY <1>6 DEF PingAnswered
  <1>7. CASE PingMissed
    BY <1>7 DEF PingMissed, GiveUp, Die, Reset, SerialOut
  <1>8. CASE Reboot
    BY <1>8 DEF Reboot
  <1>9. CASE BootPing
    BY <1>9 DEF BootPing, Die
  <1>10. CASE Verify
    BY <1>10 DEF Verify, CallRestart
  <1>11. CASE Host
    BY <1>11 DEF Host, Die
  <1>12. CASE Prepare
    BY <1>12 DEF Prepare
  <1>13. CASE Enough
    BY <1>13 DEF Enough
  <1>14. CASE KernelFails
    BY <1>14 DEF KernelFails, CallRestart, MoreToDo
  <1>15. CASE KernelFailed
    BY <1>15 DEF KernelFailed
  <1>16. CASE WrongKernel
    BY <1>16 DEF WrongKernel, MoreToDo
  <1>17. CASE StartTest
    BY <1>17 DEF StartTest, MoreToDo
  <1>18. CASE Test
    BY <1>18 DEF Test, CallRestart
  <1>19. CASE Copy
    BY <1>19 DEF Copy, CallRestart
  <1>20. CASE Recopy
    BY <1>20 DEF Recopy
  <1>21. CASE Hang
    BY <1>21 DEF Hang
  <1>22. CASE LookAtFiles
    BY <1>22 DEF LookAtFiles
  <1>23. CASE Regen
    BY <1>23 DEF Regen
  <1>24. CASE Missing
    BY <1>24 DEF Missing
  <1>25. CASE Complete
    BY <1>25 DEF Complete
  <1>26. CASE Sync
    BY <1>26 DEF Sync
  <1>27. CASE UNCHANGED vars
    BY <1>27
  <1> QED
    BY <1>1, <1>2, <1>3, <1>4, <1>5, <1>6, <1>7, <1>8, <1>9, <1>10, <1>11, <1>12, <1>13, <1>14,
        <1>15, <1>16, <1>17, <1>18, <1>19, <1>20, <1>21, <1>22, <1>23, <1>24, <1>25, <1>26,
        <1>27 DEF Next, PmGraph

(* A reset is followed by bootsetup before the code goes on.               *)
LEMMA SetupStep ==
  ASSUME TypeOK, SetupInv, [Next]_vars
  PROVE  SetupInv'
  <1> USE StressRunAssumption DEF vars, run, loop, wait, machine, files, history, TypeOK, Flags,
      Ranges, Returns, SetupInv
  <1>1. CASE Reserve
    BY <1>1 DEF Reserve
  <1>2. CASE BootSetup
    BY <1>2 DEF BootSetup
  <1>3. CASE NextMode
    BY <1>3 DEF NextMode
  <1>4. CASE Finish
    BY <1>4 DEF Finish
  <1>5. CASE Restart
    BY <1>5 DEF Restart, GiveUp, Die, Reset, SerialOut
  <1>6. CASE PingAnswered
    <2>1. setup'
      BY <1>6, Zenon DEF PingAnswered
    <2>2. pc' \in Returns
      BY <1>6 DEF PingAnswered, Ranges
    <2> QED BY <2>1, <2>2
  <1>7. CASE PingMissed
    BY <1>7 DEF PingMissed, GiveUp, Die, Reset, SerialOut
  <1>8. CASE Reboot
    BY <1>8 DEF Reboot
  <1>9. CASE BootPing
    BY <1>9 DEF BootPing, Die
  <1>10. CASE Verify
    BY <1>10 DEF Verify, CallRestart
  <1>11. CASE Host
    BY <1>11 DEF Host, Die
  <1>12. CASE Prepare
    BY <1>12 DEF Prepare
  <1>13. CASE Enough
    BY <1>13 DEF Enough
  <1>14. CASE KernelFails
    BY <1>14 DEF KernelFails, CallRestart, MoreToDo
  <1>15. CASE KernelFailed
    BY <1>15 DEF KernelFailed
  <1>16. CASE WrongKernel
    BY <1>16 DEF WrongKernel, MoreToDo
  <1>17. CASE StartTest
    BY <1>17 DEF StartTest, MoreToDo
  <1>18. CASE Test
    BY <1>18 DEF Test, CallRestart
  <1>19. CASE Copy
    BY <1>19 DEF Copy, CallRestart
  <1>20. CASE Recopy
    BY <1>20 DEF Recopy
  <1>21. CASE Hang
    BY <1>21 DEF Hang
  <1>22. CASE LookAtFiles
    BY <1>22 DEF LookAtFiles
  <1>23. CASE Regen
    BY <1>23 DEF Regen
  <1>24. CASE Missing
    BY <1>24 DEF Missing
  <1>25. CASE Complete
    BY <1>25 DEF Complete
  <1>26. CASE Sync
    BY <1>26 DEF Sync
  <1>27. CASE UNCHANGED vars
    BY <1>27
  <1> QED
    BY <1>1, <1>2, <1>3, <1>4, <1>5, <1>6, <1>7, <1>8, <1>9, <1>10, <1>11, <1>12, <1>13, <1>14,
        <1>15, <1>16, <1>17, <1>18, <1>19, <1>20, <1>21, <1>22, <1>23, <1>24, <1>25, <1>26,
        <1>27 DEF Next, PmGraph

(* The counters of the loop bound what really happened.                    *)
LEMMA CountStep ==
  ASSUME TypeOK, CountInv, [Next]_vars
  PROVE  CountInv'
  <1> USE StressRunAssumption DEF vars, run, loop, wait, machine, files, history, TypeOK, Ranges,
      Returns, CountInv, Place, Iterating
  <1>1. CASE Reserve
    BY <1>1 DEF Reserve
  <1>2. CASE BootSetup
    BY <1>2 DEF BootSetup
  <1>3. CASE NextMode
    BY <1>3 DEF NextMode
  <1>4. CASE Finish
    BY <1>4 DEF Finish
  <1>5. CASE Restart
    BY <1>5 DEF Restart, GiveUp, Die, Reset, SerialOut
  <1>6. CASE PingAnswered
    BY <1>6 DEF PingAnswered
  <1>7. CASE PingMissed
    BY <1>7 DEF PingMissed, GiveUp, Die, Reset, SerialOut
  <1>8. CASE Reboot
    BY <1>8 DEF Reboot
  <1>9. CASE BootPing
    BY <1>9 DEF BootPing, Die
  <1>10. CASE Verify
    BY <1>10 DEF Verify, CallRestart
  <1>11. CASE Host
    BY <1>11 DEF Host, Die
  <1>12. CASE Prepare
    BY <1>12 DEF Prepare
  <1>13. CASE Enough
    BY <1>13 DEF Enough
  <1>14. CASE KernelFails
    BY <1>14 DEF KernelFails, CallRestart, MoreToDo
  <1>15. CASE KernelFailed
    BY <1>15 DEF KernelFailed
  <1>16. CASE WrongKernel
    BY <1>16 DEF WrongKernel, MoreToDo
  <1>17. CASE StartTest
    BY <1>17 DEF StartTest, MoreToDo
  <1>18. CASE Test
    BY <1>18 DEF Test, CallRestart
  <1>19. CASE Copy
    BY <1>19 DEF Copy, CallRestart
  <1>20. CASE Recopy
    BY <1>20 DEF Recopy
  <1>21. CASE Hang
    BY <1>21 DEF Hang
  <1>22. CASE LookAtFiles
    BY <1>22 DEF LookAtFiles
  <1>23. CASE Regen
    BY <1>23 DEF Regen
  <1>24. CASE Missing
    BY <1>24 DEF Missing
  <1>25. CASE Complete
    BY <1>25 DEF Complete
  <1>26. CASE Sync
    BY <1>26 DEF Sync
  <1>27. CASE UNCHANGED vars
    BY <1>27
  <1> QED
    BY <1>1, <1>2, <1>3, <1>4, <1>5, <1>6, <1>7, <1>8, <1>9, <1>10, <1>11, <1>12, <1>13, <1>14,
        <1>15, <1>16, <1>17, <1>18, <1>19, <1>20, <1>21, <1>22, <1>23, <1>24, <1>25, <1>26,
        <1>27 DEF Next, PmGraph

(* The invariant that carries all the others.                              *)
THEOREM Inductive == Spec => []IInv
  <1>1. Init => IInv
    <2> SUFFICES ASSUME Init PROVE IInv
      OBVIOUS
    <2> USE StressRunAssumption DEF Init
    <2>1. Flags
      BY Zenon DEF Flags
    <2>2. Ranges
      BY DEF Ranges, PCs, Returns, Files
    <2>3. ReservedInv /\ CollectInv /\ SetupInv /\ CountInv
      BY DEF ReservedInv, CollectInv, SetupInv, CountInv, Place, Iterating
    <2> QED BY <2>1, <2>2, <2>3 DEF IInv, TypeOK
  <1>2. IInv /\ [Next]_vars => IInv'
    BY FlagsStep, RangesStep, ReservedStep, CollectStep, SetupStep, CountStep
      DEF IInv, TypeOK
  <1> QED BY <1>1, <1>2, PTL DEF Spec

(* sleepgraph runs only on a machine that is reserved, set up and checked. *)
THEOREM Ready == Spec => []ReadyWhenTested
  <1>1. IInv => ReadyWhenTested
    BY DEF IInv, ReadyWhenTested, ReservedInv, CollectInv, SetupInv, Place, Iterating
  <1> QED BY <1>1, Inductive, PTL

(* No end of the command leaves the machine reserved or data collected.    *)
THEOREM Clean == Spec => []CleanExit
  <1>1. IInv => CleanExit
    BY DEF IInv, CleanExit, ReservedInv, CollectInv, Place, Iterating
  <1> QED BY <1>1, Inductive, PTL

(* -count and -failmax bound the tests and the fails in a row.             *)
THEOREM Bounded == Spec => []LimitsRespected
  <1>1. IInv => LimitsRespected
    BY DEF IInv, LimitsRespected, CountInv
  <1> QED BY <1>1, Inductive, PTL

-----------------------------------------------------------------------------
(* StressBoot: the commands on the grub file                                *)

(* The commands that must not go wrong: the copy of the own file may       *)
(* neither fail nor be late, the other two copies may not be late.         *)
Reliable == "backup" \notin MayFail /\ MayBeLate \subseteq {"update"}

OnlyLate == late \subseteq {"update"}

(* A command of bootsetup or bootclean keeps the invariant of BootSetup,   *)
(* and so does the end of one that was given up.                           *)
LEMMA CommandStep ==
  ASSUME Reliable, B!IInv, OnlyLate, Called \/ Late
  PROVE  B!IInv' /\ OnlyLate'
  <1> USE DEF Reliable, OnlyLate, B!IInv, B!TypeOK, B!PCs, B!Commands, B!disk
  <1>1. CASE B!TestOrig
    <2>1. saved # "none" => step' = "idle"
      BY <1>1 DEF B!TestOrig
    <2>2. saved = "none" => grub = "orig" /\ step' \in {"idle", "testmine"}
      BY <1>1 DEF B!TestOrig
    <2>3. UNCHANGED <<mine, grub, saved, menu, late, cleaned>> /\ ~cleaned
      BY <1>1 DEF B!TestOrig
    <2> QED BY <2>1, <2>2, <2>3
  <1>2. CASE B!TestMine
    BY <1>2 DEF B!TestMine
  <1>3. CASE B!Backup
    BY <1>3 DEF B!Backup, B!Command, B!Effect, B!Fault
  <1>4. CASE B!Install
    <2>1. step' = "update" /\ UNCHANGED <<mine, saved, menu, late, cleaned>>
      BY <1>4 DEF B!Install, B!Command, B!Effect, B!Fault
    <2>2. grub' \in {grub, "mine"} /\ saved = "orig" /\ ~cleaned
      BY <1>4 DEF B!Install, B!Command, B!Effect, B!Fault
    <2> QED BY <2>1, <2>2
  <1>5. CASE B!Update
    <2>1. step' = "idle" /\ UNCHANGED <<mine, grub, saved, cleaned>>
      BY <1>5 DEF B!Update, B!Command, B!Effect, B!Fault
    <2>2. menu' \in {menu, grub} /\ late' \subseteq late \cup {"update"}
      BY <1>5 DEF B!Update, B!Command, B!Effect, B!Fault
    <2> QED BY <2>1, <2>2
  <1>6. CASE B!TestSaved
    BY <1>6 DEF B!TestSaved
  <1>7. CASE B!Move
    <2>1. step' = "cleanupdate" /\ UNCHANGED <<mine, menu, late>>
      BY <1>7 DEF B!Move, B!Effect, B!Fault
    <2>2. \/ grub' = "orig" /\ saved' = "none"
          \/ UNCHANGED <<grub, saved, cleaned>>
      BY <1>7 DEF B!Move, B!Effect, B!Fault
    <2>3. cleaned' \in BOOLEAN
      BY <1>7, Zenon DEF B!Move
    <2> QED BY <2>1, <2>2, <2>3
  <1>8. CASE B!CleanUpdate
    BY <1>8 DEF B!CleanUpdate, B!Command, B!Effect, B!Fault
  <1>9. CASE Late
    BY <1>9 DEF Late, B!RunLate, B!Effect
  <1> QED
    BY <1>1, <1>2, <1>3, <1>4, <1>5, <1>6, <1>7, <1>8, <1>9 DEF Called

(* A step of the run calls one of the two functions or leaves the files.   *)
LEMMA RunStep ==
  ASSUME B!IInv, OnlyLate, Run
  PROVE  B!IInv' /\ OnlyLate'
  <1> USE DEF OnlyLate, B!IInv, B!TypeOK, B!PCs, B!Commands, B!disk
  <1>1. CASE CallsSetup
    <2>1. B!Setup
      BY <1>1 DEF Run, CallsSetup, CallsClean
    <2> QED BY <2>1 DEF B!Setup
  <1>2. CASE ~CallsSetup /\ CallsClean
    <2>1. B!Clean
      BY <1>2 DEF Run
    <2> QED BY <2>1 DEF B!Clean
  <1>3. CASE ~CallsSetup /\ ~CallsClean
    <2>1. UNCHANGED <<mine, grub, saved, menu, cleaned, step>> /\ late' \subseteq late
      BY <1>3 DEF Run
    <2> QED BY <2>1
  <1> QED BY <1>1, <1>2, <1>3

-----------------------------------------------------------------------------
(* A run without a fault                                                    *)

Fresh == grub = "orig" /\ saved = "none" /\ menu = "orig"
Installed == grub = "mine" /\ saved = "orig" /\ menu = "mine"

(* Where bootsetup is after a run without a fault: before its first call   *)
(* nothing was done, after it all of it.                                   *)
SmoothInv ==
  pc # "end" /\ smooth /\ mine =>
    /\ late = {}
    /\ \/ step = "idle" /\ (Installed \/ (Fresh /\ pc \in {"reserve", "bootsetup"}))
       \/ step = "testorig" /\ (Installed \/ Fresh)
       \/ step \in {"testmine", "backup"} /\ Fresh
       \/ step = "install" /\ grub = "orig" /\ saved = "orig" /\ menu = "orig"
       \/ step = "update" /\ grub = "mine" /\ saved = "orig" /\ menu = "orig"

(* No test runs while a function is being called, and bootclean is the     *)
(* last call of all.                                                       *)
CallInv ==
  /\ pc = "test" => step = "idle"
  /\ step \in {"testsaved", "move", "cleanupdate"} => pc = "end"

(* From where to where a step of the run goes. *)
LEMMA RunPlaces ==
  ASSUME Next, ret \in Returns
  PROVE  /\ pc # "end" /\ (CallsSetup => pc' # "test")
         /\ pc = "reserve" => pc' \in {"bootsetup", "end"}
         /\ pc' = "reserve" => pc = "reserve"
         /\ pc = "finish" => pc' = "end"
         /\ pc' = "bootsetup" => pc = "reserve"
  <1> USE DEF Returns, CallsSetup, GiveUp, Die, CallRestart
  <1>1. CASE Restart \/ PingAnswered \/ PingMissed
    BY <1>1 DEF Restart, PingAnswered, PingMissed
  <1>2. CASE Reboot \/ BootPing \/ Reserve \/ BootSetup \/ NextMode \/ Finish
    BY <1>2 DEF Reboot, BootPing, Reserve, BootSetup, NextMode, Finish
  <1>3. CASE PmGraph
    BY <1>3 DEF PmGraph, Verify, Host, Prepare, Enough, KernelFails, KernelFailed, WrongKernel,
       StartTest, Test, Copy, Recopy, Hang, LookAtFiles, Regen, Missing, Complete, Sync
  <1> QED BY <1>1, <1>2, <1>3 DEF Next

(* A step of bootsetup or bootclean, while the run waits for it. *)
LEMMA SmoothCalled ==
  ASSUME Reliable, B!IInv, SmoothInv, CallInv, Called
  PROVE  SmoothInv' /\ CallInv'
  <1> USE DEF Reliable, SmoothInv, CallInv, Fresh, Installed
  <1>1. /\ UNCHANGED pc
        /\ step # "idle"
        /\ smooth' => smooth /\ NoFault
    BY DEF Called, vars
  <1>2. UNCHANGED mine
    BY DEF Called, B!TestOrig, B!TestMine, B!Backup, B!Install, B!Update, B!TestSaved,
       B!Move, B!CleanUpdate, B!Command
  <1>3. CallInv'
    BY <1>1 DEF Called, B!TestOrig, B!TestMine, B!Backup, B!Install, B!Update, B!TestSaved,
       B!Move, B!CleanUpdate, B!Command
  <1>4. SUFFICES ASSUME pc # "end", smooth, mine, NoFault PROVE SmoothInv'
    BY <1>1, <1>2, <1>3
  <1>5. CASE B!TestOrig
    BY <1>1, <1>2, <1>4, <1>5 DEF B!TestOrig, B!disk, NoFault
  <1>6. CASE B!TestMine
    BY <1>1, <1>2, <1>4, <1>6 DEF B!TestMine, B!disk, NoFault
  <1>7. CASE B!Backup
    BY <1>1, <1>2, <1>4, <1>7 DEF B!Backup, B!Command, B!Effect, B!Fault, B!disk
  <1>8. CASE B!Install
    BY <1>1, <1>2, <1>4, <1>8 DEF B!Install, B!Command, B!Effect, B!Fault, B!disk, NoFault
  <1>9. CASE B!Update
    BY <1>1, <1>2, <1>4, <1>9 DEF B!Update, B!Command, B!Effect, B!Fault, B!disk, NoFault
  <1>10. ~(B!TestSaved \/ B!Move \/ B!CleanUpdate)
    BY <1>1, <1>4 DEF B!TestSaved, B!Move, B!CleanUpdate
  <1> QED BY <1>5, <1>6, <1>7, <1>8, <1>9, <1>10 DEF Called

(* A step of the run itself, which may call bootsetup or bootclean. *)
LEMMA SmoothRun ==
  ASSUME SmoothInv, CallInv, IInv, Run
  PROVE  SmoothInv' /\ CallInv'
  <1> USE DEF SmoothInv, CallInv, Fresh, Installed
  <1>1. step = "idle" /\ Next /\ ret \in Returns
    BY DEF Run, IInv, TypeOK, Ranges
  <1>2. CASE CallsSetup
    <2>1. B!Setup /\ smooth' = (smooth /\ step' # "idle")
      BY <1>2 DEF Run, CallsSetup, CallsClean
    <2>2. pc # "end" /\ pc' # "test"
      BY <1>1, <1>2, RunPlaces
    <2> QED BY <1>1, <2>1, <2>2 DEF B!Setup, B!disk
  <1>3. CASE CallsClean
    <2>1. B!Clean
      BY <1>3 DEF Run, CallsSetup, CallsClean
    <2>2. pc' = "end"
      BY <1>1, <1>3, RunPlaces DEF CallsClean
    <2> QED BY <2>1, <2>2 DEF B!Clean
  <1>4. CASE ~CallsSetup /\ ~CallsClean
    <2>1. UNCHANGED <<mine, grub, saved, menu, step>> /\ late' \in {late, {}}
      BY <1>1, <1>4 DEF Run
    <2>2. smooth' => smooth
      BY <1>4 DEF Run
    <2>3. pc # "end" /\ (pc \in {"reserve", "bootsetup"} => pc' \in {"bootsetup", "end"})
      BY <1>1, <1>4, RunPlaces DEF CallsSetup
    <2> QED BY <1>1, <2>1, <2>2, <2>3
  <1> QED BY <1>2, <1>3, <1>4

(* A copy that ends after its time-out; there is none if copies are reliable. *)
LEMMA SmoothLate ==
  ASSUME SmoothInv, CallInv, Late
  PROVE  SmoothInv' /\ CallInv'
  <1>1. UNCHANGED <<pc, smooth, step, mine>> /\ late # {}
    BY DEF Late, B!RunLate, vars
  <1> QED BY <1>1 DEF SmoothInv, CallInv, Fresh, Installed

-----------------------------------------------------------------------------

(* Every step of the composition is one of StressRun or leaves its state.  *)
LEMMA RunRefined == SpecBoot => Spec
  <1>1. InitBoot => Init
    BY DEF InitBoot
  <1>2. [NextBoot]_allvars => [Next]_vars
    BY DEF NextBoot, Run, Called, Late, allvars, vars
  <1> QED BY <1>1, <1>2, PTL DEF SpecBoot, Spec

(* The property of the run, for any limits of it, and any commands that    *)
(* may fail or be late but the reliable ones.                              *)
THEOREM Swapped == Reliable => (SpecBoot => []GrubSwapped)
  <1> SUFFICES ASSUME Reliable PROVE SpecBoot => []GrubSwapped
    OBVIOUS
  <1> DEFINE Inv == B!IInv /\ OnlyLate /\ SmoothInv /\ CallInv
  <1>1. InitBoot => Inv
    BY DEF InitBoot, Init, B!IInv, B!TypeOK, B!PCs, B!Commands, OnlyLate, SmoothInv, CallInv,
       Fresh, Installed
  <1>2. Inv /\ IInv /\ [NextBoot]_allvars => Inv'
    <2> SUFFICES ASSUME Inv, IInv, [NextBoot]_allvars PROVE Inv'
      OBVIOUS
    <2>1. CASE Run
      BY <2>1, RunStep, SmoothRun
    <2>2. CASE Called
      BY <2>2, CommandStep, SmoothCalled
    <2>3. CASE Late
      BY <2>3, CommandStep, SmoothLate
    <2>4. CASE UNCHANGED allvars
      BY <2>4 DEF allvars, swap, vars, B!IInv, B!TypeOK, OnlyLate, SmoothInv, CallInv, Fresh,
          Installed
    <2> QED BY <2>1, <2>2, <2>3, <2>4 DEF NextBoot
  <1>3. Inv /\ IInv => GrubSwapped
    BY DEF GrubSwapped, B!OriginalKept, B!CleanRestores, B!IInv, B!TypeOK, SmoothInv, CallInv,
       Fresh, Installed
  <1>4. Spec => []IInv
    BY Inductive
  <1> QED BY <1>1, <1>2, <1>3, <1>4, RunRefined, PTL DEF SpecBoot

=============================================================================
