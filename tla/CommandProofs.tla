---------------------------- MODULE CommandProofs ----------------------------
(***************************************************************************)
(* Commands: the flags of the machine list are earned, and no command      *)
(* takes one back or stumbles as long as commands do not write into each   *)
(* other's work; and the runs of one AsyncProcess object are told apart.   *)
(***************************************************************************)
EXTENDS MachineList, AsyncProcess, TLAPS

(* A line of a copy is marked; everything else of the copies stays. *)
LEMMA MarkLine ==
  ASSUME TypeOK, NEW p \in Proc, pos[p] \in Hosts, NEW f \in Flag, Mark(p, f)
  PROVE  /\ lines' \in [Proc -> [Hosts -> Flag]]
         /\ \A q \in Proc : q # p => lines'[q] = lines[q]
         /\ lines'[p][pos[p]] = f
         /\ \A h \in Hosts : h # pos[p] => lines'[p][h] = lines[p][h]
  <1>1. lines' = [lines EXCEPT ![p] = [lines[p] EXCEPT ![pos[p]] = f]]
    BY DEF Mark
  <1>2. lines \in [Proc -> [Hosts -> Flag]]
    BY DEF TypeOK
  <1>3. [lines[p] EXCEPT ![pos[p]] = f] \in [Hosts -> Flag]
    BY <1>2
  <1> QED BY <1>1, <1>2, <1>3

(* A process that ends leaves no trace but its end. *)
LEMMA LeaveTypes ==
  ASSUME TypeOK, NEW p \in Proc, NEW how \in PCs, Leave(p, how)
  PROVE  /\ pc' \in [Proc -> PCs] /\ cmd' \in [Proc -> Commands]
         /\ lines' \in [Proc -> [Hosts -> Flag]] /\ pos' \in [Proc -> 1..(N + 1)]
         /\ machlist' \in [Proc -> SUBSET Hosts] /\ status' \in [Proc -> SUBSET Hosts]
         /\ todo' \in [Proc -> SUBSET Hosts]
  <1>1. pc' \in [Proc -> PCs] /\ cmd' \in [Proc -> Commands]
    BY DEF TypeOK, Leave, PCs, Commands
  <1>2. lines' \in [Proc -> [Hosts -> Flag]]
    <2>1. Blank \in [Hosts -> Flag]
      BY DEF Blank, Flag
    <2> QED BY <2>1 DEF TypeOK, Leave
  <1>3. pos' \in [Proc -> 1..(N + 1)]
    BY MachineListAssumption DEF TypeOK, Leave
  <1>4. machlist' \in [Proc -> SUBSET Hosts]
    BY DEF TypeOK, Leave
  <1>5. status' \in [Proc -> SUBSET Hosts]
    BY DEF TypeOK, Leave
  <1>6. todo' \in [Proc -> SUBSET Hosts]
    BY DEF TypeOK, Leave
  <1> QED BY <1>1, <1>2, <1>3, <1>4, <1>5, <1>6

(* The next line is a line or the end. *)
LEMMA NextPos ==
  ASSUME TypeOK, NEW p \in Proc, pos[p] <= N, pos' = [pos EXCEPT ![p] = @ + 1]
  PROVE  pos' \in [Proc -> 1..(N + 1)] /\ pos[p] \in Hosts
  <1>1. pos \in [Proc -> 1..(N + 1)] /\ N \in Nat
    BY MachineListAssumption DEF TypeOK
  <1> QED BY <1>1 DEF Hosts

(* Types are kept. *)
LEMMA TypeStep ==
  ASSUME TypeOK, PlaceInv, [Next]_vars
  PROVE  TypeOK'
  <1> USE MachineListAssumption DEF TypeOK, vars, disk, copy, pool, machine, kernels, Flag, PCs, Commands
  <1>1. ASSUME NEW p \in Proc, RunStressCmd(p) PROVE TypeOK'
    BY <1>1 DEF RunStressCmd, Start, Read
  <1>2. ASSUME NEW p \in Proc, ResetMachineList(p) PROVE TypeOK'
    BY <1>2 DEF ResetMachineList, Start, Read, Cleared
  <1>3. ASSUME NEW p \in Proc, Find(p) PROVE TypeOK'
    BY <1>3 DEF Find, Start
  <1>4. ASSUME NEW p \in Proc, ChildEnds(p) PROVE TypeOK'
    <2>1. PICK h \in todo[p] :
            /\ todo' = [todo EXCEPT ![p] = todo[p] \ {h}]
            /\ installed' \in {installed, installed \cup {h}}
            /\ \/ /\ status' = [status EXCEPT ![p] = status[p] \cup {h}]
                  /\ passed' = passed \cup {h}
               \/ UNCHANGED <<status, passed>>
      BY <1>4, Zenon DEF ChildEnds
    <2>2. h \in Hosts
      OBVIOUS
    <2>3. todo' \in [Proc -> SUBSET Hosts] /\ installed' \subseteq Hosts /\ passed' \subseteq Hosts
      BY <2>1, <2>2
    <2>4. status' \in [Proc -> SUBSET Hosts]
      <3>1. status' = status \/ status' = [status EXCEPT ![p] = status[p] \cup {h}]
        BY <2>1, Zenon
      <3> QED BY <3>1, <2>2, SMTT(30)
    <2> QED BY <1>4, <2>3, <2>4 DEF ChildEnds
  <1>5. ASSUME NEW p \in Proc, SecondPass(p) PROVE TypeOK'
    BY <1>5 DEF SecondPass, Read
  <1>6. ASSUME NEW p \in Proc, Skip(p) PROVE TypeOK'
    <2>1. pos' \in [Proc -> 1..(N + 1)]
      BY <1>6, NextPos DEF Skip, Visiting, NextLine
    <2> QED BY <1>6, <2>1 DEF Skip, Keep, NextLine
  <1>7. ASSUME NEW p \in Proc, Online(p) PROVE TypeOK'
    <2>1. pos' \in [Proc -> 1..(N + 1)] /\ pos[p] \in Hosts
      BY <1>7, NextPos DEF Online, Visiting, NextLine
    <2>2. lines' \in [Proc -> [Hosts -> Flag]]
      BY <1>7, <2>1, MarkLine, SMT DEF Online, Keep
    <2>3. machlist' \in [Proc -> SUBSET Hosts]
      BY <1>7, <2>1, SMTT(30) DEF Online
    <2> QED BY <1>7, <2>1, <2>2, <2>3 DEF Online, NextLine
  <1>8. ASSUME NEW p \in Proc, Install(p) PROVE TypeOK'
    <2>1. pos' \in [Proc -> 1..(N + 1)] /\ pos[p] \in Hosts
      BY <1>8, NextPos DEF Install, Visiting, NextLine
    <2>2. lines' \in [Proc -> [Hosts -> Flag]]
      BY <1>8, <2>1, MarkLine, SMT DEF Install, Keep
    <2>3. machlist' \in [Proc -> SUBSET Hosts]
      BY <1>8, <2>1 DEF Install
    <2> QED BY <1>8, <2>1, <2>2, <2>3 DEF Install, NextLine
  <1>9. ASSUME NEW p \in Proc, KeyError(p) PROVE TypeOK'
    BY <1>9, LeaveTypes DEF KeyError
  <1>10. ASSUME NEW p \in Proc, Ready(p) PROVE TypeOK'
    <2>1. pos' \in [Proc -> 1..(N + 1)] /\ pos[p] \in Hosts
      BY <1>10, NextPos DEF Ready, Visiting, NextLine
    <2>2. lines' \in [Proc -> [Hosts -> Flag]]
      BY <1>10, <2>1, MarkLine, SMT DEF Ready, Keep
    <2>3. machlist' \in [Proc -> SUBSET Hosts]
      BY <1>10, <2>1 DEF Ready
    <2> QED BY <1>10, <2>1, <2>2, <2>3 DEF Ready, NextLine
  <1>11. ASSUME NEW p \in Proc, Run(p) PROVE TypeOK'
    <2>1. pos' \in [Proc -> 1..(N + 1)]
      BY <1>11, NextPos DEF Run, Visiting, NextLine
    <2> QED BY <1>11, <2>1 DEF Run, Keep, NextLine
  <1>12. ASSUME NEW p \in Proc, NotRunning(p) PROVE TypeOK'
    BY <1>12 DEF NotRunning, Visiting
  <1>13. ASSUME NEW p \in Proc, SpawnStressTest(p) PROVE TypeOK'
    <2>1. pos[p] <= N
      BY <1>13 DEF PlaceInv, SpawnStressTest
    <2>2. pos' \in [Proc -> 1..(N + 1)] /\ pos[p] \in Hosts
      BY <1>13, <2>1, NextPos DEF SpawnStressTest
    <2>3. tests' \in [Hosts -> Nat]
      BY <1>13, <2>2 DEF SpawnStressTest
    <2> QED BY <1>13, <2>2, <2>3 DEF SpawnStressTest
  <1>14. ASSUME NEW p \in Proc, Truncate(p) PROVE TypeOK'
    BY <1>14 DEF Truncate
  <1>15. ASSUME NEW p \in Proc, Store(p) PROVE TypeOK'
    <2>1. CASE AskAgain(p)
      BY <1>15, <2>1 DEF Store, After, Again, Text
    <2>2. CASE ~AskAgain(p)
      <3>1. Leave(p, "idle")
        BY <1>15, <2>2 DEF Store, After
      <3> QED BY <1>15, <3>1, LeaveTypes DEF Store, Text
    <2> QED BY <2>1, <2>2
  <1>16. ASSUME NEW p \in Proc, Unchanged_(p) PROVE TypeOK'
    <2>1. CASE AskAgain(p)
      BY <1>16, <2>1 DEF Unchanged_, After, Again
    <2>2. CASE ~AskAgain(p)
      <3>1. Leave(p, "idle")
        BY <1>16, <2>2 DEF Unchanged_, After
      <3> QED BY <1>16, <3>1, LeaveTypes DEF Unchanged_
    <2> QED BY <2>1, <2>2
  <1>17. ASSUME NEW p \in Proc, Interrupt(p) PROVE TypeOK'
    BY <1>17, LeaveTypes DEF Interrupt
  <1>18. ASSUME NEW h \in Hosts, TestEnds(h) PROVE TypeOK'
    BY <1>18 DEF TestEnds
  <1>19. CASE UNCHANGED vars
    BY <1>19
  <1> QED BY <1>1, <1>2, <1>3, <1>4, <1>5, <1>6, <1>7, <1>8, <1>9, <1>10, <1>11, <1>12,
      <1>13, <1>14, <1>15, <1>16, <1>17, <1>18, <1>19 DEF Next, Begin, Step

(* A mark that is earned keeps the copies earned. *)
LEMMA MarkEarned ==
  ASSUME TypeOK, FlagsEarned, NEW p \in Proc, pos[p] \in Hosts, NEW f \in Flag, Mark(p, f),
         f = "R" => pos[p] \in installed, f = "I" => pos[p] \in passed
  PROVE  \A q \in Proc : Earned(lines'[q])
  <1>1. \A q \in Proc : Earned(lines[q])
    BY DEF FlagsEarned
  <1>2. \A q \in Proc : q # p => Earned(lines'[q])
    BY <1>1, MarkLine
  <1>3. Earned(lines'[p])
    BY <1>1, MarkLine DEF Earned
  <1> QED BY <1>2, <1>3

(* Copies and statuses that are earned, and what was earned before, are all there is. *)
LEMMA EarnedIntro ==
  ASSUME FlagsEarned, UNCHANGED disk, UNCHANGED kernels,
         \A q \in Proc : Earned(lines'[q]),
         \A q \in Proc : status'[q] \subseteq passed
  PROVE  FlagsEarned'
  BY DEF FlagsEarned, Earned, disk, kernels

(* What a process that ends leaves in its copy. *)
LEMMA LeaveValues ==
  ASSUME TypeOK, NEW p \in Proc, NEW how, Leave(p, how)
  PROVE  /\ pc'[p] = how /\ cmd'[p] = "init" /\ lines'[p] = Blank /\ pos'[p] = 1
         /\ machlist'[p] = {} /\ status'[p] = {}
         /\ \A q \in Proc : q # p =>
              /\ pc'[q] = pc[q] /\ cmd'[q] = cmd[q] /\ lines'[q] = lines[q]
              /\ pos'[q] = pos[q] /\ machlist'[q] = machlist[q] /\ status'[q] = status[q]
  <1> USE DEF TypeOK, Leave
  <1>1. pc'[p] = how /\ cmd'[p] = "init" /\ lines'[p] = Blank /\ pos'[p] = 1
    OBVIOUS
  <1>2. machlist'[p] = {} /\ status'[p] = {}
    OBVIOUS
  <1>3. ASSUME NEW q \in Proc, q # p
        PROVE  /\ pc'[q] = pc[q] /\ cmd'[q] = cmd[q] /\ lines'[q] = lines[q]
               /\ pos'[q] = pos[q] /\ machlist'[q] = machlist[q] /\ status'[q] = status[q]
    BY <1>3
  <1> QED BY <1>1, <1>2, <1>3

(* The end of a pass: the process ends, or online asks again. *)
LEMMA AfterValues ==
  ASSUME TypeOK, NEW p \in Proc, After(p)
  PROVE  /\ \A q \in Proc : q # p => /\ pc'[q] = pc[q] /\ cmd'[q] = cmd[q]
                                    /\ lines'[q] = lines[q] /\ pos'[q] = pos[q]
                                    /\ machlist'[q] = machlist[q]
         /\ \A q \in Proc : /\ lines'[q] \in {lines[q], Blank}
                           /\ status'[q] \in {status[q], {}}
         /\ \/ pc'[p] = "idle"
            \/ pc'[p] = "again" /\ cmd'[p] = "online" /\ cmd' = cmd
  <1>1. CASE AskAgain(p)
    <2>1. UNCHANGED <<cmd, lines, pos, machlist, status>> /\ pc' = [pc EXCEPT ![p] = "again"]
      BY <1>1 DEF After, Again, copy, pool
    <2>2. pc' = [q \in Proc |-> IF q = p THEN "again" ELSE pc[q]]
      BY <2>1 DEF TypeOK
    <2>3. cmd[p] = "online"
      BY <1>1 DEF AskAgain
    <2> QED BY <2>1, <2>2, <2>3
  <1>2. CASE ~AskAgain(p)
    <2>1. Leave(p, "idle")
      BY <1>2 DEF After
    <2> QED BY <2>1, LeaveValues
  <1> QED BY <1>1, <1>2

(* A flag is written where it was earned; copies keep it. *)
LEMMA FlagsEarnedStep ==
  ASSUME TypeOK, FlagsEarned, [Next]_vars
  PROVE  FlagsEarned'
  <1> USE MachineListAssumption DEF TypeOK, FlagsEarned, vars, disk, copy, pool, machine, kernels
  <1>1. ASSUME NEW p \in Proc, RunStressCmd(p) PROVE FlagsEarned'
    BY <1>1 DEF RunStressCmd, Start, Read, Earned
  <1>2. ASSUME NEW p \in Proc, ResetMachineList(p) PROVE FlagsEarned'
    BY <1>2 DEF ResetMachineList, Start, Read, Cleared, Earned
  <1>3. ASSUME NEW p \in Proc, Find(p) PROVE FlagsEarned'
    BY <1>3 DEF Find, Start, Earned
  <1>4. ASSUME NEW p \in Proc, ChildEnds(p) PROVE FlagsEarned'
    <2>1. PICK h \in todo[p] :
            /\ installed' \in {installed, installed \cup {h}}
            /\ \/ /\ status' = [status EXCEPT ![p] = @ \cup {h}]
                  /\ passed' = passed \cup {h}
               \/ UNCHANGED <<status, passed>>
      BY <1>4 DEF ChildEnds
    <2>2. UNCHANGED <<file, stored, lines>>
      BY <1>4 DEF ChildEnds
    <2>3. installed \subseteq installed' /\ passed \subseteq passed'
      BY <2>1
    <2>4. \A q \in Proc : status'[q] \subseteq passed'
      <3>1. CASE UNCHANGED <<status, passed>>
        BY <3>1
      <3>2. CASE status' = [status EXCEPT ![p] = @ \cup {h}] /\ passed' = passed \cup {h}
        BY <3>2
      <3> QED BY <2>1, <3>1, <3>2
    <2>5. Earned(file)' /\ Earned(stored)' /\ \A q \in Proc : Earned(lines[q])'
      BY <2>2, <2>3 DEF Earned
    <2> QED BY <2>4, <2>5 DEF FlagsEarned
  <1>5. ASSUME NEW p \in Proc, SecondPass(p) PROVE FlagsEarned'
    BY <1>5 DEF SecondPass, Read, Earned
  <1>6. ASSUME NEW p \in Proc, Skip(p) PROVE FlagsEarned'
    BY <1>6 DEF Skip, Visiting, Keep, NextLine, Earned
  <1>7. ASSUME NEW p \in Proc, Online(p) PROVE FlagsEarned'
    <2>1. pos[p] \in Hosts
      BY <1>7, NextPos DEF Online, Visiting, NextLine
    <2>2. \A q \in Proc : Earned(lines'[q])
      <3>1. CASE lines' = lines
        BY <3>1 DEF FlagsEarned, Earned
      <3>2. CASE Mark(p, "O")
        BY <3>2, <2>1, MarkEarned DEF FlagsEarned, Flag
      <3> QED BY <1>7, <3>1, <3>2 DEF Online, Keep
    <2>3. \A q \in Proc : status'[q] \subseteq passed
      BY <1>7 DEF Online, NextLine, FlagsEarned
    <2> QED BY <1>7, <2>2, <2>3, EarnedIntro DEF Online, NextLine, machine
  <1>8. ASSUME NEW p \in Proc, Install(p) PROVE FlagsEarned'
    <2>1. pos[p] \in Hosts
      BY <1>8, NextPos DEF Install, Visiting, NextLine
    <2>2. \A q \in Proc : Earned(lines'[q])
      <3>1. CASE lines' = lines
        BY <3>1 DEF FlagsEarned, Earned
      <3>2. CASE Mark(p, "I") /\ pos[p] \in passed
        BY <3>2, <2>1, MarkEarned DEF FlagsEarned, Flag
      <3> QED BY <1>8, <3>1, <3>2 DEF Install, Keep, FlagsEarned
    <2>3. \A q \in Proc : status'[q] \subseteq passed
      BY <1>8 DEF Install, NextLine, FlagsEarned
    <2> QED BY <1>8, <2>2, <2>3, EarnedIntro DEF Install, NextLine, machine
  <1>9. ASSUME NEW p \in Proc, KeyError(p) PROVE FlagsEarned'
    BY <1>9, LeaveValues DEF KeyError, Earned, Blank
  <1>10. ASSUME NEW p \in Proc, Ready(p) PROVE FlagsEarned'
    <2>1. pos[p] \in Hosts
      BY <1>10, NextPos DEF Ready, Visiting, NextLine
    <2>2. \A q \in Proc : Earned(lines'[q])
      <3>1. CASE lines' = lines
        BY <3>1 DEF FlagsEarned, Earned
      <3>2. CASE Mark(p, "R") /\ pos[p] \in installed
        BY <3>2, <2>1, MarkEarned DEF FlagsEarned, Flag
      <3> QED BY <1>10, <3>1, <3>2 DEF Ready, Keep
    <2>3. \A q \in Proc : status'[q] \subseteq passed
      BY <1>10 DEF Ready, NextLine, FlagsEarned
    <2> QED BY <1>10, <2>2, <2>3, EarnedIntro DEF Ready, NextLine, machine
  <1>11. ASSUME NEW p \in Proc, Run(p) PROVE FlagsEarned'
    BY <1>11 DEF Run, Visiting, Keep, NextLine, Earned
  <1>12. ASSUME NEW p \in Proc, NotRunning(p) PROVE FlagsEarned'
    BY <1>12 DEF NotRunning, Visiting, Earned
  <1>13. ASSUME NEW p \in Proc, SpawnStressTest(p) PROVE FlagsEarned'
    BY <1>13 DEF SpawnStressTest, Earned
  <1>14. ASSUME NEW p \in Proc, Truncate(p) PROVE FlagsEarned'
    BY <1>14 DEF Truncate, Earned
  <1>15. ASSUME NEW p \in Proc, Store(p) PROVE FlagsEarned'
    <2>1. Earned(Text(p))
      BY DEF FlagsEarned, Earned, Text
    <2>2. \A q \in Proc : Earned(lines'[q])
      BY <1>15, AfterValues DEF Store, Blank, FlagsEarned, Earned
    <2>3. \A q \in Proc : status'[q] \subseteq passed
      BY <1>15, AfterValues DEF Store, FlagsEarned
    <2> QED BY <1>15, <2>1, <2>2, <2>3 DEF Store, FlagsEarned, Earned, machine
  <1>16. ASSUME NEW p \in Proc, Unchanged_(p) PROVE FlagsEarned'
    <2>1. \A q \in Proc : Earned(lines'[q])
      BY <1>16, AfterValues DEF Unchanged_, Blank, FlagsEarned, Earned
    <2>2. \A q \in Proc : status'[q] \subseteq passed
      BY <1>16, AfterValues DEF Unchanged_, FlagsEarned
    <2> QED BY <1>16, <2>1, <2>2, EarnedIntro DEF Unchanged_, machine
  <1>17. ASSUME NEW p \in Proc, Interrupt(p) PROVE FlagsEarned'
    BY <1>17, LeaveValues DEF Interrupt, Earned, Blank
  <1>18. ASSUME NEW h \in Hosts, TestEnds(h) PROVE FlagsEarned'
    BY <1>18 DEF TestEnds, Earned
  <1>19. CASE UNCHANGED vars
    BY <1>19 DEF Earned
  <1> QED BY <1>1, <1>2, <1>3, <1>4, <1>5, <1>6, <1>7, <1>8, <1>9, <1>10, <1>11, <1>12,
      <1>13, <1>14, <1>15, <1>16, <1>17, <1>18, <1>19 DEF Next, Begin, Step

(* What the place of a command says of it. *)
LEMMA PlaceStep ==
  ASSUME TypeOK, PlaceInv, [Next]_vars
  PROVE  PlaceInv'
  <1> USE MachineListAssumption DEF TypeOK, PlaceInv, vars, disk, copy, pool, machine, kernels
  <1>1. ASSUME NEW p \in Proc, RunStressCmd(p) PROVE PlaceInv'
    BY <1>1 DEF RunStressCmd, Start, Read
  <1>2. ASSUME NEW p \in Proc, ResetMachineList(p) PROVE PlaceInv'
    BY <1>2 DEF ResetMachineList, Start, Read, Cleared
  <1>3. ASSUME NEW p \in Proc, Find(p) PROVE PlaceInv'
    BY <1>3 DEF Find, Start
  <1>4. ASSUME NEW p \in Proc, ChildEnds(p) PROVE PlaceInv'
    BY <1>4 DEF ChildEnds
  <1>5. ASSUME NEW p \in Proc, SecondPass(p) PROVE PlaceInv'
    BY <1>5 DEF SecondPass, Read
  <1>6. ASSUME NEW p \in Proc, Skip(p) PROVE PlaceInv'
    BY <1>6 DEF Skip, Visiting, Keep, NextLine
  <1>7. ASSUME NEW p \in Proc, Online(p) PROVE PlaceInv'
    BY <1>7 DEF Online, Visiting, Keep, Mark, NextLine
  <1>8. ASSUME NEW p \in Proc, Install(p) PROVE PlaceInv'
    BY <1>8 DEF Install, Visiting, Keep, Mark, NextLine
  <1>9. ASSUME NEW p \in Proc, KeyError(p) PROVE PlaceInv'
    BY <1>9, LeaveValues DEF KeyError
  <1>10. ASSUME NEW p \in Proc, Ready(p) PROVE PlaceInv'
    BY <1>10 DEF Ready, Visiting, Keep, Mark, NextLine
  <1>11. ASSUME NEW p \in Proc, Run(p) PROVE PlaceInv'
    BY <1>11 DEF Run, Visiting, Keep, NextLine
  <1>12. ASSUME NEW p \in Proc, NotRunning(p) PROVE PlaceInv'
    BY <1>12 DEF NotRunning, Visiting
  <1>13. ASSUME NEW p \in Proc, SpawnStressTest(p) PROVE PlaceInv'
    BY <1>13 DEF SpawnStressTest
  <1>14. ASSUME NEW p \in Proc, Truncate(p) PROVE PlaceInv'
    BY <1>14 DEF Truncate
  <1>15. ASSUME NEW p \in Proc, Store(p) PROVE PlaceInv'
    BY <1>15, AfterValues DEF Store
  <1>16. ASSUME NEW p \in Proc, Unchanged_(p) PROVE PlaceInv'
    BY <1>16, AfterValues DEF Unchanged_
  <1>17. ASSUME NEW p \in Proc, Interrupt(p) PROVE PlaceInv'
    BY <1>17, LeaveValues DEF Interrupt
  <1>18. ASSUME NEW h \in Hosts, TestEnds(h) PROVE PlaceInv'
    BY <1>18 DEF TestEnds
  <1>19. CASE UNCHANGED vars
    BY <1>19
  <1> QED BY <1>1, <1>2, <1>3, <1>4, <1>5, <1>6, <1>7, <1>8, <1>9, <1>10, <1>11, <1>12,
      <1>13, <1>14, <1>15, <1>16, <1>17, <1>18, <1>19 DEF Next, Begin, Step

(* The start of a command touches no other. *)
LEMMA StartValues ==
  ASSUME TypeOK, NEW p \in Proc, NEW c \in Commands, Start(p, c)
  PROVE  /\ cmd'[p] = c /\ \A q \in Proc : q # p => cmd'[q] = cmd[q]
         /\ ~AtWork(p) /\ raced' = (raced \/ HalfWritten)
         /\ overlap' = (overlap \/ (c = "run" /\ \E q \in Proc : AtWork(q) /\ cmd[q] = "run"))
         /\ UNCHANGED <<file, newline, stored, installed, tests>>
  BY DEF TypeOK, Start, disk, machine, kernels

(* What a pass reads. *)
LEMMA ReadValues ==
  ASSUME TypeOK, NEW p \in Proc, NEW text, NEW ends, NEW first, NEW edited,
         Read(p, text, ends, first, edited)
  PROVE  /\ pc'[p] = "visit" /\ lines'[p] = text /\ pos'[p] = first
         /\ \A q \in Proc : q # p =>
              pc'[q] = pc[q] /\ lines'[q] = lines[q] /\ pos'[q] = pos[q]
  BY DEF TypeOK, Read

(* When one command moves without a test and without meeting another run. *)
LEMMA RunIntro ==
  ASSUME OneTest, RunInv, NEW p \in Proc, UNCHANGED tests, overlap => overlap',
         \A q \in Proc : q # p => pc'[q] = pc[q] /\ cmd'[q] = cmd[q] /\ pos'[q] = pos[q],
         pc'[p] # "spawn",
         ~overlap' /\ AtWork(p)' /\ cmd'[p] = "run" =>
           \A q \in Proc : q # p => ~(AtWork(q) /\ cmd[q] = "run")
  PROVE  (OneTest /\ RunInv)'
  <1>1. OneTest'
    BY DEF OneTest
  <1>2. ASSUME ~overlap', NEW q \in Proc, NEW r \in Proc,
               (AtWork(q) /\ cmd[q] = "run" /\ AtWork(r) /\ cmd[r] = "run")'
        PROVE  q = r
    BY <1>2 DEF RunInv, AtWork
  <1>3. ASSUME ~overlap', NEW q \in Proc, pc'[q] = "spawn" PROVE tests'[pos'[q]] = 0
    BY <1>3 DEF RunInv
  <1> QED BY <1>1, <1>2, <1>3 DEF RunInv

(* One run command at a time gives a machine one test at a time. *)
LEMMA RunStep ==
  ASSUME TypeOK, PlaceInv, OneTest, RunInv, [Next]_vars
  PROVE  (OneTest /\ RunInv)'
  <1> USE MachineListAssumption DEF TypeOK, OneTest, RunInv, AtWork, vars, disk, copy, pool,
      machine, kernels
  <1>1. ASSUME NEW p \in Proc, RunStressCmd(p) PROVE (OneTest /\ RunInv)'
    <2>1. PICK c \in {"online", "ready", "run"} : Start(p, c)
      BY <1>1, Zenon DEF RunStressCmd
    <2>2. c \in Commands
      BY DEF Commands
    <2>3. pc'[p] = "visit" /\ \A q \in Proc : q # p => pc'[q] = pc[q] /\ pos'[q] = pos[q]
      <3>1. Read(p, file, newline, 1, FALSE)
        BY <1>1 DEF RunStressCmd
      <3> QED BY <3>1, ReadValues
    <2>4. \A q \in Proc : q # p => cmd'[q] = cmd[q]
      BY <2>1, <2>2, StartValues
    <2>5. overlap => overlap'
      BY <2>1, <2>2, StartValues
    <2>6. cmd'[p] = c /\ UNCHANGED tests
      BY <2>1, <2>2, StartValues
    <2>7. ~overlap' /\ c = "run" => \A q \in Proc : ~(AtWork(q) /\ cmd[q] = "run")
      BY <2>1, <2>2, StartValues
    <2> QED BY <2>3, <2>4, <2>5, <2>6, <2>7, RunIntro
  <1>2. ASSUME NEW p \in Proc, ResetMachineList(p) PROVE (OneTest /\ RunInv)'
    <2>1. Start(p, "init") /\ "init" \in Commands
      BY <1>2 DEF ResetMachineList, Commands
    <2>2. pc'[p] = "visit" /\ \A q \in Proc : q # p => pc'[q] = pc[q] /\ pos'[q] = pos[q]
      BY <1>2, ReadValues DEF ResetMachineList
    <2>3. /\ \A q \in Proc : q # p => cmd'[q] = cmd[q]
          /\ (overlap => overlap') /\ cmd'[p] = "init" /\ UNCHANGED tests
      BY <2>1, StartValues
    <2> QED BY <2>2, <2>3, RunIntro
  <1>3. ASSUME NEW p \in Proc, Find(p) PROVE (OneTest /\ RunInv)'
    <2>1. Start(p, "install") /\ "install" \in Commands
      BY <1>3 DEF Find, Commands
    <2>2. pc'[p] = "children" /\ \A q \in Proc : q # p => pc'[q] = pc[q] /\ pos'[q] = pos[q]
      BY <1>3 DEF Find
    <2>3. /\ \A q \in Proc : q # p => cmd'[q] = cmd[q]
          /\ (overlap => overlap') /\ cmd'[p] = "install" /\ UNCHANGED tests
      BY <2>1, StartValues
    <2> QED BY <2>2, <2>3, RunIntro
  <1>4. ASSUME NEW p \in Proc, ChildEnds(p) PROVE (OneTest /\ RunInv)'
    BY <1>4 DEF ChildEnds
  <1>5. ASSUME NEW p \in Proc, SecondPass(p) PROVE (OneTest /\ RunInv)'
    BY <1>5 DEF SecondPass, Read
  <1>6. ASSUME NEW p \in Proc, Skip(p) PROVE (OneTest /\ RunInv)'
    BY <1>6 DEF Skip, Visiting, Keep, NextLine
  <1>7. ASSUME NEW p \in Proc, Online(p) PROVE (OneTest /\ RunInv)'
    BY <1>7 DEF Online, Visiting, Keep, Mark, NextLine
  <1>8. ASSUME NEW p \in Proc, Install(p) PROVE (OneTest /\ RunInv)'
    BY <1>8 DEF Install, Visiting, Keep, Mark, NextLine
  <1>9. ASSUME NEW p \in Proc, KeyError(p) PROVE (OneTest /\ RunInv)'
    <2>1. /\ \A q \in Proc : q # p => pc'[q] = pc[q] /\ cmd'[q] = cmd[q] /\ pos'[q] = pos[q]
          /\ pc'[p] \in {"idle", "keyerror"} /\ cmd'[p] = "init"
      BY <1>9, LeaveValues DEF KeyError
    <2> QED BY <1>9, <2>1, RunIntro DEF KeyError
  <1>10. ASSUME NEW p \in Proc, Ready(p) PROVE (OneTest /\ RunInv)'
    BY <1>10 DEF Ready, Visiting, Keep, Mark, NextLine
  <1>11. ASSUME NEW p \in Proc, Run(p) PROVE (OneTest /\ RunInv)'
    BY <1>11 DEF Run, Visiting, Keep, NextLine
  <1>12. ASSUME NEW p \in Proc, NotRunning(p) PROVE (OneTest /\ RunInv)'
    BY <1>12 DEF NotRunning, Visiting
  <1>13. ASSUME NEW p \in Proc, SpawnStressTest(p) PROVE (OneTest /\ RunInv)'
    <2>1. pos[p] \in Hosts /\ cmd[p] = "run" /\ pc[p] = "spawn"
      BY <1>13, NextPos DEF SpawnStressTest, PlaceInv
    <2>2. /\ tests'[pos[p]] = tests[pos[p]] + 1 /\ tests \in [Hosts -> Nat]
          /\ \A h \in Hosts : h # pos[p] => tests'[h] = tests[h]
      BY <1>13, <2>1 DEF SpawnStressTest
    <2>3. OneTest'
      BY <1>13, <2>1, <2>2 DEF SpawnStressTest
    <2>4. pc'[p] = "visit" /\ \A q \in Proc : q # p => pc'[q] = pc[q]
      BY <1>13 DEF SpawnStressTest
    <2>5. ASSUME ~overlap', NEW q \in Proc PROVE pc'[q] # "spawn"
      <3>1. q # p /\ pc'[q] = "spawn" => AtWork(q) /\ cmd[q] = "run"
        BY <2>4 DEF PlaceInv, AtWork
      <3>2. AtWork(p) /\ ~overlap
        BY <1>13, <2>1, <2>5 DEF SpawnStressTest, AtWork
      <3> QED BY <2>1, <2>4, <3>1, <3>2 DEF RunInv
    <2>6. ASSUME ~overlap', NEW q \in Proc, NEW r \in Proc,
                 (AtWork(q) /\ cmd[q] = "run" /\ AtWork(r) /\ cmd[r] = "run")'
          PROVE  q = r
      <3>1. AtWork(q) /\ cmd[q] = "run" /\ AtWork(r) /\ cmd[r] = "run"
        BY <1>13, <2>1, <2>4, <2>6 DEF SpawnStressTest, AtWork
      <3> QED BY <1>13, <2>6, <3>1 DEF SpawnStressTest, RunInv
    <2> QED BY <2>3, <2>5, <2>6 DEF RunInv
  <1>14. ASSUME NEW p \in Proc, Truncate(p) PROVE (OneTest /\ RunInv)'
    BY <1>14 DEF Truncate
  <1>15. ASSUME NEW p \in Proc, Store(p) PROVE (OneTest /\ RunInv)'
    <2>1. /\ \A q \in Proc : q # p => pc'[q] = pc[q] /\ cmd'[q] = cmd[q] /\ pos'[q] = pos[q]
          /\ pc'[p] = "idle" \/ (pc'[p] = "again" /\ cmd'[p] = "online")
      BY <1>15, AfterValues DEF Store
    <2> QED BY <1>15, <2>1, RunIntro DEF Store
  <1>16. ASSUME NEW p \in Proc, Unchanged_(p) PROVE (OneTest /\ RunInv)'
    <2>1. /\ \A q \in Proc : q # p => pc'[q] = pc[q] /\ cmd'[q] = cmd[q] /\ pos'[q] = pos[q]
          /\ pc'[p] = "idle" \/ (pc'[p] = "again" /\ cmd'[p] = "online")
      BY <1>16, AfterValues DEF Unchanged_
    <2> QED BY <1>16, <2>1, RunIntro DEF Unchanged_
  <1>17. ASSUME NEW p \in Proc, Interrupt(p) PROVE (OneTest /\ RunInv)'
    <2>1. /\ \A q \in Proc : q # p => pc'[q] = pc[q] /\ cmd'[q] = cmd[q] /\ pos'[q] = pos[q]
          /\ pc'[p] \in {"idle", "keyerror"} /\ cmd'[p] = "init"
      BY <1>17, LeaveValues DEF Interrupt
    <2> QED BY <1>17, <2>1, RunIntro DEF Interrupt
  <1>18. ASSUME NEW h \in Hosts, TestEnds(h) PROVE (OneTest /\ RunInv)'
    BY <1>18 DEF TestEnds
  <1>19. CASE UNCHANGED vars
    BY <1>19
  <1> QED BY <1>1, <1>2, <1>3, <1>4, <1>5, <1>6, <1>7, <1>8, <1>9, <1>10, <1>11, <1>12,
      <1>13, <1>14, <1>15, <1>16, <1>17, <1>18, <1>19 DEF Next, Begin, Step

(* A write that nothing races is the work of the only command. *)
LEMMA FileStep ==
  ASSUME TypeOK, FileInv, [Next]_vars
  PROVE  FileInv'
  <1> USE MachineListAssumption DEF TypeOK, FileInv, vars, disk, copy, pool, machine, kernels
  <1>1. ASSUME NEW p \in Proc, RunStressCmd(p) PROVE FileInv'
    BY <1>1 DEF RunStressCmd, Start, Read, AtWork, HalfWritten
  <1>2. ASSUME NEW p \in Proc, ResetMachineList(p) PROVE FileInv'
    BY <1>2 DEF ResetMachineList, Start, Read, Cleared, AtWork, HalfWritten
  <1>3. ASSUME NEW p \in Proc, Find(p) PROVE FileInv'
    BY <1>3 DEF Find, Start, AtWork, HalfWritten
  <1>4. ASSUME NEW p \in Proc, ChildEnds(p) PROVE FileInv'
    BY <1>4 DEF ChildEnds, AtWork, HalfWritten
  <1>5. ASSUME NEW p \in Proc, SecondPass(p) PROVE FileInv'
    BY <1>5 DEF SecondPass, Read, AtWork, HalfWritten
  <1>6. ASSUME NEW p \in Proc, Skip(p) PROVE FileInv'
    BY <1>6 DEF Skip, Visiting, Keep, NextLine, AtWork, HalfWritten
  <1>7. ASSUME NEW p \in Proc, Online(p) PROVE FileInv'
    BY <1>7 DEF Online, Visiting, Keep, Mark, NextLine, AtWork, HalfWritten
  <1>8. ASSUME NEW p \in Proc, Install(p) PROVE FileInv'
    BY <1>8 DEF Install, Visiting, Keep, Mark, NextLine, AtWork, HalfWritten
  <1>9. ASSUME NEW p \in Proc, KeyError(p) PROVE FileInv'
    <2>1. /\ \A q \in Proc : q # p => pc'[q] = pc[q]
          /\ pc'[p] \in {"idle", "keyerror"}
      BY <1>9, LeaveValues DEF KeyError
    <2>2. raced \/ pc[p] = "store" => raced'
      BY <1>9, <2>1 DEF KeyError, Visiting
    <2>3. UNCHANGED <<file, stored>>
      BY <1>9 DEF KeyError
    <2>4. ASSUME ~raced', ~HalfWritten' PROVE file' = stored'
      <3>1. ~HalfWritten
        BY <2>1, <2>2, <2>4 DEF HalfWritten
      <3> QED BY <2>2, <2>3, <2>4, <3>1
    <2>5. ASSUME ~raced', NEW q \in Proc, NEW r \in Proc, pc'[q] = "store", q # r
          PROVE  ~AtWork(r)'
      BY <2>1, <2>2, <2>5 DEF AtWork
    <2> QED BY <2>4, <2>5
  <1>10. ASSUME NEW p \in Proc, Ready(p) PROVE FileInv'
    BY <1>10 DEF Ready, Visiting, Keep, Mark, NextLine, AtWork, HalfWritten
  <1>11. ASSUME NEW p \in Proc, Run(p) PROVE FileInv'
    BY <1>11 DEF Run, Visiting, Keep, NextLine, AtWork, HalfWritten
  <1>12. ASSUME NEW p \in Proc, NotRunning(p) PROVE FileInv'
    BY <1>12 DEF NotRunning, Visiting, AtWork, HalfWritten
  <1>13. ASSUME NEW p \in Proc, SpawnStressTest(p) PROVE FileInv'
    BY <1>13 DEF SpawnStressTest, AtWork, HalfWritten
  <1>14. ASSUME NEW p \in Proc, Truncate(p) PROVE FileInv'
    BY <1>14 DEF Truncate, AtWork, HalfWritten
  <1>15. ASSUME NEW p \in Proc, Store(p) PROVE FileInv'
    BY <1>15, AfterValues DEF Store, AtWork, HalfWritten
  <1>16. ASSUME NEW p \in Proc, Unchanged_(p) PROVE FileInv'
    BY <1>16, AfterValues, ZenonT(60) DEF Unchanged_, AtWork, HalfWritten
  <1>17. ASSUME NEW p \in Proc, Interrupt(p) PROVE FileInv'
    <2>1. /\ \A q \in Proc : q # p => pc'[q] = pc[q]
          /\ pc'[p] \in {"idle", "keyerror"}
      BY <1>17, LeaveValues DEF Interrupt
    <2>2. raced \/ pc[p] = "store" => raced'
      BY <1>17, <2>1 DEF Interrupt
    <2>3. UNCHANGED <<file, stored>>
      BY <1>17 DEF Interrupt
    <2>4. ASSUME ~raced', ~HalfWritten' PROVE file' = stored'
      <3>1. ~HalfWritten
        BY <2>1, <2>2, <2>4 DEF HalfWritten
      <3> QED BY <2>2, <2>3, <2>4, <3>1
    <2>5. ASSUME ~raced', NEW q \in Proc, NEW r \in Proc, pc'[q] = "store", q # r
          PROVE  ~AtWork(r)'
      BY <2>1, <2>2, <2>5 DEF AtWork
    <2> QED BY <2>4, <2>5
  <1>18. ASSUME NEW h \in Hosts, TestEnds(h) PROVE FileInv'
    BY <1>18 DEF TestEnds, AtWork, HalfWritten
  <1>19. CASE UNCHANGED vars
    BY <1>19 DEF AtWork, HalfWritten
  <1> QED BY <1>1, <1>2, <1>3, <1>4, <1>5, <1>6, <1>7, <1>8, <1>9, <1>10, <1>11, <1>12,
      <1>13, <1>14, <1>15, <1>16, <1>17, <1>18, <1>19 DEF Next, Begin, Step

(* When one command moves and nothing is written. *)
LEMMA CopyIntro ==
  ASSUME CopyInv, NEW p \in Proc, raced => raced', UNCHANGED stored,
         \A q \in Proc : q # p => /\ pc'[q] = pc[q] /\ cmd'[q] = cmd[q]
                                  /\ pos'[q] = pos[q] /\ lines'[q] = lines[q],
         ~raced' /\ pc'[p] \in {"visit", "spawn", "store"} => CopyOK(p)'
  PROVE  CopyInv'
  <1>1. ASSUME NEW q \in Proc, q # p, CopyOK(q) PROVE CopyOK(q)'
    BY <1>1 DEF CopyOK
  <1> QED BY <1>1 DEF CopyInv

(* A pass that begins has the file in its copy. *)
LEMMA CopyRead ==
  ASSUME NEW p \in Proc, file = stored, UNCHANGED stored, lines'[p] = file, cmd'[p] # "init"
  PROVE  CopyOK(p)'
  BY DEF CopyOK, Step_

(* A line is visited, and marked with the next flag or not at all. *)
LEMMA CopyVisit ==
  ASSUME TypeOK, CopyInv, NEW p \in Proc, ~raced, pc[p] \in {"visit", "spawn"}, pos[p] \in Hosts,
         UNCHANGED <<cmd, stored>>, pos' = [pos EXCEPT ![p] = @ + 1],
         \/ lines' = lines
         \/ \E f \in Flag : Mark(p, f) /\ Step_(lines[p][pos[p]], f)
  PROVE  CopyOK(p)'
  <1>1. CopyOK(p) /\ pos[p] # N + 1 /\ pos'[p] = pos[p] + 1
    BY MachineListAssumption DEF CopyInv, TypeOK, Hosts
  <1>2. cmd[p] # "init"
    BY <1>1 DEF CopyOK
  <1>3. \A h \in Hosts : Step_(stored[h], lines[p][h]) /\ (h >= pos[p] => lines[p][h] = stored[h])
    BY <1>1, <1>2 DEF CopyOK
  <1>4. CASE lines' = lines
    <2>1. \A h \in Hosts : h >= pos[p] + 1 => h >= pos[p]
      BY MachineListAssumption DEF Hosts
    <2> QED BY <1>1, <1>2, <1>3, <1>4, <2>1 DEF CopyOK
  <1>5. ASSUME NEW f \in Flag, Mark(p, f), Step_(lines[p][pos[p]], f) PROVE CopyOK(p)'
    <2>1. lines'[p][pos[p]] = f /\ \A h \in Hosts : h # pos[p] => lines'[p][h] = lines[p][h]
      BY <1>5, MarkLine
    <2>2. \A h \in Hosts : h >= pos[p] + 1 => h >= pos[p] /\ h # pos[p]
      BY MachineListAssumption DEF Hosts
    <2>3. lines[p][pos[p]] = stored[pos[p]]
      <3>1. pos[p] >= pos[p]
        BY MachineListAssumption DEF Hosts
      <3> QED BY <1>3, <3>1
    <2>4. ASSUME NEW h \in Hosts
          PROVE  Step_(stored[h], lines'[p][h]) /\ (h >= pos'[p] => lines'[p][h] = stored[h])
      <3>1. CASE h = pos[p]
        BY <1>1, <1>5, <2>1, <2>2, <2>3, <3>1
      <3>2. CASE h # pos[p]
        BY <1>1, <1>3, <2>1, <2>2, <3>2
      <3> QED BY <3>1, <3>2
    <2> QED BY <1>2, <2>4 DEF CopyOK
  <1> QED BY <1>4, <1>5

(* A copy differs from the file by its own marks only. *)
LEMMA CopyStep ==
  ASSUME TypeOK, PlaceInv, FileInv, CopyInv, [Next]_vars
  PROVE  CopyInv'
  <1> USE MachineListAssumption DEF TypeOK, vars, disk, copy, pool, machine, kernels
  <1>1. ASSUME NEW p \in Proc, RunStressCmd(p) PROVE CopyInv'
    <2>1. PICK c \in {"online", "ready", "run"} : Start(p, c)
      BY <1>1, Zenon DEF RunStressCmd
    <2>2. c \in Commands /\ c # "init"
      BY DEF Commands
    <2>3. \A q \in Proc : q # p => /\ pc'[q] = pc[q] /\ cmd'[q] = cmd[q]
                                  /\ pos'[q] = pos[q] /\ lines'[q] = lines[q]
      <3>1. \A q \in Proc : q # p => cmd'[q] = cmd[q]
        BY <2>1, <2>2, StartValues
      <3>2. \A q \in Proc : q # p => pc'[q] = pc[q] /\ pos'[q] = pos[q] /\ lines'[q] = lines[q]
        BY <1>1, ReadValues DEF RunStressCmd
      <3> QED BY <3>1, <3>2
    <2>4. /\ raced' = (raced \/ HalfWritten) /\ UNCHANGED <<file, stored>>
          /\ cmd'[p] = c
      BY <2>1, <2>2, StartValues
    <2>5. ASSUME ~raced' PROVE CopyOK(p)'
      <3>1. file = stored
        BY <2>4, <2>5 DEF FileInv
      <3>2. lines'[p] = file
        BY <1>1, ReadValues DEF RunStressCmd
      <3> QED BY <2>2, <2>4, <3>1, <3>2, CopyRead
    <2> QED BY <2>3, <2>4, <2>5, CopyIntro
  <1>2. ASSUME NEW p \in Proc, ResetMachineList(p) PROVE CopyInv'
    <2>1. Start(p, "init") /\ "init" \in Commands
      BY <1>2 DEF ResetMachineList, Commands
    <2>2. \A q \in Proc : q # p => /\ pc'[q] = pc[q] /\ cmd'[q] = cmd[q]
                                  /\ pos'[q] = pos[q] /\ lines'[q] = lines[q]
      <3>1. \A q \in Proc : q # p => cmd'[q] = cmd[q]
        BY <2>1, StartValues
      <3>2. \A q \in Proc : q # p => pc'[q] = pc[q] /\ pos'[q] = pos[q] /\ lines'[q] = lines[q]
        BY <1>2, ReadValues DEF ResetMachineList
      <3> QED BY <3>1, <3>2
    <2>3. raced' = (raced \/ HalfWritten) /\ UNCHANGED <<file, stored>> /\ cmd'[p] = "init"
      BY <2>1, StartValues
    <2>4. ASSUME ~raced' PROVE CopyOK(p)'
      <3>1. file = stored
        BY <2>3, <2>4 DEF FileInv
      <3>2. lines'[p] = Cleared(file) /\ pos'[p] = N + 1
        BY <1>2, ReadValues, ZenonT(60) DEF ResetMachineList
      <3> QED BY <2>3, <3>1, <3>2 DEF CopyOK
    <2> QED BY <2>2, <2>3, <2>4, CopyIntro
  <1>3. ASSUME NEW p \in Proc, Find(p) PROVE CopyInv'
    <2>1. Start(p, "install") /\ "install" \in Commands
      BY <1>3 DEF Find, Commands
    <2>2. pc'[p] = "children" /\ \A q \in Proc : q # p => /\ pc'[q] = pc[q] /\ cmd'[q] = cmd[q]
                                                           /\ pos'[q] = pos[q] /\ lines'[q] = lines[q]
      BY <1>3, <2>1, StartValues DEF Find
    <2>3. (raced => raced') /\ UNCHANGED stored
      BY <2>1, StartValues
    <2> QED BY <2>2, <2>3, CopyIntro
  <1>4. ASSUME NEW p \in Proc, ChildEnds(p) PROVE CopyInv'
    BY <1>4 DEF ChildEnds, CopyInv, CopyOK
  <1>5. ASSUME NEW p \in Proc, SecondPass(p) PROVE CopyInv'
    <2>1. \A q \in Proc : q # p => /\ pc'[q] = pc[q] /\ cmd'[q] = cmd[q]
                                  /\ pos'[q] = pos[q] /\ lines'[q] = lines[q]
      BY <1>5, ReadValues DEF SecondPass
    <2>2. raced' = (raced \/ HalfWritten) /\ UNCHANGED <<file, stored, cmd>>
      BY <1>5 DEF SecondPass
    <2>3. ASSUME ~raced' PROVE CopyOK(p)'
      <3>1. file = stored
        BY <2>2, <2>3 DEF FileInv
      <3>2. lines'[p] = file
        BY <1>5, ReadValues DEF SecondPass
      <3>3. cmd'[p] # "init"
        BY <1>5, <2>2 DEF SecondPass, PlaceInv
      <3> QED BY <2>2, <3>1, <3>2, <3>3, CopyRead
    <2> QED BY <2>1, <2>2, <2>3, CopyIntro
  <1>6. ASSUME NEW p \in Proc, Skip(p) PROVE CopyInv'
    <2>1. pc[p] = "visit" /\ pos[p] \in Hosts /\ pos' = [pos EXCEPT ![p] = pos[p] + 1]
      BY <1>6, NextPos DEF Skip, Visiting, NextLine, Keep
    <2>2. UNCHANGED <<cmd, stored, raced>> /\ \A q \in Proc : q # p => pc'[q] = pc[q]
      BY <1>6 DEF Skip, NextLine
    <2>3. \/ lines' = lines
          \/ \E f \in Flag : Mark(p, f) /\ Step_(lines[p][pos[p]], f)
      BY <1>6 DEF Skip, Visiting, Keep, Step_, Flag
    <2>4. \A q \in Proc : q # p => /\ pc'[q] = pc[q] /\ cmd'[q] = cmd[q]
                                  /\ pos'[q] = pos[q] /\ lines'[q] = lines[q]
      BY <2>1, <2>2, <2>3, MarkLine
    <2>5. ASSUME ~raced' PROVE CopyOK(p)'
      BY <2>1, <2>2, <2>3, <2>5, CopyVisit
    <2> QED BY <2>2, <2>4, <2>5, CopyIntro
  <1>7. ASSUME NEW p \in Proc, Online(p) PROVE CopyInv'
    <2>1. pc[p] = "visit" /\ pos[p] \in Hosts /\ pos' = [pos EXCEPT ![p] = pos[p] + 1]
      BY <1>7, NextPos DEF Online, Visiting, NextLine, Keep
    <2>2. UNCHANGED <<cmd, stored, raced>> /\ \A q \in Proc : q # p => pc'[q] = pc[q]
      BY <1>7 DEF Online, NextLine
    <2>3. \/ lines' = lines
          \/ \E f \in Flag : Mark(p, f) /\ Step_(lines[p][pos[p]], f)
      BY <1>7 DEF Online, Visiting, Keep, Step_, Flag
    <2>4. \A q \in Proc : q # p => /\ pc'[q] = pc[q] /\ cmd'[q] = cmd[q]
                                  /\ pos'[q] = pos[q] /\ lines'[q] = lines[q]
      BY <2>1, <2>2, <2>3, MarkLine
    <2>5. ASSUME ~raced' PROVE CopyOK(p)'
      BY <2>1, <2>2, <2>3, <2>5, CopyVisit
    <2> QED BY <2>2, <2>4, <2>5, CopyIntro
  <1>8. ASSUME NEW p \in Proc, Install(p) PROVE CopyInv'
    <2>1. pc[p] = "visit" /\ pos[p] \in Hosts /\ pos' = [pos EXCEPT ![p] = pos[p] + 1]
      BY <1>8, NextPos DEF Install, Visiting, NextLine, Keep
    <2>2. UNCHANGED <<cmd, stored, raced>> /\ \A q \in Proc : q # p => pc'[q] = pc[q]
      BY <1>8 DEF Install, NextLine
    <2>3. \/ lines' = lines
          \/ \E f \in Flag : Mark(p, f) /\ Step_(lines[p][pos[p]], f)
      BY <1>8 DEF Install, Visiting, Keep, Step_, Flag
    <2>4. \A q \in Proc : q # p => /\ pc'[q] = pc[q] /\ cmd'[q] = cmd[q]
                                  /\ pos'[q] = pos[q] /\ lines'[q] = lines[q]
      BY <2>1, <2>2, <2>3, MarkLine
    <2>5. ASSUME ~raced' PROVE CopyOK(p)'
      BY <2>1, <2>2, <2>3, <2>5, CopyVisit
    <2> QED BY <2>2, <2>4, <2>5, CopyIntro
  <1>9. ASSUME NEW p \in Proc, KeyError(p) PROVE CopyInv'
    <2>1. \A q \in Proc : q # p => /\ pc'[q] = pc[q] /\ cmd'[q] = cmd[q]
                                  /\ pos'[q] = pos[q] /\ lines'[q] = lines[q]
      BY <1>9, LeaveValues DEF KeyError
    <2>2. (raced => raced') /\ UNCHANGED stored
      BY <1>9 DEF KeyError
    <2>3. pc'[p] \notin {"visit", "spawn", "store"}
      BY <1>9, LeaveValues DEF KeyError
    <2> QED BY <2>1, <2>2, <2>3, CopyIntro
  <1>10. ASSUME NEW p \in Proc, Ready(p) PROVE CopyInv'
    <2>1. pc[p] = "visit" /\ pos[p] \in Hosts /\ pos' = [pos EXCEPT ![p] = pos[p] + 1]
      BY <1>10, NextPos DEF Ready, Visiting, NextLine, Keep
    <2>2. UNCHANGED <<cmd, stored, raced>> /\ \A q \in Proc : q # p => pc'[q] = pc[q]
      BY <1>10 DEF Ready, NextLine
    <2>3. \/ lines' = lines
          \/ \E f \in Flag : Mark(p, f) /\ Step_(lines[p][pos[p]], f)
      BY <1>10 DEF Ready, Visiting, Keep, Step_, Flag
    <2>4. \A q \in Proc : q # p => /\ pc'[q] = pc[q] /\ cmd'[q] = cmd[q]
                                  /\ pos'[q] = pos[q] /\ lines'[q] = lines[q]
      BY <2>1, <2>2, <2>3, MarkLine
    <2>5. ASSUME ~raced' PROVE CopyOK(p)'
      BY <2>1, <2>2, <2>3, <2>5, CopyVisit
    <2> QED BY <2>2, <2>4, <2>5, CopyIntro
  <1>11. ASSUME NEW p \in Proc, Run(p) PROVE CopyInv'
    <2>1. pc[p] = "visit" /\ pos[p] \in Hosts /\ pos' = [pos EXCEPT ![p] = pos[p] + 1]
      BY <1>11, NextPos DEF Run, Visiting, NextLine, Keep
    <2>2. UNCHANGED <<cmd, stored, raced>> /\ \A q \in Proc : q # p => pc'[q] = pc[q]
      BY <1>11 DEF Run, NextLine
    <2>3. \/ lines' = lines
          \/ \E f \in Flag : Mark(p, f) /\ Step_(lines[p][pos[p]], f)
      BY <1>11 DEF Run, Visiting, Keep, Step_, Flag
    <2>4. \A q \in Proc : q # p => /\ pc'[q] = pc[q] /\ cmd'[q] = cmd[q]
                                  /\ pos'[q] = pos[q] /\ lines'[q] = lines[q]
      BY <2>1, <2>2, <2>3, MarkLine
    <2>5. ASSUME ~raced' PROVE CopyOK(p)'
      BY <2>1, <2>2, <2>3, <2>5, CopyVisit
    <2> QED BY <2>2, <2>4, <2>5, CopyIntro
  <1>12. ASSUME NEW p \in Proc, NotRunning(p) PROVE CopyInv'
    <2>1. UNCHANGED <<cmd, pos, lines, stored, raced>> /\ pc[p] = "visit"
      BY <1>12 DEF NotRunning, Visiting
    <2>2. \A q \in Proc : q # p => pc'[q] = pc[q]
      BY <1>12 DEF NotRunning
    <2>3. ~raced' => CopyOK(p)'
      BY <2>1 DEF CopyInv, CopyOK
    <2> QED BY <2>1, <2>2, <2>3, CopyIntro
  <1>13. ASSUME NEW p \in Proc, SpawnStressTest(p) PROVE CopyInv'
    <2>1. pc[p] = "spawn" /\ pos[p] \in Hosts /\ pos' = [pos EXCEPT ![p] = pos[p] + 1]
      BY <1>13, NextPos DEF SpawnStressTest, PlaceInv
    <2>2. UNCHANGED <<cmd, stored, raced>> /\ \A q \in Proc : q # p => pc'[q] = pc[q]
      BY <1>13 DEF SpawnStressTest
    <2>3. \/ lines' = lines
          \/ \E f \in Flag : Mark(p, f) /\ Step_(lines[p][pos[p]], f)
      BY <1>13 DEF SpawnStressTest, Step_, Flag
    <2>4. \A q \in Proc : q # p => /\ pc'[q] = pc[q] /\ cmd'[q] = cmd[q]
                                  /\ pos'[q] = pos[q] /\ lines'[q] = lines[q]
      BY <2>1, <2>2, <2>3, MarkLine
    <2>5. ASSUME ~raced' PROVE CopyOK(p)'
      BY <2>1, <2>2, <2>3, <2>5, CopyVisit
    <2> QED BY <2>2, <2>4, <2>5, CopyIntro
  <1>14. ASSUME NEW p \in Proc, Truncate(p) PROVE CopyInv'
    <2>1. UNCHANGED <<cmd, pos, lines, stored>> /\ pc[p] = "visit" /\ (raced => raced')
      BY <1>14 DEF Truncate
    <2>2. \A q \in Proc : q # p => pc'[q] = pc[q]
      BY <1>14 DEF Truncate
    <2>3. ~raced' => CopyOK(p)'
      BY <2>1 DEF CopyInv, CopyOK
    <2> QED BY <2>1, <2>2, <2>3, CopyIntro
  <1>15. ASSUME NEW p \in Proc, Store(p) PROVE CopyInv'
    <2>1. UNCHANGED raced /\ pc[p] = "store" /\ pc'[p] \in {"idle", "again"}
      BY <1>15, AfterValues DEF Store
    <2>2. \A q \in Proc : q # p => pc'[q] = pc[q]
      BY <1>15, AfterValues DEF Store
    <2>3. ASSUME ~raced, NEW q \in Proc PROVE pc'[q] \notin {"visit", "spawn", "store"}
      BY <2>1, <2>2, <2>3 DEF FileInv, AtWork
    <2> QED BY <2>1, <2>3 DEF CopyInv
  <1>16. ASSUME NEW p \in Proc, Unchanged_(p) PROVE CopyInv'
    <2>1. \A q \in Proc : q # p => /\ pc'[q] = pc[q] /\ cmd'[q] = cmd[q]
                                  /\ pos'[q] = pos[q] /\ lines'[q] = lines[q]
      BY <1>16, AfterValues DEF Unchanged_
    <2>2. (raced => raced') /\ UNCHANGED stored
      BY <1>16 DEF Unchanged_
    <2>3. pc'[p] \notin {"visit", "spawn", "store"}
      BY <1>16, AfterValues DEF Unchanged_
    <2> QED BY <2>1, <2>2, <2>3, CopyIntro
  <1>17. ASSUME NEW p \in Proc, Interrupt(p) PROVE CopyInv'
    <2>1. \A q \in Proc : q # p => /\ pc'[q] = pc[q] /\ cmd'[q] = cmd[q]
                                  /\ pos'[q] = pos[q] /\ lines'[q] = lines[q]
      BY <1>17, LeaveValues DEF Interrupt
    <2>2. (raced => raced') /\ UNCHANGED stored
      BY <1>17 DEF Interrupt
    <2>3. pc'[p] \notin {"visit", "spawn", "store"}
      BY <1>17, LeaveValues DEF Interrupt
    <2> QED BY <2>1, <2>2, <2>3, CopyIntro
  <1>18. ASSUME NEW h \in Hosts, TestEnds(h) PROVE CopyInv'
    BY <1>18 DEF TestEnds, CopyInv, CopyOK
  <1>19. CASE UNCHANGED vars
    BY <1>19 DEF CopyInv, CopyOK
  <1> QED BY <1>1, <1>2, <1>3, <1>4, <1>5, <1>6, <1>7, <1>8, <1>9, <1>10, <1>11, <1>12,
      <1>13, <1>14, <1>15, <1>16, <1>17, <1>18, <1>19 DEF Next, Begin, Step

(* What install has found depends on the file, and on no other command. *)
LEMMA FoundIntro ==
  ASSUME FoundInv, NEW p \in Proc, raced => raced', UNCHANGED stored,
         \A q \in Proc : q # p => /\ pc'[q] = pc[q] /\ cmd'[q] = cmd[q]
                                  /\ machlist'[q] = machlist[q],
         ~raced' /\ AtWork(p)' /\ cmd'[p] = "install" =>
           machlist'[p] = {h \in Hosts : stored'[h] = "O"}
  PROVE  FoundInv'
  <1>1. ASSUME NEW q \in Proc, q # p, ~raced', AtWork(q)', cmd'[q] = "install"
        PROVE  machlist'[q] = {h \in Hosts : stored'[h] = "O"}
    BY <1>1 DEF FoundInv, AtWork
  <1> QED BY <1>1 DEF FoundInv

(* The machines that install found are those the file still has online. *)
LEMMA FoundStep ==
  ASSUME TypeOK, FileInv, FoundInv, [Next]_vars
  PROVE  FoundInv'
  <1> USE MachineListAssumption DEF TypeOK, vars, disk, copy, pool, machine, kernels
  <1>1. ASSUME NEW p \in Proc, RunStressCmd(p) PROVE FoundInv'
    <2>1. PICK c \in {"online", "ready", "run"} : Start(p, c)
      BY <1>1, Zenon DEF RunStressCmd
    <2>2. c \in Commands /\ c # "install"
      BY DEF Commands
    <2>3. \A q \in Proc : q # p => cmd'[q] = cmd[q]
      BY <2>1, <2>2, StartValues
    <2>4. \A q \in Proc : q # p => pc'[q] = pc[q] /\ machlist'[q] = machlist[q]
      BY <1>1, ReadValues DEF RunStressCmd
    <2>5. /\ (raced => raced') /\ UNCHANGED stored
          /\ cmd'[p] = c
      BY <2>1, <2>2, StartValues
    <2> QED BY <2>2, <2>3, <2>4, <2>5, FoundIntro
  <1>2. ASSUME NEW p \in Proc, ResetMachineList(p) PROVE FoundInv'
    <2>1. Start(p, "init") /\ "init" \in Commands
      BY <1>2 DEF ResetMachineList, Commands
    <2>2. \A q \in Proc : q # p => pc'[q] = pc[q] /\ machlist'[q] = machlist[q]
      BY <1>2, ReadValues DEF ResetMachineList
    <2>3. /\ (raced => raced') /\ UNCHANGED stored /\ cmd'[p] = "init"
          /\ \A q \in Proc : q # p => cmd'[q] = cmd[q]
      BY <2>1, StartValues
    <2> QED BY <2>2, <2>3, FoundIntro
  <1>3. ASSUME NEW p \in Proc, Find(p) PROVE FoundInv'
    <2>1. Start(p, "install") /\ "install" \in Commands
      BY <1>3 DEF Find, Commands
    <2>2. /\ pc'[p] = "children" /\ machlist'[p] = {h \in Hosts : file[h] = "O"}
          /\ \A q \in Proc : q # p => pc'[q] = pc[q] /\ machlist'[q] = machlist[q]
      BY <1>3 DEF Find
    <2>3. /\ raced' = (raced \/ HalfWritten) /\ UNCHANGED <<file, stored>>
          /\ \A q \in Proc : q # p => cmd'[q] = cmd[q]
      BY <2>1, StartValues
    <2>4. ASSUME ~raced' PROVE file = stored
      BY <2>3, <2>4 DEF FileInv
    <2>5. ASSUME ~raced' PROVE machlist'[p] = {h \in Hosts : stored'[h] = "O"}
      BY <2>2, <2>3, <2>4, <2>5
    <2> QED BY <2>2, <2>3, <2>5, FoundIntro
  <1>4. ASSUME NEW p \in Proc, ChildEnds(p) PROVE FoundInv'
    BY <1>4 DEF ChildEnds, FoundInv, AtWork
  <1>5. ASSUME NEW p \in Proc, SecondPass(p) PROVE FoundInv'
    <2>1. /\ UNCHANGED <<cmd, stored, machlist>> /\ (raced => raced') /\ AtWork(p)
          /\ \A q \in Proc : q # p => pc'[q] = pc[q]
      BY <1>5, ReadValues DEF SecondPass, AtWork
    <2> QED BY <2>1, FoundIntro DEF FoundInv
  <1>6. ASSUME NEW p \in Proc, Skip(p) PROVE FoundInv'
    BY <1>6 DEF Skip, Visiting, Keep, NextLine, FoundInv, AtWork
  <1>7. ASSUME NEW p \in Proc, Online(p) PROVE FoundInv'
    <2>1. /\ UNCHANGED <<cmd, stored>> /\ (raced => raced') /\ cmd[p] = "online"
          /\ \A q \in Proc : q # p => pc'[q] = pc[q] /\ machlist'[q] = machlist[q]
      BY <1>7 DEF Online, Visiting, NextLine
    <2> QED BY <2>1, FoundIntro
  <1>8. ASSUME NEW p \in Proc, Install(p) PROVE FoundInv'
    BY <1>8 DEF Install, Visiting, Keep, Mark, NextLine, FoundInv, AtWork
  <1>9. ASSUME NEW p \in Proc, KeyError(p) PROVE FoundInv'
    <2>1. \A q \in Proc : q # p => /\ pc'[q] = pc[q] /\ cmd'[q] = cmd[q]
                                  /\ machlist'[q] = machlist[q]
      BY <1>9, LeaveValues DEF KeyError
    <2>2. (raced => raced') /\ UNCHANGED stored
      BY <1>9 DEF KeyError
    <2>3. pc'[p] \in {"idle", "keyerror"} \/ cmd'[p] = "online"
      BY <1>9, LeaveValues DEF KeyError
    <2> QED BY <2>1, <2>2, <2>3, FoundIntro DEF AtWork
  <1>10. ASSUME NEW p \in Proc, Ready(p) PROVE FoundInv'
    BY <1>10 DEF Ready, Visiting, Keep, Mark, NextLine, FoundInv, AtWork
  <1>11. ASSUME NEW p \in Proc, Run(p) PROVE FoundInv'
    BY <1>11 DEF Run, Visiting, Keep, NextLine, FoundInv, AtWork
  <1>12. ASSUME NEW p \in Proc, NotRunning(p) PROVE FoundInv'
    BY <1>12 DEF NotRunning, Visiting, FoundInv, AtWork
  <1>13. ASSUME NEW p \in Proc, SpawnStressTest(p) PROVE FoundInv'
    BY <1>13 DEF SpawnStressTest, FoundInv, AtWork
  <1>14. ASSUME NEW p \in Proc, Truncate(p) PROVE FoundInv'
    <2>1. /\ UNCHANGED <<cmd, stored, machlist>> /\ (raced => raced') /\ AtWork(p)
          /\ \A q \in Proc : q # p => pc'[q] = pc[q]
      BY <1>14 DEF Truncate, AtWork
    <2> QED BY <2>1, FoundIntro DEF FoundInv
  <1>15. ASSUME NEW p \in Proc, Store(p) PROVE FoundInv'
    <2>1. /\ UNCHANGED raced /\ pc[p] = "store"
          /\ pc'[p] = "idle" \/ (pc'[p] = "again" /\ cmd'[p] = "online")
      BY <1>15, AfterValues DEF Store
    <2>2. \A q \in Proc : q # p => pc'[q] = pc[q]
      BY <1>15, AfterValues DEF Store
    <2>3. ASSUME ~raced, NEW q \in Proc, AtWork(q)' PROVE q = p
      BY <2>1, <2>2, <2>3, Zenon DEF FileInv, AtWork
    <2>4. ASSUME ~raced', NEW q \in Proc, AtWork(q)' PROVE cmd'[q] # "install"
      BY <2>1, <2>3, <2>4 DEF AtWork
    <2> QED BY <2>4 DEF FoundInv
  <1>16. ASSUME NEW p \in Proc, Unchanged_(p) PROVE FoundInv'
    <2>1. \A q \in Proc : q # p => /\ pc'[q] = pc[q] /\ cmd'[q] = cmd[q]
                                  /\ machlist'[q] = machlist[q]
      BY <1>16, AfterValues DEF Unchanged_
    <2>2. (raced => raced') /\ UNCHANGED stored
      BY <1>16 DEF Unchanged_
    <2>3. pc'[p] \in {"idle", "keyerror"} \/ cmd'[p] = "online"
      BY <1>16, AfterValues DEF Unchanged_
    <2> QED BY <2>1, <2>2, <2>3, FoundIntro DEF AtWork
  <1>17. ASSUME NEW p \in Proc, Interrupt(p) PROVE FoundInv'
    <2>1. \A q \in Proc : q # p => /\ pc'[q] = pc[q] /\ cmd'[q] = cmd[q]
                                  /\ machlist'[q] = machlist[q]
      BY <1>17, LeaveValues DEF Interrupt
    <2>2. (raced => raced') /\ UNCHANGED stored
      BY <1>17 DEF Interrupt
    <2>3. pc'[p] \in {"idle", "keyerror"} \/ cmd'[p] = "online"
      BY <1>17, LeaveValues DEF Interrupt
    <2> QED BY <2>1, <2>2, <2>3, FoundIntro DEF AtWork
  <1>18. ASSUME NEW h \in Hosts, TestEnds(h) PROVE FoundInv'
    BY <1>18 DEF TestEnds, FoundInv, AtWork
  <1>19. CASE UNCHANGED vars
    BY <1>19 DEF FoundInv, AtWork
  <1> QED BY <1>1, <1>2, <1>3, <1>4, <1>5, <1>6, <1>7, <1>8, <1>9, <1>10, <1>11, <1>12,
      <1>13, <1>14, <1>15, <1>16, <1>17, <1>18, <1>19 DEF Next, Begin, Step

(* No status is asked of a machine that was not found. *)
LEMMA NoKeyErrorStep ==
  ASSUME TypeOK, CopyInv, FoundInv, NoKeyError, [Next]_vars
  PROVE  NoKeyError'
  <1> USE MachineListAssumption DEF TypeOK, NoKeyError, vars, disk, copy, pool, machine, kernels
  <1>1. ASSUME NEW p \in Proc, RunStressCmd(p) PROVE NoKeyError'
    BY <1>1 DEF RunStressCmd, Start, Read
  <1>2. ASSUME NEW p \in Proc, ResetMachineList(p) PROVE NoKeyError'
    BY <1>2 DEF ResetMachineList, Start, Read, Cleared
  <1>3. ASSUME NEW p \in Proc, Find(p) PROVE NoKeyError'
    BY <1>3 DEF Find, Start
  <1>4. ASSUME NEW p \in Proc, ChildEnds(p) PROVE NoKeyError'
    BY <1>4 DEF ChildEnds
  <1>5. ASSUME NEW p \in Proc, SecondPass(p) PROVE NoKeyError'
    BY <1>5 DEF SecondPass, Read
  <1>6. ASSUME NEW p \in Proc, Skip(p) PROVE NoKeyError'
    BY <1>6 DEF Skip, Visiting, Keep, NextLine
  <1>7. ASSUME NEW p \in Proc, Online(p) PROVE NoKeyError'
    BY <1>7 DEF Online, Visiting, Keep, Mark, NextLine
  <1>8. ASSUME NEW p \in Proc, Install(p) PROVE NoKeyError'
    BY <1>8 DEF Install, Visiting, Keep, Mark, NextLine
  <1>9. ASSUME NEW p \in Proc, KeyError(p) PROVE NoKeyError'
    <2>1. /\ AtWork(p) /\ cmd[p] = "install" /\ pos[p] \in Hosts
          /\ lines[p][pos[p]] = "O" /\ pos[p] \notin machlist[p] /\ pc[p] = "visit"
      BY <1>9 DEF KeyError, Visiting, AtWork, TypeOK, Hosts
    <2>2. UNCHANGED raced /\ \A q \in Proc : q # p => pc'[q] = pc[q]
      BY <1>9, LeaveValues DEF KeyError
    <2>3. ~raced => stored[pos[p]] = "O"
      <3>1. pos[p] >= pos[p]
        BY <2>1 DEF Hosts
      <3> QED BY <2>1, <3>1 DEF CopyInv, CopyOK
    <2>4. raced
      BY <2>1, <2>3 DEF FoundInv
    <2> QED BY <2>2, <2>4 DEF NoKeyError
  <1>10. ASSUME NEW p \in Proc, Ready(p) PROVE NoKeyError'
    BY <1>10 DEF Ready, Visiting, Keep, Mark, NextLine
  <1>11. ASSUME NEW p \in Proc, Run(p) PROVE NoKeyError'
    BY <1>11 DEF Run, Visiting, Keep, NextLine
  <1>12. ASSUME NEW p \in Proc, NotRunning(p) PROVE NoKeyError'
    BY <1>12 DEF NotRunning, Visiting
  <1>13. ASSUME NEW p \in Proc, SpawnStressTest(p) PROVE NoKeyError'
    BY <1>13 DEF SpawnStressTest
  <1>14. ASSUME NEW p \in Proc, Truncate(p) PROVE NoKeyError'
    BY <1>14 DEF Truncate
  <1>15. ASSUME NEW p \in Proc, Store(p) PROVE NoKeyError'
    BY <1>15, AfterValues DEF Store, NoKeyError
  <1>16. ASSUME NEW p \in Proc, Unchanged_(p) PROVE NoKeyError'
    BY <1>16, AfterValues DEF Unchanged_, NoKeyError
  <1>17. ASSUME NEW p \in Proc, Interrupt(p) PROVE NoKeyError'
    <2>1. (raced => raced') /\ pc'[p] = "idle" /\ \A q \in Proc : q # p => pc'[q] = pc[q]
      BY <1>17, LeaveValues DEF Interrupt
    <2> QED BY <2>1 DEF NoKeyError
  <1>18. ASSUME NEW h \in Hosts, TestEnds(h) PROVE NoKeyError'
    BY <1>18 DEF TestEnds
  <1>19. CASE UNCHANGED vars
    BY <1>19
  <1> QED BY <1>1, <1>2, <1>3, <1>4, <1>5, <1>6, <1>7, <1>8, <1>9, <1>10, <1>11, <1>12,
      <1>13, <1>14, <1>15, <1>16, <1>17, <1>18, <1>19 DEF Next, Begin, Step

(* The parts hold of an initial list, which no command has touched. *)
LEMMA InitIInv == Init => IInv
  <1> SUFFICES ASSUME Init PROVE IInv
    OBVIOUS
  <1>1. TypeOK
    <2>1. /\ file \in [Hosts -> {"none", "O", "I", "R"}] /\ stored = file
          /\ installed \in SUBSET Hosts /\ passed = {h \in Hosts : file[h] = "I"}
          /\ tests = [h \in Hosts |-> 0]
      BY Zenon DEF Init
    <2>2. /\ pc = [p \in Proc |-> "idle"] /\ cmd = [p \in Proc |-> "init"]
          /\ lines = [p \in Proc |-> Blank] /\ pos = [p \in Proc |-> 1] /\ calls = 0
      BY Zenon DEF Init
    <2>3. machlist = [p \in Proc |-> {}] /\ status = machlist /\ todo = machlist
      BY Zenon DEF Init
    <2>4. file \in [Hosts -> Flag] /\ stored \in [Hosts -> Flag] /\ tests \in [Hosts -> Nat]
      BY <2>1 DEF Flag
    <2>5. pc \in [Proc -> PCs] /\ cmd \in [Proc -> Commands] /\ calls \in Nat
      BY <2>2 DEF PCs, Commands
    <2>6. lines \in [Proc -> [Hosts -> Flag]] /\ pos \in [Proc -> 1..(N + 1)]
      <3>1. Blank \in [Hosts -> Flag]
        BY DEF Blank, Flag
      <3> QED BY <2>2, <3>1, MachineListAssumption
    <2>7. /\ machlist \in [Proc -> SUBSET Hosts] /\ status \in [Proc -> SUBSET Hosts]
          /\ todo \in [Proc -> SUBSET Hosts]
      BY <2>3
    <2> QED BY <2>1, <2>4, <2>5, <2>6, <2>7 DEF TypeOK
  <1>2. \A p \in Proc : pc[p] = "idle" /\ lines[p] = Blank /\ status[p] = {}
    BY DEF Init
  <1>3. FlagsEarned
    <2>1. Earned(file) /\ stored = file
      BY Zenon DEF Init
    <2> QED BY <1>2, <2>1 DEF FlagsEarned, Earned, Blank
  <1>4. stored = file /\ tests = [h \in Hosts |-> 0]
    BY Zenon DEF Init
  <1>5. OneTest /\ NoKeyError /\ PlaceInv
    BY <1>2, <1>4 DEF OneTest, NoKeyError, PlaceInv
  <1>6. FileInv /\ CopyInv /\ FoundInv /\ RunInv
    BY <1>2, <1>4 DEF FileInv, CopyInv, FoundInv, RunInv, AtWork
  <1> QED BY <1>1, <1>3, <1>5, <1>6 DEF IInv

(* Every step keeps all parts. *)
LEMMA StepIInv == IInv /\ [Next]_vars => IInv'
  BY TypeStep, FlagsEarnedStep, PlaceStep, RunStep, FileStep, CopyStep, FoundStep,
     NoKeyErrorStep DEF IInv

(* R stands where the kernel was installed and I where the child was read as  *)
(* good, copies are only as far ahead of the file as their own marks, and     *)
(* only those who write at the same time get into each other's way: for every *)
(* number of machines and processes.                                          *)
THEOREM ListInductive == Spec => []IInv
  <1>1. Init => IInv
    BY InitIInv
  <1>2. IInv /\ [Next]_vars => IInv'
    BY StepIInv
  <1> QED BY <1>1, <1>2, PTL DEF Spec

(* A machine is given a second test only when run commands overlap. *)
THEOREM OneTestHolds == Spec => []OneTest
  <1>1. IInv => OneTest
    BY DEF IInv
  <1> QED BY <1>1, ListInductive, PTL

(* What a step writes to the list, if no other command races it, is one step *)
(* on, a flag taken away by init, or the loss of the last line.              *)
LEMMA WriteStep == IInv /\ [Next]_vars => WriteKeepsFlags
  <1> SUFFICES ASSUME IInv, [Next]_vars, ~raced', stored' # stored PROVE WriteKeepsFlags
    BY DEF WriteKeepsFlags
  <1>1. PICK p \in Proc : Store(p)
    <2> USE DEF vars, disk, copy, pool, machine, kernels
    <2>1. ASSUME NEW p \in Proc, Begin(p) PROVE stored' = stored
      BY <2>1 DEF Begin, RunStressCmd, ResetMachineList, Find, Start
    <2>2. ASSUME NEW p \in Proc, Step(p), ~Store(p) PROVE stored' = stored
      BY <2>2 DEF Step, ChildEnds, SecondPass, Skip, Online, Install, KeyError, Ready, Run,
           NotRunning, SpawnStressTest, Truncate, Unchanged_, NextLine
    <2>3. ASSUME NEW p \in Proc, Interrupt(p) PROVE stored' = stored
      BY <2>3 DEF Interrupt
    <2>4. ASSUME NEW h \in Hosts, TestEnds(h) PROVE stored' = stored
      BY <2>4 DEF TestEnds
    <2>5. CASE UNCHANGED vars
      BY <2>5
    <2> QED BY <2>1, <2>2, <2>3, <2>4, <2>5 DEF Next
  <1>2. CopyOK(p) /\ stored' = Text(p)
    BY <1>1 DEF Store, IInv, CopyInv
  <1>3. ASSUME NEW h \in Hosts, Text(p)[h] # lines[p][h]
        PROVE  /\ ~whole[p] /\ stored'[h] = "gone"
               /\ \A g \in Hosts : g > h => stored'[g] = "gone"
    <2>1. ~whole[p] /\ LastLine(lines[p], h)
      BY <1>3 DEF Text
    <2> QED BY <1>2, <2>1 DEF Text, LastLine
  <1>4. ASSUME NEW h \in Hosts, Text(p)[h] = lines[p][h]
        PROVE  \/ Step_(stored[h], stored'[h])
               \/ cmd[p] = "init" /\ stored[h] # "gone" /\ stored'[h] = "none"
    BY <1>2, <1>4 DEF CopyOK, Cleared, Step_
  <1> QED BY <1>3, <1>4 DEF WriteKeepsFlags

(* "It will append flags to the beginning of each line in the machine list so *)
(* that it can remember the state for subsequent command calls": a flag is    *)
(* never lost to a command that runs alone, whatever commands ran before it.  *)
THEOREM FlagsKept == Spec => KeepsFlags
  <1>1. IInv /\ [Next]_vars => [WriteKeepsFlags]_vars
    BY WriteStep
  <1> QED BY <1>1, ListInductive, PTL DEF Spec, KeepsFlags

-----------------------------------------------------------------------------
(* One AsyncProcess object and its runs. *)

(* Before a new run the monitors of the earlier ones are over. *)
LEMMA ResetKeeps ==
  ASSUME AsyncIInv, ReuseIsSafe, Reset
  PROVE  AsyncIInv'
  <1> USE AsyncProcessAssumption DEF AsyncIInv, AsyncTypeOK, Judged, Over, Gone, Alive, MonGoto,
      Runs, Use, Reset
  <1>1. AsyncTypeOK'
    BY DEF RunsInOrder, MonitorInv, VerdictInv, ReuseIsSafe
  <1>2. RunsInOrder'
    BY DEF RunsInOrder, MonitorInv, VerdictInv, ReuseIsSafe
  <1>3. MonitorInv'
    BY DEF RunsInOrder, MonitorInv, VerdictInv, ReuseIsSafe
  <1>4. VerdictInv'
    BY DEF RunsInOrder, MonitorInv, VerdictInv, ReuseIsSafe
  <1> QED BY <1>1, <1>2, <1>3, <1>4

(* A run starts with a child, a monitor and clear flags. *)
LEMMA SpawnKeeps ==
  ASSUME AsyncIInv, ReuseIsSafe, Spawn
  PROVE  AsyncIInv'
  <1> USE AsyncProcessAssumption DEF AsyncIInv, AsyncTypeOK, Judged, Over, Gone, Alive, MonGoto,
      Runs, Use, Spawn
  <1>1. AsyncTypeOK'
    BY DEF RunsInOrder, MonitorInv, VerdictInv, ReuseIsSafe
  <1>2. RunsInOrder'
    BY DEF RunsInOrder, MonitorInv, VerdictInv, ReuseIsSafe
  <1>3. MonitorInv'
    BY DEF RunsInOrder, MonitorInv, VerdictInv, ReuseIsSafe
  <1>4. VerdictInv'
    BY DEF RunsInOrder, MonitorInv, VerdictInv, ReuseIsSafe
  <1> QED BY <1>1, <1>2, <1>3, <1>4

(* runcmd returns when the child is gone. *)
LEMMA RunReturnsKeeps ==
  ASSUME AsyncIInv, ReuseIsSafe, RunReturns
  PROVE  AsyncIInv'
  <1> USE AsyncProcessAssumption DEF AsyncIInv, AsyncTypeOK, Judged, Over, Gone, Alive, MonGoto,
      Runs, Use, RunReturns
  <1>1. AsyncTypeOK'
    BY DEF RunsInOrder, MonitorInv, VerdictInv, ReuseIsSafe
  <1>2. RunsInOrder'
    BY DEF RunsInOrder, MonitorInv, VerdictInv, ReuseIsSafe
  <1>3. MonitorInv'
    BY DEF RunsInOrder, MonitorInv, VerdictInv, ReuseIsSafe
  <1>4. VerdictInv'
    BY DEF RunsInOrder, MonitorInv, VerdictInv, ReuseIsSafe
  <1> QED BY <1>1, <1>2, <1>3, <1>4

(* complete is seen when the monitor is done. *)
LEMMA SeeCompleteKeeps ==
  ASSUME AsyncIInv, ReuseIsSafe, SeeComplete
  PROVE  AsyncIInv'
  <1> USE AsyncProcessAssumption DEF AsyncIInv, AsyncTypeOK, Judged, Over, Gone, Alive, MonGoto,
      Runs, Use, SeeComplete
  <1>1. AsyncTypeOK'
    BY DEF RunsInOrder, MonitorInv, VerdictInv, ReuseIsSafe
  <1>2. RunsInOrder'
    BY DEF RunsInOrder, MonitorInv, VerdictInv, ReuseIsSafe
  <1>3. MonitorInv'
    BY DEF RunsInOrder, MonitorInv, VerdictInv, ReuseIsSafe
  <1>4. VerdictInv'
    BY DEF RunsInOrder, MonitorInv, VerdictInv, ReuseIsSafe
  <1> QED BY <1>1, <1>2, <1>3, <1>4

(* The verdict is the one of this run's own monitor. *)
LEMMA JudgeKeeps ==
  ASSUME AsyncIInv, ReuseIsSafe, Judge
  PROVE  AsyncIInv'
  <1> USE AsyncProcessAssumption DEF AsyncIInv, AsyncTypeOK, Judged, Over, Gone, Alive, MonGoto,
      Runs, Use, Judge
  <1>1. AsyncTypeOK'
    BY DEF RunsInOrder, MonitorInv, VerdictInv, ReuseIsSafe
  <1>2. RunsInOrder'
    BY DEF RunsInOrder, MonitorInv, VerdictInv, ReuseIsSafe
  <1>3. MonitorInv'
    BY DEF RunsInOrder, MonitorInv, VerdictInv, ReuseIsSafe
  <1>4. VerdictInv'
    BY DEF RunsInOrder, MonitorInv, VerdictInv, ReuseIsSafe
  <1> QED BY <1>1, <1>2, <1>3, <1>4

(* Only the monitor of the newest run polls. *)
LEMMA MonPollKeeps ==
  ASSUME AsyncIInv, ReuseIsSafe, NEW r \in Runs, MonPoll(r)
  PROVE  AsyncIInv'
  <1> USE AsyncProcessAssumption DEF AsyncIInv, AsyncTypeOK, Judged, Over, Gone, Alive, MonGoto,
      Runs, Use, MonPoll
  <1>a. r <= run /\ mon[r] # "none"
    BY DEF RunsInOrder
  <1>b. r = run /\ caller # "spawn"
    BY <1>a DEF RunsInOrder
  <1>1. AsyncTypeOK'
    BY <1>a, <1>b, ZenonT(60) DEF RunsInOrder, MonitorInv, VerdictInv, ReuseIsSafe
  <1>2. RunsInOrder'
    BY <1>a, <1>b DEF RunsInOrder, MonitorInv, VerdictInv, ReuseIsSafe
  <1>3. MonitorInv'
    BY <1>a, <1>b DEF RunsInOrder, MonitorInv, VerdictInv, ReuseIsSafe
  <1>4. VerdictInv'
    BY <1>a, <1>b DEF RunsInOrder, MonitorInv, VerdictInv, ReuseIsSafe
  <1> QED BY <1>1, <1>2, <1>3, <1>4

(* A monitor gives up only on its own run. *)
LEMMA MonPingKeeps ==
  ASSUME AsyncIInv, ReuseIsSafe, NEW r \in Runs, MonPing(r)
  PROVE  AsyncIInv'
  <1> USE AsyncProcessAssumption DEF AsyncIInv, AsyncTypeOK, Judged, Over, Gone, Alive, MonGoto,
      Runs, Use, MonPing
  <1>a. r <= run /\ mon[r] # "none"
    BY DEF RunsInOrder
  <1>b. r = run /\ caller # "spawn"
    BY <1>a DEF RunsInOrder
  <1>1. AsyncTypeOK'
    BY <1>a, <1>b, ZenonT(60) DEF RunsInOrder, MonitorInv, VerdictInv, ReuseIsSafe
  <1>2. RunsInOrder'
    BY <1>a, <1>b DEF RunsInOrder, MonitorInv, VerdictInv, ReuseIsSafe
  <1>3. MonitorInv'
    BY <1>a, <1>b DEF RunsInOrder, MonitorInv, VerdictInv, ReuseIsSafe
  <1>4. VerdictInv'
    BY <1>a, <1>b DEF RunsInOrder, MonitorInv, VerdictInv, ReuseIsSafe
  <1> QED BY <1>1, <1>2, <1>3, <1>4

(* A child is killed by the monitor that gave up on it. *)
LEMMA MonKillKeeps ==
  ASSUME AsyncIInv, ReuseIsSafe, NEW r \in Runs, MonKill(r)
  PROVE  AsyncIInv'
  <1> USE AsyncProcessAssumption DEF AsyncIInv, AsyncTypeOK, Judged, Over, Gone, Alive, MonGoto,
      Runs, Use, MonKill
  <1>a. r <= run /\ mon[r] # "none"
    BY DEF RunsInOrder
  <1>b. r = run /\ caller # "spawn"
    BY <1>a DEF RunsInOrder
  <1>1. AsyncTypeOK'
    BY <1>a, <1>b DEF RunsInOrder, MonitorInv, VerdictInv, ReuseIsSafe
  <1>2. RunsInOrder'
    BY <1>a, <1>b DEF RunsInOrder, MonitorInv, VerdictInv, ReuseIsSafe
  <1>3. MonitorInv'
    BY <1>a, <1>b DEF RunsInOrder, MonitorInv, VerdictInv, ReuseIsSafe
  <1>4. VerdictInv'
    BY <1>a, <1>b DEF RunsInOrder, MonitorInv, VerdictInv, ReuseIsSafe
  <1> QED BY <1>1, <1>2, <1>3, <1>4

(* terminated is set for the run that was killed. *)
LEMMA MonMarkKeeps ==
  ASSUME AsyncIInv, ReuseIsSafe, NEW r \in Runs, MonMark(r)
  PROVE  AsyncIInv'
  <1> USE AsyncProcessAssumption DEF AsyncIInv, AsyncTypeOK, Judged, Over, Gone, Alive, MonGoto,
      Runs, Use, MonMark
  <1>a. r <= run /\ mon[r] # "none"
    BY DEF RunsInOrder
  <1>b. r = run /\ caller # "spawn"
    BY <1>a DEF RunsInOrder
  <1>1. AsyncTypeOK'
    BY <1>a, <1>b DEF RunsInOrder, MonitorInv, VerdictInv, ReuseIsSafe
  <1>2. RunsInOrder'
    BY <1>a, <1>b DEF RunsInOrder, MonitorInv, VerdictInv, ReuseIsSafe
  <1>3. MonitorInv'
    BY <1>a, <1>b DEF RunsInOrder, MonitorInv, VerdictInv, ReuseIsSafe
  <1>4. VerdictInv'
    BY <1>a, <1>b DEF RunsInOrder, MonitorInv, VerdictInv, ReuseIsSafe
  <1> QED BY <1>1, <1>2, <1>3, <1>4

(* complete is set when the child of the run is gone. *)
LEMMA MonDrainKeeps ==
  ASSUME AsyncIInv, ReuseIsSafe, NEW r \in Runs, MonDrain(r)
  PROVE  AsyncIInv'
  <1> USE AsyncProcessAssumption DEF AsyncIInv, AsyncTypeOK, Judged, Over, Gone, Alive, MonGoto,
      Runs, Use, MonDrain
  <1>a. r <= run /\ mon[r] # "none"
    BY DEF RunsInOrder
  <1>1. AsyncTypeOK'
    BY <1>a DEF RunsInOrder, MonitorInv, VerdictInv, ReuseIsSafe
  <1>2. RunsInOrder'
    BY <1>a DEF RunsInOrder, MonitorInv, VerdictInv, ReuseIsSafe
  <1>3. MonitorInv'
    BY <1>a DEF RunsInOrder, MonitorInv, VerdictInv, ReuseIsSafe
  <1>4. VerdictInv'
    BY <1>a DEF RunsInOrder, MonitorInv, VerdictInv, ReuseIsSafe
  <1> QED BY <1>1, <1>2, <1>3, <1>4

(* A child that ends by itself was not killed. *)
LEMMA ChildExitsKeeps ==
  ASSUME AsyncIInv, ReuseIsSafe, ChildExits
  PROVE  AsyncIInv'
  <1> USE AsyncProcessAssumption DEF AsyncIInv, AsyncTypeOK, Judged, Over, Gone, Alive, MonGoto,
      Runs, Use, ChildExits
  <1>1. AsyncTypeOK'
    BY DEF RunsInOrder, MonitorInv, VerdictInv, ReuseIsSafe
  <1>2. RunsInOrder'
    BY DEF RunsInOrder, MonitorInv, VerdictInv, ReuseIsSafe
  <1>3. MonitorInv'
    BY DEF RunsInOrder, MonitorInv, VerdictInv, ReuseIsSafe
  <1>4. VerdictInv'
    BY DEF RunsInOrder, MonitorInv, VerdictInv, ReuseIsSafe
  <1> QED BY <1>1, <1>2, <1>3, <1>4

(* The clock changes nothing yet. *)
LEMMA TimeoutPassesKeeps ==
  ASSUME AsyncIInv, ReuseIsSafe, TimeoutPasses
  PROVE  AsyncIInv'
  <1> USE AsyncProcessAssumption DEF AsyncIInv, AsyncTypeOK, Judged, Over, Gone, Alive, MonGoto,
      Runs, Use, TimeoutPasses
  <1>1. AsyncTypeOK'
    BY DEF RunsInOrder, MonitorInv, VerdictInv, ReuseIsSafe
  <1>2. RunsInOrder'
    BY DEF RunsInOrder, MonitorInv, VerdictInv, ReuseIsSafe
  <1>3. MonitorInv'
    BY DEF RunsInOrder, MonitorInv, VerdictInv, ReuseIsSafe
  <1>4. VerdictInv'
    BY DEF RunsInOrder, MonitorInv, VerdictInv, ReuseIsSafe
  <1> QED BY <1>1, <1>2, <1>3, <1>4

(* It holds of an object that was not run yet. *)
LEMMA AsyncInitIInv == AsyncInit => AsyncIInv
  <1> SUFFICES ASSUME AsyncInit PROVE AsyncIInv
    OBVIOUS
  <1> USE AsyncProcessAssumption DEF AsyncInit
  <1>1. AsyncTypeOK
    <2>1. use \in Uses /\ caller = "idle" /\ run = 0 /\ MaxRuns \in Nat
      OBVIOUS
    <2>2. /\ child \in [Runs -> {"none", "running", "exited", "killed"}]
          /\ mon \in [Runs -> {"none", "poll", "ping", "kill", "mark", "drain", "done"}]
      OBVIOUS
    <2>3. verdict \in [Runs -> {"none", "ok", "timeout"}] /\ gaveup \subseteq Runs
      OBVIOUS
    <2>4. late \in BOOLEAN /\ complete \in BOOLEAN /\ terminated \in BOOLEAN
      OBVIOUS
    <2>5. run \in 0..MaxRuns
      BY <2>1
    <2> HIDE DEF AsyncInit
    <2> QED BY <2>1, <2>2, <2>3, <2>4, <2>5 DEF AsyncTypeOK
  <1>2. RunsInOrder
    BY DEF RunsInOrder, Judged, Over, Runs
  <1>3. MonitorInv
    BY DEF MonitorInv, Runs
  <1>4. VerdictInv
    BY DEF VerdictInv, Judged
  <1> QED BY <1>1, <1>2, <1>3, <1>4 DEF AsyncIInv

(* Every step keeps it. *)
LEMMA AsyncStep == AsyncIInv /\ ReuseIsSafe /\ [AsyncNext]_asyncvars => AsyncIInv'
  <1> SUFFICES ASSUME AsyncIInv, ReuseIsSafe, [AsyncNext]_asyncvars PROVE AsyncIInv'
    OBVIOUS
  <1>1. CASE Caller
    BY <1>1, ResetKeeps, SpawnKeeps, RunReturnsKeeps, SeeCompleteKeeps, JudgeKeeps DEF Caller
  <1>2. ASSUME NEW r \in Runs, Monitor(r) PROVE AsyncIInv'
    BY <1>2, MonPollKeeps, MonPingKeeps, MonKillKeeps, MonMarkKeeps, MonDrainKeeps DEF Monitor
  <1>3. CASE ChildExits
    BY <1>3, ChildExitsKeeps
  <1>4. CASE TimeoutPasses
    BY <1>4, TimeoutPassesKeeps
  <1>5. CASE UNCHANGED asyncvars
    BY <1>5 DEF asyncvars, AsyncIInv, AsyncTypeOK, RunsInOrder, MonitorInv, VerdictInv,
       Judged, Over, Gone
  <1> QED BY <1>1, <1>2, <1>3, <1>4, <1>5 DEF AsyncNext

(* Runs of one object do not get into each other's way, for every number of   *)
(* runs and every way the object is used, as long as only a terminated run is *)
(* repeated or the caller waits for complete.                                 *)
THEOREM AsyncInductive == ReuseIsSafe /\ AsyncSpec => []AsyncIInv
  <1>1. ReuseIsSafe /\ AsyncIInv /\ [AsyncNext]_asyncvars => AsyncIInv'
    BY AsyncStep
  <1>2. ReuseIsSafe => ReuseIsSafe'
    BY DEF ReuseIsSafe
  <1> QED BY <1>1, <1>2, AsyncInitIInv, PTL DEF AsyncSpec

(* A caller judges a run only when its child is gone, a child is killed only  *)
(* by the monitor of its own run, and what terminated says is about this run. *)
THEOREM JudgesRight == ReuseIsSafe /\ AsyncSpec => []VerdictTrue
  <1>1. AsyncIInv => VerdictTrue
    BY DEF AsyncIInv, VerdictInv, MonitorInv, VerdictTrue, JudgedAfterExit, KillHasCause,
       KilledIsReported, Gone
  <1> QED BY <1>1, AsyncInductive, PTL

=============================================================================
