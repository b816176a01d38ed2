---------------------------- MODULE TimelineProofs ----------------------------
(***************************************************************************)
(* Proofs about the timelines: the rows of the device timeline, for any     *)
(* number of blocks, at any times, in any order (TimelineRows); and the     *)
(* grub file and the crontab of the machine that bootgraph takes to make    *)
(* one, for any number of calls, faults and boots (BootGraph).              *)
(***************************************************************************)
EXTENDS TimelineRows, BootGraph, TLAPS

-----------------------------------------------------------------------------
(* TimelineRows                                                             *)

(* What a step of the scan does: block i is placed, or nothing changes.    *)
LEMMA TryCases ==
  ASSUME Ranges, Try
  PROVE  /\ ~done /\ pos \in 1..N /\ pos' = pos + 1
         /\ UNCHANGED <<input, row, lines, done>>
         /\ order[pos] \in Items
         /\ \/ /\ place[order[pos]] = -1 /\ Fits(order[pos])
               /\ place' = [place EXCEPT ![order[pos]] = row]
               /\ height' = IF devrows[order[pos]] > height THEN devrows[order[pos]] ELSE height
            \/ /\ ~(place[order[pos]] = -1 /\ Fits(order[pos]))
               /\ UNCHANGED <<place, height>>
  <1>1. ~done /\ pos <= N /\ pos' = pos + 1 /\ UNCHANGED <<input, row, lines, done>>
    BY Zenon DEF Try
  <1>2. pos \in 1..N
    BY <1>1, TimelineRowsAssumption DEF Ranges, InputOK, PlaceOK
  <1>3. order[pos] \in Items
    BY <1>2 DEF Ranges, InputOK, PlaceOK, Items
  <1>4. IF place[order[pos]] = -1 /\ Fits(order[pos])
        THEN /\ place' = [place EXCEPT ![order[pos]] = row]
             /\ height' = IF devrows[order[pos]] > height THEN devrows[order[pos]] ELSE height
        ELSE UNCHANGED <<place, height>>
    BY Zenon DEF Try
  <1> QED BY <1>1, <1>2, <1>3, <1>4, Zenon

(* The blocks to lay out stay the same.                                    *)
LEMMA InputStep ==
  ASSUME InputOK, [Next]_vars
  PROVE  InputOK'
  <1>1. UNCHANGED input
    BY Zenon DEF Next, Try, NextRow, vars
  <1> QED BY <1>1 DEF input, InputOK, Permutation

(* Every step keeps the rest of the variables in their ranges.             *)
LEMMA PlaceStep ==
  ASSUME Ranges, [Next]_vars
  PROVE  PlaceOK'
  <1> USE TimelineRowsAssumption
  <1>1. CASE Try
    <2>1. pos \in 1..N /\ pos' = pos + 1 /\ UNCHANGED <<row, lines>> /\ order[pos] \in Items
      BY <1>1, TryCases, Zenon
    <2>2. CASE UNCHANGED <<place, height>>
      BY <2>1, <2>2 DEF Ranges, PlaceOK
    <2>3. CASE /\ place' = [place EXCEPT ![order[pos]] = row]
               /\ height' = IF devrows[order[pos]] > height THEN devrows[order[pos]] ELSE height
      <3> DEFINE i == order[pos]
      <3>1. devrows[i] \in Nat
        BY <2>1 DEF Ranges, InputOK
      <3>2. height' \in Nat
        BY <2>3, <3>1 DEF Ranges, PlaceOK
      <3>3. place' \in [Items -> Int]
        BY <2>1, <2>3 DEF Ranges, PlaceOK
      <3>4. \A j \in Items : place'[j] = -1 \/ place'[j] \in FirstRow..row
        BY <2>1, <2>3 DEF Ranges, PlaceOK
      <3> QED BY <2>1, <3>2, <3>3, <3>4 DEF Ranges, PlaceOK
    <2> QED BY <1>1, <2>2, <2>3, TryCases, Zenon
  <1>2. CASE NextRow
    <2>1. row' = row + 1 /\ height' = 1 /\ pos' = 1 /\ UNCHANGED place
      BY <1>2 DEF NextRow
    <2>2. lines' \in [FirstRow..(row' - 1) -> Nat]
      BY <1>2, <2>1 DEF NextRow, Ranges, PlaceOK
    <2> QED BY <2>1, <2>2 DEF Ranges, PlaceOK
  <1>3. CASE UNCHANGED vars
    BY <1>3 DEF vars, Ranges, PlaceOK
  <1> QED BY <1>1, <1>2, <1>3 DEF Next

(* done stays Boolean.                                                     *)
LEMMA DoneStep ==
  ASSUME done \in BOOLEAN, [Next]_vars
  PROVE  done' \in BOOLEAN
  BY Zenon DEF Next, Try, NextRow, vars

(* A block is only placed where it fits.                                   *)
LEMMA SeparateStep ==
  ASSUME Ranges, Separate, [Next]_vars
  PROVE  Separate'
  <1> USE DEF vars, input
  <1>1. CASE Try
    <2>1. CASE UNCHANGED place
      BY <1>1, <2>1, TryCases DEF Separate, Apart
    <2>2. CASE place[order[pos]] = -1 /\ Fits(order[pos]) /\ place' = [place EXCEPT ![order[pos]] = row]
      <3> DEFINE i == order[pos]
      <3>0. i \in Items /\ UNCHANGED <<start, end>>
        BY <1>1, TryCases
      <3>1. SUFFICES ASSUME NEW a \in Items, NEW b \in Items, a # b,
                            place'[a] = place'[b], place'[a] # -1
                     PROVE  Apart(a, b)
        BY <3>0 DEF Separate, Apart
      <3>2. place'[i] = row /\ \A j \in Items : j # i => place'[j] = place[j]
        BY <2>2, <3>0 DEF Ranges, InputOK, PlaceOK
      <3>3. CASE a # i /\ b # i
        BY <3>1, <3>2, <3>3 DEF Separate
      <3>4. CASE a = i
        BY <2>2, <3>1, <3>2, <3>4 DEF Fits
      <3>5. CASE b = i
        <4>1. Apart(b, a)
          BY <2>2, <3>1, <3>2, <3>5 DEF Fits
        <4>2. start[a] \in Int /\ end[a] \in Int /\ start[b] \in Int /\ end[b] \in Int
              /\ start[a] <= end[a] /\ start[b] <= end[b]
          BY DEF Ranges, InputOK, PlaceOK
        <4> QED BY <4>1, <4>2 DEF Apart
      <3> QED BY <3>3, <3>4, <3>5
    <2> QED BY <1>1, <2>1, <2>2, TryCases
  <1>2. CASE NextRow
    BY <1>2 DEF NextRow, Separate, Apart
  <1>3. CASE UNCHANGED vars
    BY <1>3 DEF Separate, Apart
  <1> QED BY <1>1, <1>2, <1>3 DEF Next

(* A block that is passed over has something in its way.                   *)
LEMMA ScannedStep ==
  ASSUME Ranges, Scanned, [Next]_vars
  PROVE  Scanned'
  <1> USE DEF vars, input
  <1>1. CASE Try
    <2> DEFINE i == order[pos]
    <2>0. i \in Items /\ pos \in 1..N /\ pos' = pos + 1 /\ ~done
          /\ UNCHANGED <<start, end, order, row, done>>
      BY <1>1, TryCases
    <2>1. SUFFICES ASSUME NEW a \in Items, a < pos + 1, place'[order[a]] = -1
                   PROVE  \E j \in Items : place'[j] = row /\ ~Apart(order[a], j)
      BY <2>0 DEF Scanned, Apart
    <2>2. order[a] \in Items
      BY DEF Ranges, InputOK, PlaceOK
    <2>3. CASE UNCHANGED place
      <3>1. CASE a < pos
        BY <2>0, <2>1, <2>3, <3>1 DEF Scanned
      <3>2. CASE a = pos
        <4>1. ~Fits(i)
          BY <1>1, <2>0, <2>1, <2>3, <3>2, TryCases, TimelineRowsAssumption DEF Ranges, InputOK,
              PlaceOK
        <4> QED BY <2>3, <3>2, <4>1 DEF Fits
      <3> QED BY <2>0, <2>1, <3>1, <3>2 DEF Items
    <2>4. CASE place[i] = -1 /\ place' = [place EXCEPT ![i] = row]
      <3>1. place'[i] = row /\ \A j \in Items : j # i => place'[j] = place[j]
        BY <2>0, <2>4 DEF Ranges, InputOK, PlaceOK
      <3>2. order[a] # i /\ a < pos
        <4>1. row # -1
          BY TimelineRowsAssumption DEF Ranges, InputOK, PlaceOK
        <4>2. order[a] # i
          BY <2>1, <3>1, <4>1
        <4> QED BY <2>0, <2>1, <4>2 DEF Items
      <3>3. PICK j \in Items : place[j] = row /\ ~Apart(order[a], j)
        BY <2>0, <2>1, <2>2, <3>1, <3>2 DEF Scanned
      <3> QED BY <2>4, <3>1, <3>3
    <2> QED BY <1>1, <2>3, <2>4, TryCases
  <1>2. CASE NextRow
    BY <1>2 DEF NextRow, Scanned, Ranges, InputOK, PlaceOK, Items
  <1>3. CASE UNCHANGED vars
    BY <1>3 DEF Scanned, Apart
  <1> QED BY <1>1, <1>2, <1>3 DEF Next

(* A row is left only when all that is not in it has something in its way. *)
LEMMA PackedStep ==
  ASSUME Ranges, Packed, Scanned, [Next]_vars
  PROVE  Packed'
  <1> USE DEF vars, input
  <1>1. CASE Try
    <2> DEFINE i == order[pos]
    <2>0. i \in Items /\ UNCHANGED <<start, end, row>>
      BY <1>1, TryCases
    <2>1. SUFFICES ASSUME NEW a \in Items, NEW r \in FirstRow..(row - 1),
                          place'[a] = -1 \/ place'[a] > r
                   PROVE  \E j \in Items : place'[j] = r /\ ~Apart(a, j)
      BY <2>0 DEF Packed, Apart
    <2>2. CASE UNCHANGED place
      BY <2>1, <2>2 DEF Packed
    <2>3. CASE place[i] = -1 /\ place' = [place EXCEPT ![i] = row]
      <3>1. \A j \in Items : j # i => place'[j] = place[j]
        BY <2>0, <2>3 DEF Ranges, InputOK, PlaceOK
      <3>2. place[a] = -1 \/ place[a] > r
        BY <2>1, <2>3, <3>1
      <3>3. PICK j \in Items : place[j] = r /\ ~Apart(a, j)
        BY <2>1, <3>2 DEF Packed
      <3>4. j # i
        BY <2>3, <3>3, TimelineRowsAssumption DEF Ranges, InputOK, PlaceOK
      <3> QED BY <3>1, <3>3, <3>4
    <2> QED BY <1>1, <2>2, <2>3, TryCases, Zenon
  <1>2. CASE NextRow
    <2>0. ~done /\ pos = N + 1 /\ row' = row + 1 /\ UNCHANGED <<input, place>>
      BY <1>2, TimelineRowsAssumption DEF NextRow, Ranges, InputOK, PlaceOK
    <2>1. SUFFICES ASSUME NEW a \in Items, NEW r \in FirstRow..row,
                          place[a] = -1 \/ place[a] > r
                   PROVE  \E j \in Items : place[j] = r /\ ~Apart(a, j)
      BY <2>0, TimelineRowsAssumption DEF Packed, Apart, Ranges, InputOK, PlaceOK
    <2>2. CASE r = row
      <3>1. place[a] = -1
        BY <2>1, <2>2, TimelineRowsAssumption DEF Ranges, InputOK, PlaceOK
      <3>2. PICK k \in Items : order[k] = a
        BY DEF Ranges, InputOK, PlaceOK, Permutation
      <3>3. k < pos
        BY <2>0, TimelineRowsAssumption DEF Items
      <3> QED BY <2>0, <2>2, <3>1, <3>2, <3>3 DEF Scanned
    <2>3. CASE r # row
      BY <2>1, <2>3, TimelineRowsAssumption DEF Packed, Ranges, InputOK, PlaceOK
    <2> QED BY <2>2, <2>3
  <1>3. CASE UNCHANGED vars
    BY <1>3 DEF Packed, Apart
  <1> QED BY <1>1, <1>2, <1>3 DEF Next

(* The first block that remains fits into an empty row.                    *)
LEMMA FilledStep ==
  ASSUME Ranges, Filled, Scanned, [Next]_vars
  PROVE  Filled'
  <1> USE DEF vars, input
  <1>1. CASE Try
    <2> DEFINE i == order[pos]
    <2>0. i \in Items /\ UNCHANGED <<row, done>>
      BY <1>1, TryCases
    <2>1. CASE UNCHANGED place
      BY <2>0, <2>1 DEF Filled
    <2>2. CASE place[i] = -1 /\ place' = [place EXCEPT ![i] = row]
      <3>1. place'[i] = row /\ \A j \in Items : j # i => place'[j] = place[j]
        BY <2>0, <2>2 DEF Ranges, InputOK, PlaceOK
      <3>2. \A r \in FirstRow..(row - 1) : \E j \in Items : place'[j] = r
        <4>1. TAKE r \in FirstRow..(row - 1)
        <4>2. PICK j \in Items : place[j] = r
          BY <4>1 DEF Filled
        <4>3. j # i
          BY <2>2, <4>2, TimelineRowsAssumption DEF Ranges, InputOK, PlaceOK
        <4> QED BY <3>1, <4>2, <4>3
      <3> QED BY <2>0, <3>1, <3>2 DEF Filled
    <2> QED BY <1>1, <2>1, <2>2, TryCases, Zenon
  <1>2. CASE NextRow
    <2>0. ~done /\ pos = N + 1 /\ row' = row + 1 /\ UNCHANGED <<input, place>>
      BY <1>2, TimelineRowsAssumption DEF NextRow, Ranges, InputOK, PlaceOK
    <2>1. done' <=> \A i \in Items : place[i] # -1
      BY <1>2 DEF NextRow
    <2>2. \E i \in Items : place[i] = row
      <3>1. PICK i \in Items : place[i] \in {-1, row}
        BY <2>0 DEF Filled
      <3>2. CASE place[i] = -1
        <4>1. PICK k \in Items : order[k] = i
          BY DEF Ranges, InputOK, PlaceOK, Permutation
        <4>2. k < pos
          BY <2>0, TimelineRowsAssumption DEF Items
        <4> QED BY <2>0, <3>2, <4>1, <4>2 DEF Scanned
      <3> QED BY <3>1, <3>2
    <2>3. \A r \in FirstRow..(row' - 1) : \E i \in Items : place'[i] = r
      BY <2>0, <2>2, TimelineRowsAssumption DEF Filled, Ranges, InputOK, PlaceOK
    <2>4. ~done' => \E i \in Items : place'[i] \in {-1, row'}
      BY <2>0, <2>1
    <2> QED BY <2>3, <2>4 DEF Filled
  <1>3. CASE UNCHANGED vars
    BY <1>3 DEF Filled
  <1> QED BY <1>1, <1>2, <1>3 DEF Next

(* The height of a row covers every block placed in it.                    *)
LEMMA HighEnoughStep ==
  ASSUME Ranges, HighEnough, [Next]_vars
  PROVE  HighEnough'
  <1> USE TimelineRowsAssumption DEF vars, input, HighEnough, Ranges, InputOK, PlaceOK
  <1>1. CASE Try
    <2> DEFINE i == order[pos]
    <2>0. i \in Items /\ UNCHANGED <<devrows, row, lines>>
      BY <1>1, TryCases
    <2>1. CASE UNCHANGED <<place, height>>
      BY <2>0, <2>1
    <2>2. CASE /\ place' = [place EXCEPT ![i] = row]
               /\ height' = IF devrows[i] > height THEN devrows[i] ELSE height
      <3>1. place'[i] = row /\ \A j \in Items : j # i => place'[j] = place[j]
        BY <2>0, <2>2
      <3>2. height' >= height /\ height' >= devrows[i]
        BY <2>0, <2>2
      <3>3. ASSUME NEW j \in Items, place'[j] = row
            PROVE  devrows[j] <= height'
        <4>1. devrows[j] \in Nat /\ height' \in Int
          BY <2>0, <2>2
        <4>2. CASE j = i
          BY <3>2, <4>2
        <4>3. CASE j # i
          BY <3>1, <3>2, <3>3, <4>1, <4>3
        <4> QED BY <4>2, <4>3
      <3>4. ASSUME NEW j \in Items, place'[j] \in FirstRow..(row - 1)
            PROVE  devrows[j] <= lines[place'[j]]
        <4>1. j # i
          BY <3>1, <3>4
        <4> QED BY <3>1, <3>4, <4>1
      <3>5. height' >= 1
        BY <2>0, <3>2, <2>2
      <3> QED BY <2>0, <3>3, <3>4, <3>5
    <2> QED BY <1>1, <2>1, <2>2, TryCases, Zenon
  <1>2. CASE NextRow
    <2>1. row' = row + 1 /\ height' = 1 /\ UNCHANGED <<input, place>>
      BY <1>2 DEF NextRow
    <2>2. \A r \in FirstRow..row : lines'[r] = IF r = row THEN height ELSE lines[r]
      BY <1>2 DEF NextRow
    <2>3. \A j \in Items : place[j] \in FirstRow..row => devrows[j] <= lines'[place[j]]
      BY <2>2
    <2>4. \A j \in Items : place[j] # row + 1
      <3>1. TAKE j \in Items
      <3>2. place[j] = -1 \/ place[j] \in FirstRow..row
        BY <3>1
      <3> QED BY <3>2
    <2> QED BY <2>1, <2>3, <2>4
  <1>3. CASE UNCHANGED vars
    BY <1>3
  <1> QED BY <1>1, <1>2, <1>3 DEF Next

(* The call returns only when every block has a row.                       *)
LEMMA FinishedStep ==
  ASSUME Ranges, Finished, [Next]_vars
  PROVE  Finished'
  <1> USE TimelineRowsAssumption DEF vars, input, Finished, Ranges, InputOK, PlaceOK
  <1>1. CASE Try
    BY <1>1, TryCases
  <1>2. CASE NextRow
    <2>1. row' = row + 1 /\ UNCHANGED place /\ (done' <=> \A i \in Items : place[i] # -1)
      BY <1>2 DEF NextRow
    <2> QED BY <2>1
  <1>3. CASE UNCHANGED vars
    BY <1>3
  <1> QED BY <1>1, <1>2, <1>3 DEF Next

(* The invariant that carries the theorem below.                           *)
THEOREM RowsInductive == Spec => []IInv
  <1>1. Init => IInv
    <2> SUFFICES ASSUME Init PROVE IInv
      OBVIOUS
    <2> USE TimelineRowsAssumption
    <2>1. /\ start \in [Items -> Times] /\ end \in [Items -> Times]
          /\ \A i \in Items : start[i] <= end[i]
          /\ devrows \in [Items -> Heights] /\ order \in [Items -> Items] /\ Permutation(order)
      BY Zenon DEF Init
    <2>2. /\ place = [i \in Items |-> -1] /\ row = FirstRow /\ pos = 1 /\ height = 1
          /\ lines = [r \in {} |-> 0] /\ done = (N = 0)
      BY Zenon DEF Init
    <2>a. /\ done => N = 0
          /\ ~done => N # 0
      BY <2>2, Zenon
    <2>3. InputOK
      BY <2>1 DEF InputOK
    <2>4. PlaceOK
      BY <2>2 DEF PlaceOK
    <2>5. done \in BOOLEAN
      BY <2>2, Zenon
    <2>6. Separate /\ Packed /\ Scanned
      BY <2>2 DEF Separate, Packed, Scanned, Items
    <2>7. Filled
      <3>1. ~done => 1 \in Items
        BY <2>a DEF Items
      <3> QED BY <2>2, <3>1 DEF Filled
    <2>8. HighEnough
      BY <2>2 DEF HighEnough
    <2>9. Finished
      BY <2>a DEF Finished, Items
    <2> QED BY <2>3, <2>4, <2>5, <2>6, <2>7, <2>8, <2>9 DEF IInv, TypeOK, Ranges
  <1>2. IInv /\ [Next]_vars => IInv'
    BY InputStep, PlaceStep, DoneStep, SeparateStep, PackedStep, ScannedStep, FilledStep,
       HighEnoughStep, FinishedStep, Zenon DEF IInv, TypeOK, Ranges
  <1> QED BY <1>1, <1>2, PTL DEF Spec

(* "with no entry overlapping", for every timeline                         *)
THEOREM NeverOverlaps == Spec => []NoOverlap
  <1>1. IInv => NoOverlap
    <2> SUFFICES ASSUME IInv, NEW i \in Items, NEW j \in Items, Apart(i, j)
                 PROVE  ~Overlap(i, j)
      BY DEF IInv, Separate, NoOverlap
    <2>1. start[i] \in Int /\ end[i] \in Int /\ start[j] \in Int /\ end[j] \in Int
      BY DEF IInv, TypeOK, Ranges, InputOK
    <2> QED BY <2>1 DEF Apart, Overlap
  <1> QED BY <1>1, RowsInductive, PTL

-----------------------------------------------------------------------------
(* BootGraph: the files are safe as long as nothing that was put away is    *)
(* overwritten by another call.                                             *)

(* The places where the grub file of the machine is away                   *)
Away == {"open", "write", "update", "remove", "putback"}

(* What GrubKept needs to be inductive: between two calls the file is in   *)
(* its place, or, after a kill, still put away.                            *)
GrubInv ==
  /\ ~regrub => temp = "orig" \/ (temp = "none" /\ grub = "orig" /\ pc \notin Away)
  /\ ~killed => IF pc \in Away THEN temp = "orig" ELSE temp = "none" /\ grub = "orig"
  /\ ~killed => ~regrub

(* Every step of bootgraph, of the user and of the machine keeps GrubInv. *)
LEMMA GrubStep == GrubInv /\ [BootNext]_bootvars => GrubInv'
  <1> SUFFICES ASSUME GrubInv, [BootNext]_bootvars PROVE GrubInv'
    OBVIOUS
  <1> USE DEF GrubInv, Away
  <1>1. CASE Start
    BY <1>1 DEF Start, boot, tabs, marks
  <1>2. CASE User
    <2> USE DEF Goto, Rest, Error, boot, tabs
    <2>1. CASE MoveAway
      BY <2>1 DEF MoveAway
    <2>2. CASE OpenGrub
      BY <2>2 DEF OpenGrub
    <2>3. CASE WriteGrub
      BY <2>3 DEF WriteGrub
    <2>4. CASE CallUpdate
      BY <2>4 DEF CallUpdate
    <2>5. CASE Remove
      BY <2>5 DEF Remove
    <2>6. CASE PutBack
      BY <2>6 DEF PutBack
    <2>7. CASE Backup
      BY <2>7 DEF Backup
    <2>8. CASE OpenTab
      BY <2>8 DEF OpenTab, UndoTab
    <2>9. CASE WriteTab
      BY <2>9 DEF WriteTab, UndoTab
    <2>10. CASE CallCrontab
      BY <2>10 DEF CallCrontab, UndoTab
    <2>11. CASE CallReboot
      BY <2>11 DEF CallReboot, marks
    <2> QED
      BY <1>2, <2>1, <2>2, <2>3, <2>4, <2>5, <2>6, <2>7, <2>8, <2>9, <2>10, <2>11 DEF User
  <1>3. CASE Boot
    BY <1>3 DEF Boot, boot, marks
  <1>4. CASE Job
    <2>1. UNCHANGED <<grub, temp, pc, killed, regrub>>
      BY <1>4 DEF Job, JobStart, JobCron, JobGrub, JobLogs, JobRest, marks
    <2> QED BY <2>1
  <1>5. CASE Restart
    BY <1>5 DEF Restart, boot
  <1>6. CASE Kill
    BY <1>6 DEF Kill, boot
  <1>7. CASE UNCHANGED bootvars
    BY <1>7 DEF bootvars, boot, marks
  <1> QED BY <1>1, <1>2, <1>3, <1>4, <1>5, <1>6, <1>7 DEF BootNext

(* Every end of bootgraph but a kill leaves the grub file in its place,    *)
(* and it is lost only when a call after a kill puts another one away.     *)
THEOREM GrubIsKept == BootSpec => []GrubKept
  <1>1. BootInit => GrubInv
    BY DEF BootInit, GrubInv, Away
  <1>2. GrubInv => GrubKept
    BY DEF GrubInv, GrubKept, Away
  <1> QED BY <1>1, <1>2, GrubStep, PTL DEF BootSpec

-----------------------------------------------------------------------------
(* As long as no backup was overwritten, the backup holds the user's       *)
(* crontab, or there is none and the crontab itself is the user's.         *)
CronInv ==
  /\ users \subseteq {"user"}
  /\ ~cron.there => cron.lines = {}
  /\ ~recron => IF back.there THEN back.lines = users ELSE cron.lines = users

(* Every step of bootgraph, of the user and of the machine keeps CronInv. *)
LEMMA CronStep == CronInv /\ [BootNext]_bootvars => CronInv'
  <1> SUFFICES ASSUME CronInv, [BootNext]_bootvars PROVE CronInv'
    OBVIOUS
  <1> USE DEF CronInv
  <1>1. CASE Start
    BY <1>1 DEF Start, boot, tabs, marks
  <1>2. CASE User
    <2>1. users' = users
      BY <1>2 DEF User, MoveAway, OpenGrub, WriteGrub, CallUpdate, Remove, PutBack, Backup,
                  OpenTab, WriteTab, CallCrontab, CallReboot, Rest
    <2>2. CASE UNCHANGED <<cron, back, recron>>
      BY <2>1, <2>2
    <2>3. CASE Backup
      <3>1. CASE UNCHANGED <<cron, back, recron>>
        BY <2>1, <3>1
      <3>2. CASE /\ back' = (IF cron.there THEN cron ELSE Tab({})) /\ cron' = NoTab
                 /\ recron' = (recron \/ back.there)
        <4>1. ~recron' => cron.lines = users
          BY <3>2
        <4>2. back'.lines = cron.lines
          BY <3>2 DEF Tab
        <4>3. ~cron'.there /\ cron'.lines = {}
          BY <3>2 DEF NoTab
        <4>4. CASE cron.there
          BY <2>1, <3>2, <4>1, <4>3, <4>4
        <4>5. CASE ~cron.there
          <5>1. back'.there
            BY <3>2, <4>5 DEF Tab
          <5> QED BY <2>1, <4>1, <4>2, <4>3, <5>1
        <4> QED BY <4>4, <4>5
      <3> QED BY <2>3, <3>1, <3>2 DEF Backup, tabs
    <2>4. CASE UNCHANGED recron /\ back.there /\ cron' = back /\ back' = NoTab
      BY <2>1, <2>4 DEF NoTab
    <2>5. CASE UNCHANGED <<back, recron>> /\ back.there /\ \E ls : cron' = Tab(ls)
      BY <2>1, <2>5 DEF Tab
    <2>6. CASE OpenTab
      BY <2>2, <2>4, <2>5, <2>6 DEF OpenTab, UndoTab, tabs
    <2>7. CASE WriteTab
      BY <2>2, <2>4, <2>5, <2>7 DEF WriteTab, UndoTab, tabs
    <2>8. CASE CallCrontab
      BY <2>2, <2>4, <2>8 DEF CallCrontab, UndoTab, tabs
    <2>9. CASE MoveAway \/ OpenGrub \/ WriteGrub \/ CallUpdate \/ Remove \/ PutBack \/ CallReboot
      BY <2>2, <2>9 DEF MoveAway, OpenGrub, WriteGrub, CallUpdate, Remove, PutBack, CallReboot,
                        tabs, marks
    <2> QED BY <1>2, <2>3, <2>6, <2>7, <2>8, <2>9 DEF User
  <1>3. CASE Boot
    BY <1>3 DEF Boot, tabs, marks
  <1>4. CASE Job
    <2>1. UNCHANGED <<users, recron>>
      BY <1>4 DEF Job, JobStart, JobCron, JobGrub, JobLogs, JobRest, marks
    <2>2. UNCHANGED <<cron, back>> \/ (back.there /\ cron' = back /\ back' = NoTab)
      BY <1>4 DEF Job, JobStart, JobCron, JobGrub, JobLogs, tabs
    <2> QED BY <2>1, <2>2 DEF NoTab
  <1>5. CASE Restart
    BY <1>5 DEF Restart, tabs
  <1>6. CASE Kill
    BY <1>6 DEF Kill, tabs
  <1>7. CASE UNCHANGED bootvars
    BY <1>7 DEF bootvars, tabs, marks
  <1> QED BY <1>1, <1>2, <1>3, <1>4, <1>5, <1>6, <1>7 DEF BootNext

(* The user's crontab is never lost, and the job never stays in it without *)
(* the backup that takes it out, but for an overwritten backup.            *)
THEOREM CronIsKept == BootSpec => []CronKept
  <1>1. BootInit => CronInv
    BY DEF BootInit, CronInv, Tab, NoTab
  <1>2. CronInv => CronKept
    BY DEF CronInv, CronKept
  <1> QED BY <1>1, <1>2, CronStep, PTL DEF BootSpec

=============================================================================
