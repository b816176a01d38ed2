------------------------- MODULE GoogleDriveProofs -------------------------
(***************************************************************************)
(* The lock of GoogleDrive for any number of processes, calls and retries. *)
(***************************************************************************)
EXTENDS GoogleDrive, FiniteSetTheorems, FunctionTheorems, TLAPS

(* What Append does to a sequence of anything.                             *)
LEMMA AppendAny ==
  ASSUME NEW S, NEW s \in Seq(S), NEW e
  PROVE  /\ Append(s, e) \in Seq(S \cup {e})
         /\ DOMAIN Append(s, e) = 1..(Len(s) + 1) /\ DOMAIN s = 1..Len(s) /\ Len(s) \in Nat
         /\ \A i \in DOMAIN s : Append(s, e)[i] = s[i]
         /\ Append(s, e)[Len(s) + 1] = e
  <1>1. s \in Seq(S \cup {e})
    OBVIOUS
  <1> QED BY <1>1

(* There is always a file that nobody has open: there are more of them     *)
(* than processes.                                                         *)
LEMMA FreeInode ==
  ASSUME NEW p \in Proc, fd \in [Proc -> Inode \cup {NoFile}]
  PROVE  \E f \in Inode : \A q \in Proc \ {p} : fd[q] # f
  <1> SUFFICES ASSUME \A f \in Inode : \E q \in Proc \ {p} : fd[q] = f PROVE FALSE
    OBVIOUS
  <1> DEFINE user == [f \in Inode |-> CHOOSE q \in Proc \ {p} : fd[q] = f]
  <1>1. \A f \in Inode : user[f] \in Proc /\ fd[user[f]] = f
    OBVIOUS
  <1>2. user \in Injection(Inode, Proc)
    <2>1. user \in [Inode -> Proc]
      BY <1>1
    <2>2. \A f, g \in Inode : user[f] = user[g] => f = g
      BY <1>1
    <2> HIDE DEF user
    <2> QED BY <2>1, <2>2, Fun_IsInj
  <1>3. Cardinality(Proc) \in Nat /\ IsFiniteSet(Proc)
    BY GoogleDriveAssumption, FS_CardinalityType
  <1>4. Cardinality(Inode) = Cardinality(Proc) + 1
    BY <1>3, FS_Interval DEF Inode
  <1>5. Cardinality(Inode) <= Cardinality(Proc)
    BY <1>2, <1>3, FS_Injection
  <1> QED BY <1>3, <1>4, <1>5

-----------------------------------------------------------------------------

DriveInv == \E S : drive \in Seq(S)

(* A sequence of folders stays one when one is made.                      *)
LEMMA AppendKeeps ==
  ASSUME DriveInv, NEW e, drive' = Append(drive, e)
  PROVE  DriveInv'
  <1>1. PICK S : drive \in Seq(S)
    BY DEF DriveInv
  <1>2. drive' \in Seq(S \cup {e})
    BY <1>1, AppendAny
  <1> QED BY <1>2 DEF DriveInv

(* Who has the file open: the steps that take or drop it.                  *)
LEMMA OpenStep ==
  ASSUME OpenInv, [Next]_vars
  PROVE  OpenInv'
  <1> USE DEF OpenInv, HasFile, Owner, Holding, PCs, Goto, local
  <1>1. ASSUME NEW p \in Proc, Begin(p) PROVE OpenInv'
    <2>1. PICK path \in Paths, readonly \in BOOLEAN : Call(p, path, readonly)
      BY <1>1, Zenon DEF Begin
    <2> QED BY <2>1 DEF Call
  <1>2. ASSUME NEW p \in Proc, Open(p) PROVE OpenInv'
    <2>1. lockfile' \in Inode
      BY <1>2, FreeInode DEF Open, NoFile, Inode
    <2> QED BY <1>2, <2>1 DEF Open
  <1>3. ASSUME NEW p \in Proc, Ends(p) PROVE OpenInv'
    BY <1>3 DEF Ends
  <1>4. ASSUME NEW p \in Proc, Flock(p) PROVE OpenInv'
    BY <1>4, <1>3 DEF Flock
  <1>5. ASSUME NEW p \in Proc, Walk(p) PROVE OpenInv'
    BY <1>5 DEF Walk, Return
  <1>6. ASSUME NEW p \in Proc, List(p) PROVE OpenInv'
    BY <1>6 DEF List, Found, Return
  <1>7. ASSUME NEW p \in Proc, Create(p) PROVE OpenInv'
    BY <1>7 DEF Create, Found
  <1>8. ASSUME NEW p \in Proc, Close(p) PROVE OpenInv'
    BY <1>8 DEF Close
  <1>9. ASSUME NEW p \in Proc, Remove(p) PROVE OpenInv'
    BY <1>9, <1>3 DEF Remove
  <1>10. ASSUME NEW p \in Proc, ApiRaises(p) PROVE OpenInv'
    BY <1>10, <1>3 DEF ApiRaises
  <1>11. CASE UNCHANGED vars
    BY <1>11 DEF vars
  <1> QED
    BY <1>1, <1>2, <1>3, <1>4, <1>5, <1>6, <1>7, <1>8, <1>9, <1>10, <1>11 DEF Next, Step, Kill

(* Until the file is torn from somebody, one process owns the lock.        *)
LEMMA OwnerStep ==
  ASSUME OpenInv, OwnerInv, [Next]_vars
  PROVE  OwnerInv'
  <1> USE DEF OpenInv, OwnerInv, HasFile, Owner, Holding, PCs, Goto, local
  <1>1. ASSUME NEW p \in Proc, Begin(p) PROVE OwnerInv'
    <2>1. PICK path \in Paths, readonly \in BOOLEAN : Call(p, path, readonly) /\ UNCHANGED torn
      BY <1>1, Zenon DEF Begin
    <2> QED BY <2>1 DEF Call
  <1>2. ASSUME NEW p \in Proc, Open(p), UNCHANGED torn PROVE OwnerInv'
    BY <1>2 DEF Open, NoFile, Inode
  <1>3. ASSUME NEW p \in Proc, Ends(p), UNCHANGED torn PROVE OwnerInv'
    BY <1>3 DEF Ends
  <1>4. ASSUME NEW p \in Proc, Flock(p), UNCHANGED torn PROVE OwnerInv'
    BY <1>4, <1>3 DEF Flock, Locked
  <1>5. ASSUME NEW p \in Proc, Walk(p), UNCHANGED torn PROVE OwnerInv'
    BY <1>5 DEF Walk, Return
  <1>6. ASSUME NEW p \in Proc, List(p), UNCHANGED torn PROVE OwnerInv'
    BY <1>6 DEF List, Found, Return
  <1>7. ASSUME NEW p \in Proc, Create(p), UNCHANGED torn PROVE OwnerInv'
    BY <1>7 DEF Create, Found
  <1>8. ASSUME NEW p \in Proc, Close(p), UNCHANGED torn PROVE OwnerInv'
    BY <1>8 DEF Close
  <1>9. ASSUME NEW p \in Proc, Remove(p) PROVE OwnerInv'
    <2> SUFFICES ASSUME ~torn' PROVE OwnerInv'
      OBVIOUS
    <2>1. ~torn /\ ~\E q \in Proc : pc[q] # "open" /\ fd[q] # NoFile /\ fd[q] = lockfile
      BY <1>9 DEF Remove
    <2>2. \A q \in Proc : ~HasFile(q)
      BY <2>1 DEF NoFile, Inode
    <2> QED BY <1>9, <2>1, <2>2 DEF Remove, Ends
  <1>10. ASSUME NEW p \in Proc, ApiRaises(p), UNCHANGED torn PROVE OwnerInv'
    BY <1>10, <1>3 DEF ApiRaises
  <1>11. CASE UNCHANGED vars
    BY <1>11 DEF vars
  <1> QED
    BY <1>1, <1>2, <1>3, <1>4, <1>5, <1>6, <1>7, <1>8, <1>9, <1>10, <1>11 DEF Next, Step, Kill

(* No folder comes to be but by the process that owns the lock, and after  *)
(* it has looked: other owners would have looked too early.                *)
LEMMA FolderStep ==
  ASSUME DriveInv, OpenInv, OwnerInv, FolderInv, [Next]_vars
  PROVE  DriveInv' /\ FolderInv'
  <1> USE DEF FolderInv, NoDuplicateFolder, Matches, Goto, local
  <1> PICK S : drive \in Seq(S)
    BY DEF DriveInv
  <1>0. DOMAIN call = Proc /\ DOMAIN at = Proc /\ pc \in [Proc -> PCs]
    BY DEF OpenInv
  <1> DEFINE Kept == /\ UNCHANGED drive /\ (~lost' /\ ~torn' => ~lost /\ ~torn)
                     /\ \A q \in Proc : pc'[q] = "create" =>
                          /\ pc[q] = "create" /\ at'[q] = at[q] /\ call'[q] = call[q]
  <1>1. ASSUME Kept PROVE DriveInv' /\ FolderInv'
    BY <1>1 DEF DriveInv
  <1>2. ASSUME NEW p \in Proc, Begin(p) PROVE Kept
    <2>1. PICK path \in Paths, readonly \in BOOLEAN : Call(p, path, readonly)
      BY <1>2, Zenon DEF Begin
    <2> QED BY <1>0, <1>2, <2>1 DEF Call, Begin
  <1>3. ASSUME NEW p \in Proc, Open(p) \/ Walk(p) \/ Close(p), UNCHANGED <<lost, torn>> PROVE Kept
    BY <1>0, <1>3 DEF Open, Walk, Return, Close
  <1>4. ASSUME NEW p \in Proc, Ends(p), ~lost' /\ ~torn' => ~lost /\ ~torn PROVE Kept
    BY <1>0, <1>4 DEF Ends
  <1>5. ASSUME NEW p \in Proc, Flock(p), UNCHANGED <<lost, torn>> PROVE Kept
    BY <1>0, <1>5, <1>4 DEF Flock
  <1>6. ASSUME NEW p \in Proc, Remove(p), UNCHANGED lost PROVE Kept
    <2>1. ~torn' => ~torn
      BY <1>6 DEF Remove
    <2> QED BY <1>0, <1>6, <2>1, <1>4 DEF Remove
  <1>7. ASSUME NEW p \in Proc, List(p), UNCHANGED <<lost, torn>> PROVE DriveInv' /\ FolderInv'
    <2>1. CASE UNCHANGED drive /\ pc'[p] # "create"
      BY <1>0, <1>1, <1>7, <2>1 DEF List, Found, Return
    <2>2. CASE Matches(p) = {} /\ pc' = [pc EXCEPT ![p] = "create"] /\ UNCHANGED <<drive, at,
                                                                                   call>>
      BY <1>0, <1>7, <2>2 DEF DriveInv
    <2> QED BY <1>0, <1>7, <2>1, <2>2 DEF List, Found, Return
  <1>8. ASSUME NEW p \in Proc, Create(p), UNCHANGED <<lost, torn>> PROVE DriveInv' /\ FolderInv'
    <2> DEFINE new == [parent |-> at[p].pid, name |-> call[p].path[at[p].k]]
    <2>1. drive' = Append(drive, new) /\ pc[p] = "create" /\ pc'[p] = "walk"
          /\ \A q \in Proc : q # p => pc'[q] = pc[q] /\ at'[q] = at[q] /\ call'[q] = call[q]
      BY <1>0, <1>8 DEF Create, Found, NewFolder
    <2>2. DriveInv'
      BY <2>1, AppendKeeps
    <2>3. SUFFICES ASSUME ~lost, ~torn PROVE FolderInv'
      BY <1>8, <2>2
    <2>4. \A i \in DOMAIN drive : drive[i] # new
      BY <2>1, <2>3
    <2>5. NoDuplicateFolder'
      BY <2>1, <2>3, <2>4, AppendAny
    <2>6. \A q \in Proc : pc[q] = "create" => q = p
      BY <2>1, <2>3 DEF OpenInv, OwnerInv, Owner, Holding
    <2>7. \A q \in Proc : pc'[q] # "create"
      BY <2>1, <2>6
    <2> QED BY <2>5, <2>7
  <1>9. ASSUME NEW p \in Proc, ApiRaises(p), UNCHANGED torn PROVE DriveInv' /\ FolderInv'
    <2>1. CASE Ends(p) /\ UNCHANGED lost
      BY <1>1, <1>4, <1>9, <2>1
    <2>2. CASE UNCHANGED <<drive, lost, pc, at, call>>
      BY <1>1, <1>9, <2>2
    <2>3. CASE drive' = NewFolder(p) /\ lost'
      <3>1. DriveInv'
        BY <2>3, AppendKeeps DEF NewFolder
      <3> QED BY <2>3, <3>1
    <2> QED BY <1>9, <2>1, <2>2, <2>3 DEF ApiRaises
  <1>10. CASE UNCHANGED vars
    BY <1>1, <1>10 DEF vars
  <1> QED
    BY <1>1, <1>2, <1>3, <1>4, <1>5, <1>6, <1>7, <1>8, <1>9, <1>10 DEF Next, Step, Kill

(* The invariant holds in every state.                                     *)
THEOREM Inductive == Spec => []IInv
  <1>1. Init => IInv /\ DriveInv
    <2> SUFFICES ASSUME Init PROVE IInv /\ DriveInv
      OBVIOUS
    <2>1. DriveInv
      BY DEF Init, DriveInv
    <2>2. IInv
      BY DEF Init, IInv, OpenInv, OwnerInv, FolderInv, NoDuplicateFolder, HasFile, Owner,
         Holding, PCs, Inode
    <2> QED BY <2>1, <2>2
  <1>2. IInv /\ DriveInv /\ [Next]_vars => (IInv /\ DriveInv)'
    BY OpenStep, OwnerStep, FolderStep DEF IInv
  <1> QED BY <1>1, <1>2, PTL DEF Spec

(* mutex_lock keeps all but one process out until an owner removes the     *)
(* file another one has opened, and until a reply is lost no folder is     *)
(* made twice, for any number of processes, calls and retries.             *)
THEOREM LockHolds == Spec => []LockHoldsOnce
  <1>1. IInv => LockHoldsOnce
    BY DEF IInv, OwnerInv, FolderInv, LockHoldsOnce
  <1> QED BY <1>1, Inductive, PTL

-----------------------------------------------------------------------------
(* The ids.  PathOf is a recursive function: that there is one, and that     *)
(* more folders change no path, goes by induction over the ids.              *)

(* A set of natural numbers has a least element. *)
LEMMA NatMin ==
  ASSUME NEW S, S \subseteq Nat, S # {}
  PROVE  \E m \in S : \A k \in S : m <= k
  <1>1. PICK n \in S : TRUE
    OBVIOUS
  <1> DEFINE T == {0..k : k \in {j \in S : j <= n}}
             R == StrictSubsetOrdering(0..n)
  <1>2. IsFiniteSet(0..n)
    BY FS_Interval
  <1>3. \A t \in T : t \in FiniteSubsetsOf(0..n)
    <2>1. \A k \in S : k <= n => 0..k \subseteq 0..n /\ IsFiniteSet(0..k)
      BY FS_Interval
    <2> QED BY <2>1 DEF FiniteSubsetsOf
  <1>4. 0..n \in T
    BY <1>1
  <1>5. IsWellFoundedOn(R, FiniteSubsetsOf(0..n))
    BY FS_StrictSubsetOrderingWellFounded
  <1>6. PICK t \in T : \A u \in T : <<u, t>> \notin R
    <2> HIDE DEF R, T
    <2>1. T \subseteq FiniteSubsetsOf(0..n) /\ T # {}
      BY <1>3, <1>4
    <2> QED BY <1>5, <2>1, WFMin, Zenon
  <1>7. PICK m \in S : m <= n /\ t = 0..m
    OBVIOUS
  <1>8. ASSUME NEW k \in S, k < m PROVE FALSE
    <2>1. 0..k \in T /\ 0..k \subseteq 0..n /\ t \subseteq 0..n
      BY <1>7, <1>8
    <2>2. 0..k \subseteq t /\ 0..k # t
      <3>1. m \in t /\ m \notin 0..k
        BY <1>7, <1>8
      <3> QED BY <1>7, <1>8, <3>1
    <2>3. <<0..k, t>> \in R
      BY <2>1, <2>2, Zenon DEF StrictSubsetOrdering
    <2> QED BY <2>1, <2>3, <1>6
  <1> QED BY <1>7, <1>8

(* Induction over the natural numbers, for a set. *)
LEMMA NatInd ==
  ASSUME NEW S, 0 \in S, \A n \in Nat : n \in S => n + 1 \in S
  PROVE  Nat \subseteq S
  <1>1. SUFFICES ASSUME Nat \ S # {} PROVE FALSE
    OBVIOUS
  <1>2. PICK m \in Nat \ S : \A k \in Nat \ S : m <= k
    BY <1>1, NatMin
  <1>3. m # 0 /\ m - 1 \in Nat /\ ~(m <= m - 1) /\ (m-1) + 1 = m
    BY <1>2
  <1>4. m - 1 \in S
    BY <1>2, <1>3
  <1> QED BY <1>2, <1>3, <1>4

Folders ==
  DriveInv /\ \A i \in DOMAIN drive : drive[i].parent \in 0..(i - 1)

PathStep(paths, id) ==
  IF id = Root THEN <<>> ELSE Append(paths[drive[id].parent], drive[id].name)

PathsTold == \A id \in 0..Len(drive) : PathOf[id] = PathStep(PathOf, id)

(* The path of a folder is its name after the path of the folder it is in. *)
LEMMA PathOfIs == Folders => PathsTold
  <1> SUFFICES ASSUME Folders PROVE PathsTold
    OBVIOUS
  <1> DEFINE n == Len(drive)
             Rec(f) == f = [id \in 0..n |-> PathStep(f, id)]
             Upto(k, f) == /\ f = [id \in 0..n |-> f[id]]
                           /\ \A id \in 0..n : id <= k => f[id] = PathStep(f, id)
             Defined == {k \in Nat : k <= n => \E f : Upto(k, f)}
  <1>1. n \in Nat /\ DOMAIN drive = 1..n
    BY DEF Folders, DriveInv
  <1>2. \A id \in 0..n : id = Root \/ drive[id].parent \in 0..(id - 1)
    BY <1>1 DEF Folders, Root
  <1> HIDE DEF n
  <1>3. 0 \in Defined
    <2>1. Upto(0, [id \in 0..n |-> <<>>])
      BY <1>1 DEF PathStep, Root
    <2> HIDE DEF Upto
    <2> QED BY <2>1
  <1>4. ASSUME NEW k \in Nat, k \in Defined PROVE k + 1 \in Defined
    <2>1. SUFFICES ASSUME k + 1 <= n PROVE \E f : Upto(k + 1, f)
      OBVIOUS
    <2>2. PICK f : Upto(k, f)
      <3> HIDE DEF Upto
      <3> QED BY <1>1, <1>4, <2>1
    <2> DEFINE v == PathStep(f, k + 1)
               g == [id \in 0..n |-> IF id = k + 1 THEN v ELSE f[id]]
    <2> HIDE DEF v
    <2>3. \A id \in 0..n : g[id] = IF id = k + 1 THEN v ELSE f[id]
      OBVIOUS
    <2>4. g = [id \in 0..n |-> g[id]]
      OBVIOUS
    <2> HIDE DEF g
    <2>5. ASSUME NEW id \in 0..n, id <= k + 1 PROVE g[id] = PathStep(g, id)
      <3>1. PathStep(g, id) = PathStep(f, id)
        <4>1. CASE id = Root
          BY <4>1 DEF PathStep
        <4>2. CASE id # Root
          <5>1. drive[id].parent \in 0..n /\ drive[id].parent # k + 1
            BY <1>1, <1>2, <2>5, <4>2 DEF Root
          <5>2. g[drive[id].parent] = f[drive[id].parent]
            BY <2>3, <5>1
          <5> QED BY <4>2, <5>2 DEF PathStep
        <4> QED BY <4>1, <4>2
      <3>2. CASE id = k + 1
        BY <2>3, <3>1, <3>2 DEF v
      <3>3. CASE id <= k
        BY <2>2, <2>3, <3>1, <3>3
      <3> QED BY <2>5, <3>2, <3>3
    <2>6. Upto(k + 1, g)
      BY <2>4, <2>5
    <2> HIDE DEF Upto
    <2> QED BY <2>6
  <1>5. PICK f : Upto(n, f)
    <2> HIDE DEF Upto
    <2>1. Nat \subseteq Defined
      <3> HIDE DEF Defined
      <3> QED BY <1>3, <1>4, NatInd
    <2> QED BY <1>1, <2>1
  <1>6. Rec(f)
    BY <1>1, <1>5
  <1>7. PathOf = CHOOSE h : Rec(h)
    BY DEF PathOf, PathStep, n
  <1>8. Rec(PathOf)
    <2> HIDE DEF Rec
    <2> QED BY <1>6, <1>7
  <1>9. \A id \in 0..n : PathOf[id] = PathStep(PathOf, id)
    <2> DEFINE h == PathOf
    <2>1. h = [id \in 0..n |-> PathStep(h, id)]
      BY <1>8
    <2> HIDE DEF h
    <2>2. \A id \in 0..n : h[id] = PathStep(h, id)
      BY <2>1
    <2> QED BY <2>2 DEF h
  <1> QED BY <1>9 DEF PathsTold, n

(* PathOf of the next state is told by the folders of the next state. *)
LEMMA PathOfNext ==
  Folders' => \A id \in 0..Len(drive)' : PathOf'[id] = PathStep(PathOf, id)'
  <1>1. Folders' => PathsTold'
    BY PathOfIs, PTL
  <1> QED BY <1>1 DEF PathsTold

(* Folders that come to be do not change the path of one that was there. *)
LEMMA PathStays ==
  ASSUME Folders, Folders', Len(drive) <= Len(drive)',
         \A i \in DOMAIN drive : drive'[i] = drive[i]
  PROVE  \A id \in 0..Len(drive) : PathOf'[id] = PathOf[id]
  <1> DEFINE n == Len(drive)
             Same == {k \in Nat : \A id \in 0..n : id <= k => PathOf'[id] = PathOf[id]}
  <1>1. n \in Nat /\ DOMAIN drive = 1..n /\ Len(drive)' \in Nat
    BY DEF Folders, DriveInv
  <1>2. \A id \in 0..n : id = Root \/ (id \in DOMAIN drive /\ drive[id].parent \in 0..(id - 1))
    BY <1>1 DEF Folders, Root
  <1>3. ASSUME NEW id \in 0..n
        PROVE  PathOf[id] = PathStep(PathOf, id) /\ PathOf'[id] = PathStep(PathOf, id)'
    BY <1>1, PathOfIs, PathOfNext DEF PathsTold
  <1> HIDE DEF n
  <1>4. 0 \in Same
    BY <1>1, <1>3 DEF PathStep, Root
  <1>5. ASSUME NEW k \in Nat, k \in Same PROVE k + 1 \in Same
    <2>1. SUFFICES ASSUME NEW id \in 0..n, id = k + 1 PROVE PathOf'[id] = PathOf[id]
      BY <1>1, <1>5
    <2>2. id # Root /\ id \in DOMAIN drive /\ drive[id].parent \in 0..n /\ drive[id].parent <= k
      BY <1>1, <1>2, <2>1 DEF Root
    <2>3. PathOf'[drive[id].parent] = PathOf[drive[id].parent] /\ drive'[id] = drive[id]
      BY <1>5, <2>2
    <2> QED BY <1>3, <2>2, <2>3 DEF PathStep
  <1>6. Nat \subseteq Same
    <2> HIDE DEF Same
    <2> QED BY <1>4, <1>5, NatInd
  <1> QED BY <1>1, <1>6 DEF n

(* The subdirs of a path. *)
LEMMA Subdirs ==
  ASSUME NEW path \in Paths
  PROVE  /\ Len(path) \in Nat /\ SubSeq(path, 1, 0) = <<>> /\ SubSeq(path, 1, Len(path)) = path
         /\ \A k \in 1..Len(path) : SubSeq(path, 1, k) = Append(SubSeq(path, 1, k - 1), path[k])
  <1>1. path \in Seq({path[i] : i \in DOMAIN path})
    BY GoogleDriveAssumption
  <1> DEFINE S == {path[i] : i \in DOMAIN path}
  <1> HIDE DEF S
  <1>2. path \in Seq(S)
    BY <1>1 DEF S
  <1>3. ASSUME NEW k \in 1..Len(path)
        PROVE  SubSeq(path, 1, k) = Append(SubSeq(path, 1, k - 1), path[k])
    <2>1. /\ SubSeq(path, 1, k - 1) \in Seq(S) /\ Len(SubSeq(path, 1, k - 1)) = k - 1
          /\ SubSeq(path, 1, k) \in Seq(S) /\ Len(SubSeq(path, 1, k)) = k
          /\ path[k] \in S
      BY <1>2
    <2> QED BY <1>2, <2>1
  <1> QED BY <1>2, <1>3

\* What a process knows of the drive.
Knows(q) ==
  /\ call[q].readonly \in BOOLEAN /\ call[q].made \in 0..Calls
  /\ at[q].k \in 1..(Len(call[q].path) + 1) /\ at[q].pid \in 0..Len(drive)
  /\ count[q] \in 0..(Wait + Retries)
  /\ ret[q] \in {None} \cup 0..Len(drive)
  /\ \A s \in DOMAIN ids[q] : PathOf[ids[q][s]] = s /\ ids[q][s] \in 0..Len(drive)
  /\ pc[q] = "idle" /\ ret[q] # None => PathOf[ret[q]] = call[q].path
  /\ Reached(q)

Local ==
  /\ OpenInv /\ Folders /\ lost \in BOOLEAN /\ torn \in BOOLEAN
  /\ DOMAIN ids = Proc /\ DOMAIN count = Proc /\ DOMAIN ret = Proc

Grows ==
  /\ Folders' /\ Len(drive) <= Len(drive)'
  /\ \A i \in DOMAIN drive : drive'[i] = drive[i]

(* The folders are numbered from 1 on. *)
LEMMA Lengths == Folders => Len(drive) \in Nat /\ DOMAIN drive = 1..Len(drive)
  BY DEF Folders, DriveInv

(* A drive that stays as it is has kept its folders. *)
LEMMA SameDrive == Folders /\ UNCHANGED drive => Grows
  BY Lengths DEF Grows, Folders, DriveInv

(* What it knows stays true while it learns nothing new. *)
LEMMA KnowsStays ==
  ASSUME Folders, Grows, NEW q \in Proc, Knows(q),
         call'[q] = call[q], at'[q] = at[q], ids'[q] = ids[q],
         ret'[q] = ret[q] \/ (ret'[q] = None /\ pc'[q] = "idle"),
         count'[q] \in 0..(Wait + Retries),
         pc'[q] = "idle" => pc[q] = "idle" \/ ret'[q] = None,
         \/ pc'[q] \in {"idle", "dead"}
         \/ pc'[q] = pc[q]
         \/ /\ pc[q] \notin {"idle", "dead"}
            /\ pc'[q] \in {"list", "create"} => at[q].k <= Len(call[q].path)
            /\ pc'[q] \in {"close", "remove"} => at[q].k > Len(call[q].path)
  PROVE  Knows(q)'
  <1>1. /\ Len(drive) \in Nat /\ Len(drive)' \in Nat /\ Len(drive) <= Len(drive)'
        /\ \A id \in 0..Len(drive) : PathOf'[id] = PathOf[id]
    BY Lengths, PathStays DEF Grows, Folders, DriveInv
  <1>2. at'[q].pid \in 0..Len(drive)' /\ ret'[q] \in {None} \cup 0..Len(drive)'
    BY <1>1 DEF Knows
  <1>3. \A s \in DOMAIN ids'[q] : PathOf'[ids'[q][s]] = s /\ ids'[q][s] \in 0..Len(drive)'
    BY <1>1 DEF Knows
  <1>4. pc'[q] = "idle" /\ ret'[q] # None => PathOf'[ret'[q]] = call'[q].path
    BY <1>1 DEF Knows
  <1>5. Reached(q)'
    BY <1>1 DEF Knows, Reached
  <1> QED BY <1>2, <1>3, <1>4, <1>5 DEF Knows

(* The next folder of the path, looked up or made. *)
LEMMA FoundKnows ==
  ASSUME Local, Grows, NEW p \in Proc, Knows(p), pc[p] \in {"list", "create"},
         NEW id \in 1..Len(drive'), Found(p, id),
         drive'[id].parent = at[p].pid, drive'[id].name = call[p].path[at[p].k]
  PROVE  Knows(p)'
  <1>1. /\ Len(drive) \in Nat /\ Len(drive)' \in Nat /\ Len(drive) <= Len(drive)'
        /\ \A i \in 0..Len(drive) : PathOf'[i] = PathOf[i]
    BY Lengths, PathStays DEF Local, Grows, Folders, DriveInv
  <1> DEFINE path == call[p].path
             k == at[p].k
  <1>2. /\ path \in Paths /\ k \in 1..Len(path) /\ at[p].pid \in 0..Len(drive)
        /\ PathOf[at[p].pid] = SubSeq(path, 1, k - 1)
    <2>1. path \in Paths
      BY DEF Knows, Reached
    <2>2. Len(path) \in Nat
      BY <2>1, Subdirs
    <2> QED BY <2>1, <2>2 DEF Knows, Reached
  <1>3. PathOf'[id] = SubSeq(path, 1, k)
    <2>1. PathOf'[id] = Append(PathOf'[drive'[id].parent], drive'[id].name)
      <3>1. id \in 0..Len(drive)' /\ id # Root /\ Folders'
        BY <1>1 DEF Root, Grows
      <3> QED BY <3>1, PathOfNext DEF PathStep
    <2> HIDE DEF path, k
    <2>2. SubSeq(path, 1, k) = Append(SubSeq(path, 1, k - 1), path[k])
      BY <1>2, Subdirs
    <2>3. drive'[id].name = path[k]
      BY DEF path, k
    <2> QED BY <1>1, <1>2, <2>1, <2>2, <2>3
  <1>4. /\ call'[p] = call[p] /\ ret'[p] = ret[p] /\ count'[p] = 0 /\ pc'[p] = "walk"
        /\ at'[p] = [k |-> k + 1, pid |-> id]
        /\ ids'[p] = [s \in DOMAIN ids[p] \cup {Subdir(p)} |->
                        IF s = Subdir(p) THEN id ELSE ids[p][s]]
    BY DEF Found, Local, OpenInv, Goto
  <1>5. Subdir(p) = SubSeq(path, 1, k)
    BY DEF Subdir
  <1> HIDE DEF path, k
  <1>6. at'[p].k \in 1..(Len(call'[p].path) + 1) /\ at'[p].pid \in 0..Len(drive)'
    BY <1>1, <1>2, <1>4, Subdirs DEF path
  <1>7. ret'[p] \in {None} \cup 0..Len(drive)' /\ count'[p] \in 0..(Wait + Retries)
    BY <1>1, <1>4, GoogleDriveAssumption DEF Knows
  <1>8. ASSUME NEW s \in DOMAIN ids'[p]
        PROVE  PathOf'[ids'[p][s]] = s /\ ids'[p][s] \in 0..Len(drive)'
    <2>1. CASE s = Subdir(p)
      <3>1. ids'[p][s] = id
        BY <1>4, <1>8, <2>1
      <3> QED BY <1>1, <1>3, <1>5, <2>1, <3>1
    <2>2. CASE s # Subdir(p)
      <3>1. s \in DOMAIN ids[p] /\ ids'[p][s] = ids[p][s]
        BY <1>4, <1>8, <2>2
      <3> QED BY <1>1, <3>1, SMTT(30) DEF Knows
    <2> QED BY <2>1, <2>2
  <1>9. Reached(p)'
    <2>1. at'[p].k = k + 1 /\ at'[p].pid = id /\ (k + 1) - 1 = k
      BY <1>2, <1>4, Subdirs
    <2> QED BY <1>2, <1>3, <1>4, <2>1 DEF Reached, path
  <1> QED BY <1>4, <1>6, <1>7, <1>8, <1>9 DEF Knows

(* What the others know stays true. *)
LEMMA OthersKnow ==
  ASSUME Folders, Grows, NEW p \in Proc, \A q \in Proc : Knows(q),
         \A q \in Proc : q # p =>
           /\ call'[q] = call[q] /\ at'[q] = at[q] /\ ids'[q] = ids[q]
           /\ ret'[q] = ret[q] /\ count'[q] = count[q] /\ pc'[q] = pc[q],
         Knows(p)'
  PROVE  \A q \in Proc : Knows(q)'
  <1>1. ASSUME NEW q \in Proc, q # p PROVE Knows(q)'
    <2>1. count[q] \in 0..(Wait + Retries)
      BY DEF Knows
    <2> QED BY <1>1, <2>1, KnowsStays
  <1> QED BY <1>1

\* Nothing but its place and its counter changes.
Goes(p) ==
  /\ UNCHANGED <<drive, call, at, ids, lost, torn>>
  /\ DOMAIN ret' = Proc /\ DOMAIN count' = Proc
  /\ \A q \in Proc : q # p => ret'[q] = ret[q] /\ count'[q] = count[q] /\ pc'[q] = pc[q]

(* A process that goes on by itself, without a new folder in hand, keeps what it knows. *)
LEMMA GoesKnow ==
  ASSUME Local, NEW p \in Proc, \A q \in Proc : Knows(q), Goes(p),
         ret'[p] = ret[p] \/ (ret'[p] = None /\ pc'[p] = "idle"),
         count'[p] \in 0..(Wait + Retries),
         pc'[p] = "idle" => pc[p] = "idle" \/ ret'[p] = None,
         \/ pc'[p] \in {"idle", "dead"}
         \/ pc'[p] = pc[p]
         \/ /\ pc[p] \notin {"idle", "dead"}
            /\ pc'[p] \in {"list", "create"} => at[p].k <= Len(call[p].path)
            /\ pc'[p] \in {"close", "remove"} => at[p].k > Len(call[p].path)
  PROVE  \A q \in Proc : Knows(q)'
  <1>1. Grows
    BY SameDrive DEF Goes, Local
  <1>2. Knows(p)'
    BY <1>1, KnowsStays DEF Goes, Local
  <1> QED BY <1>1, <1>2, OthersKnow DEF Goes, Local

(* A call starts at the root, of which every process knows the path. *)
LEMMA CallKnows ==
  ASSUME Local, \A q \in Proc : Knows(q), NEW p \in Proc, Begin(p)
  PROVE  \A q \in Proc : Knows(q)'
  <1>1. PICK path \in Paths, readonly \in BOOLEAN : Call(p, path, readonly)
    BY Zenon DEF Begin
  <1>2. /\ UNCHANGED <<drive, ids>> /\ call[p].made < Calls
        /\ call'[p] = [path |-> path, readonly |-> readonly, made |-> call[p].made + 1]
        /\ at'[p] = [k |-> 1, pid |-> Root] /\ count'[p] = 0 /\ ret'[p] = None
        /\ pc'[p] \in {"walk", "open"}
        /\ \A q \in Proc : q # p => /\ call'[q] = call[q] /\ at'[q] = at[q] /\ ids'[q] = ids[q]
                                    /\ ret'[q] = ret[q] /\ count'[q] = count[q]
                                    /\ pc'[q] = pc[q]
    BY <1>1 DEF Call, Goto, Local, OpenInv
  <1>3. Grows
    BY <1>2, SameDrive DEF Local
  <1>4. Len(path) \in Nat /\ SubSeq(path, 1, 0) = <<>> /\ Len(drive) \in Nat
    BY Subdirs, Lengths DEF Local
  <1>5. PathOf'[Root] = <<>>
    <2>1. Root \in 0..Len(drive) /\ Root \in 0..Len(drive)'
      BY <1>2, <1>4 DEF Root
    <2> QED BY <1>3, <2>1, PathOfNext DEF PathStep, Grows
  <1>6. Reached(p)'
    <2>1. call'[p].path = path /\ at'[p].pid = Root /\ at'[p].k = 1 /\ 1 - 1 = 0
      BY <1>2
    <2>2. PathOf'[at'[p].pid] = SubSeq(call'[p].path, 1, at'[p].k - 1)
      BY <1>4, <1>5, <2>1
    <2> QED BY <1>2, <2>1, <2>2 DEF Reached
  <1>7. call'[p].readonly \in BOOLEAN /\ call'[p].made \in 0..Calls
    BY <1>2, GoogleDriveAssumption DEF Knows
  <1>8. /\ at'[p].k \in 1..(Len(call'[p].path) + 1) /\ at'[p].pid \in 0..Len(drive)'
        /\ count'[p] \in 0..(Wait + Retries) /\ ret'[p] \in {None} \cup 0..Len(drive)'
    BY <1>2, <1>4, GoogleDriveAssumption DEF Root
  <1>9. \A s \in DOMAIN ids'[p] : PathOf'[ids'[p][s]] = s /\ ids'[p][s] \in 0..Len(drive)'
    <2>1. \A id \in 0..Len(drive) : PathOf'[id] = PathOf[id]
      BY <1>3, PathStays DEF Grows, Local
    <2> QED BY <1>2, <2>1 DEF Knows
  <1>10. Knows(p)'
    BY <1>2, <1>6, <1>7, <1>8, <1>9 DEF Knows
  <1> QED BY <1>2, <1>3, <1>10, OthersKnow DEF Local

(* A process that raises knows no less than before. *)
LEMMA EndsKnow ==
  ASSUME Local, \A q \in Proc : Knows(q), NEW p \in Proc, Ends(p), UNCHANGED <<lost, torn>>
  PROVE  \A q \in Proc : Knows(q)'
  <1>1. Goes(p) /\ pc'[p] = "dead" /\ ret'[p] = ret[p] /\ count'[p] = count[p]
    BY DEF Ends, Goto, local, Goes, Local, OpenInv
  <1> QED BY <1>1, GoesKnow DEF Knows

(* Waiting for the lock, or getting it, changes nothing a process knows. *)
LEMMA FlockKnows ==
  ASSUME Local, \A q \in Proc : Knows(q), NEW p \in Proc, Flock(p), UNCHANGED <<lost, torn>>
  PROVE  \A q \in Proc : Knows(q)'
  <1>1. CASE Ends(p)
    BY <1>1, EndsKnow
  <1>2. CASE ~Ends(p)
    <2>1. /\ Goes(p) /\ pc[p] = "flock" /\ pc'[p] \in {"walk", "open"} /\ ret'[p] = ret[p]
          /\ count'[p] = 0 \/ (count'[p] = count[p] + 1 /\ count[p] + 1 < Wait)
      BY <1>2 DEF Flock, Goto, Goes, Local, OpenInv
    <2>2. count'[p] \in 0..(Wait + Retries)
      BY <2>1, GoogleDriveAssumption DEF Knows
    <2> QED BY <2>1, <2>2, GoesKnow
  <1> QED BY <1>1, <1>2

(* The id that is returned is that of the whole path. *)
LEMMA ReturnKnows ==
  ASSUME Local, NEW p \in Proc, \A q \in Proc : Knows(q), pc[p] \notin {"idle", "dead"},
         at[p].k > Len(call[p].path), ret'[p] = at[p].pid, pc'[p] = "idle",
         UNCHANGED <<drive, call, at, ids, count>>,
         \A q \in Proc : q # p => ret'[q] = ret[q] /\ pc'[q] = pc[q]
  PROVE  \A q \in Proc : Knows(q)'
  <1>1. Grows
    BY SameDrive DEF Local
  <1>2. \A id \in 0..Len(drive) : PathOf'[id] = PathOf[id]
    BY <1>1, PathStays DEF Grows, Local
  <1>3. /\ call[p].path \in Paths /\ PathOf[at[p].pid] = SubSeq(call[p].path, 1, at[p].k - 1)
        /\ at[p].k \in 1..(Len(call[p].path) + 1) /\ at[p].pid \in 0..Len(drive)
    BY DEF Knows, Reached
  <1>4. Len(call[p].path) \in Nat /\ SubSeq(call[p].path, 1, Len(call[p].path)) = call[p].path
    BY <1>3, Subdirs
  <1>5. at[p].k - 1 = Len(call[p].path)
    <2> DEFINE k == at[p].k
               n == Len(call[p].path)
    <2>1. k \in 1..(n + 1) /\ k > n /\ n \in Nat
      BY <1>3, <1>4
    <2> HIDE DEF k, n
    <2>2. k - 1 = n
      BY <2>1
    <2> QED BY <2>2 DEF k, n
  <1>6. PathOf'[ret'[p]] = call'[p].path
    BY <1>2, <1>3, <1>4, <1>5
  <1>7. Knows(p)'
    BY <1>2, <1>3, <1>6 DEF Knows, Reached
  <1> QED BY <1>1, <1>7, OthersKnow DEF Local

(* The next subdirectory of the path is looked up below the folder reached so far. *)
LEMMA WalkKnows ==
  ASSUME Local, \A q \in Proc : Knows(q), NEW p \in Proc, Walk(p), UNCHANGED <<lost, torn>>
  PROVE  \A q \in Proc : Knows(q)'
  <1> USE DEF Walk
  <1>1. call[p].path \in Paths /\ Len(call[p].path) \in Nat
    BY Subdirs DEF Knows, Reached
  <1>2. CASE at[p].k > Len(call[p].path) /\ call[p].readonly
    BY <1>2, ReturnKnows DEF Return, Goto, Local, OpenInv
  <1>3. CASE at[p].k > Len(call[p].path) /\ ~call[p].readonly
    <2>1. Goes(p) /\ pc'[p] = "close" /\ ret'[p] = ret[p] /\ count'[p] = count[p]
      BY <1>3 DEF Goto, Goes, Local, OpenInv, local
    <2> QED BY <1>3, <2>1, GoesKnow DEF Knows
  <1>4. CASE ~(at[p].k > Len(call[p].path)) /\ Subdir(p) \in DOMAIN ids[p]
    <2> DEFINE id == ids[p][Subdir(p)]
    <2>1. PathOf[id] = SubSeq(call[p].path, 1, at[p].k) /\ id \in 0..Len(drive)
      BY <1>4 DEF Knows, Subdir
    <2> HIDE DEF id
    <2>2. /\ at'[p] = [k |-> at[p].k + 1, pid |-> id]
          /\ UNCHANGED <<drive, pc, fd, call, ids, count, ret>>
          /\ \A q \in Proc : q # p => at'[q] = at[q]
      BY <1>4 DEF Local, OpenInv, id
    <2>3. Grows
      BY <2>2, SameDrive DEF Local
    <2>4. \A i \in 0..Len(drive) : PathOf'[i] = PathOf[i]
      BY <2>3, PathStays DEF Grows, Local
    <2>5. /\ at'[p].k = at[p].k + 1 /\ at'[p].pid = id /\ at[p].k + 1 - 1 = at[p].k
          /\ at[p].k + 1 \in 1..(Len(call[p].path) + 1)
      BY <1>1, <1>4, <2>2 DEF Knows
    <2>6. Reached(p)'
      <3>1. PathOf'[at'[p].pid] = SubSeq(call[p].path, 1, at[p].k)
        BY <2>1, <2>4, <2>5
      <3>2. PathOf'[at'[p].pid] = SubSeq(call'[p].path, 1, at'[p].k - 1)
        <4>1. at'[p].k - 1 = at[p].k
          BY <2>5 DEF Knows
        <4>2. call'[p].path = call[p].path
          BY <2>2
        <4> QED BY <3>1, <4>1, <4>2, Zenon
      <3> QED BY <1>1, <2>2, <3>2 DEF Reached
    <2>7. Knows(p)'
      BY <2>1, <2>2, <2>4, <2>5, <2>6 DEF Knows
    <2> QED BY <2>2, <2>3, <2>7, OthersKnow DEF Local
  <1>5. CASE ~(at[p].k > Len(call[p].path)) /\ Subdir(p) \notin DOMAIN ids[p]
    <2>1. Goes(p) /\ pc'[p] = "list" /\ ret'[p] = ret[p] /\ count'[p] = count[p]
      BY <1>5 DEF Goto, Goes, Local, OpenInv, local
    <2>2. at[p].k <= Len(call[p].path)
      BY <1>1, <1>5 DEF Knows
    <2> QED BY <2>1, <2>2, GoesKnow DEF Knows
  <1> QED BY <1>2, <1>3, <1>4, <1>5

(* The folder that list finds lies where the path goes. *)
LEMMA ListKnows ==
  ASSUME Local, \A q \in Proc : Knows(q), NEW p \in Proc, List(p), UNCHANGED <<lost, torn>>
  PROVE  \A q \in Proc : Knows(q)'
  <1>1. ASSUME NEW id \in Matches(p), Found(p, id), UNCHANGED drive
        PROVE  \A q \in Proc : Knows(q)'
    <2>1. Grows
      BY <1>1, SameDrive DEF Local
    <2>2. id \in 1..Len(drive') /\ drive'[id].parent = at[p].pid
          /\ drive'[id].name = call[p].path[at[p].k]
      BY <1>1, Lengths DEF Matches, Local
    <2>3. Knows(p)'
      BY <1>1, <2>1, <2>2, FoundKnows DEF List
    <2>4. \A q \in Proc : q # p =>
            /\ call'[q] = call[q] /\ at'[q] = at[q] /\ ids'[q] = ids[q]
            /\ ret'[q] = ret[q] /\ count'[q] = count[q] /\ pc'[q] = pc[q]
      BY <1>1 DEF Found, Goto, Local, OpenInv
    <2> QED BY <2>1, <2>3, <2>4, OthersKnow DEF Local
  <1>2. CASE Return(p, None)
    <2>1. Goes(p) /\ pc'[p] = "idle" /\ ret'[p] = None /\ count'[p] = count[p]
      BY <1>2 DEF Return, Goto, Goes, Local, OpenInv
    <2> QED BY <2>1, GoesKnow DEF Knows
  <1>3. CASE /\ Goto(p, "create") /\ count' = [count EXCEPT ![p] = 0]
             /\ UNCHANGED <<drive, lockfile, fd, call, at, ids, ret>>
    <2>1. Goes(p) /\ pc'[p] = "create" /\ ret'[p] = ret[p] /\ count'[p] = 0
      BY <1>3 DEF Goto, Goes, Local, OpenInv
    <2>2. at[p].k <= Len(call[p].path) /\ 0 \in 0..(Wait + Retries)
      BY GoogleDriveAssumption DEF Knows, Reached, List
    <2> QED BY <2>1, <2>2, GoesKnow DEF List
  <1> QED BY <1>1, <1>2, <1>3 DEF List

(* A new folder, which the calls that follow may find. *)
LEMMA NewGrows ==
  ASSUME Local, NEW p \in Proc, Knows(p), drive' = NewFolder(p)
  PROVE  /\ Grows /\ Len(drive') = Len(drive) + 1 /\ Len(drive) \in Nat
         /\ drive'[Len(drive')] = [parent |-> at[p].pid, name |-> call[p].path[at[p].k]]
  <1> DEFINE new == [parent |-> at[p].pid, name |-> call[p].path[at[p].k]]
  <1>1. drive' = Append(drive, new)
    BY DEF NewFolder
  <1>2. new.parent \in 0..Len(drive)
    BY DEF Knows
  <1> HIDE DEF new
  <1>3. DriveInv'
    BY <1>1, AppendKeeps DEF Local, Folders
  <1>4. PICK S : drive \in Seq(S)
    BY DEF Local, Folders, DriveInv
  <1>5. /\ DOMAIN drive' = 1..(Len(drive) + 1) /\ DOMAIN drive = 1..Len(drive)
        /\ Len(drive) \in Nat /\ drive'[Len(drive) + 1] = new
        /\ \A i \in DOMAIN drive : drive'[i] = drive[i]
    BY <1>1, <1>4, AppendAny
  <1>6. Len(drive') = Len(drive) + 1
    BY <1>3, <1>5 DEF DriveInv
  <1>7. \A i \in DOMAIN drive' : drive'[i].parent \in 0..(i - 1)
    <2>1. ASSUME NEW i \in 1..Len(drive) PROVE drive'[i].parent \in 0..(i - 1)
      BY <1>5 DEF Local, Folders
    <2>2. drive'[Len(drive) + 1].parent \in 0..((Len(drive) + 1) - 1)
      BY <1>2, <1>5
    <2> QED BY <1>5, <2>1, <2>2
  <1> QED BY <1>3, <1>5, <1>6, <1>7 DEF Grows, Folders, new

(* The folder that create makes lies where the path goes. *)
LEMMA CreateKnows ==
  ASSUME Local, \A q \in Proc : Knows(q), NEW p \in Proc, Create(p)
  PROVE  \A q \in Proc : Knows(q)'
  <1>1. /\ Grows /\ Len(drive') = Len(drive) + 1 /\ Len(drive) \in Nat
        /\ drive'[Len(drive')] = [parent |-> at[p].pid, name |-> call[p].path[at[p].k]]
    BY NewGrows DEF Create
  <1>2. Knows(p)'
    <2>1. Len(drive') \in 1..Len(drive') /\ Found(p, Len(drive')) /\ pc[p] = "create"
      BY <1>1 DEF Create
    <2> DEFINE id == Len(drive')
    <2>2. drive'[id].parent = at[p].pid /\ drive'[id].name = call[p].path[at[p].k]
      BY <1>1
    <2> HIDE DEF id
    <2>3. id \in 1..Len(drive') /\ Found(p, id)
      BY <2>1 DEF id
    <2> QED BY <1>1, <2>1, <2>2, <2>3, FoundKnows
  <1>3. \A q \in Proc : q # p =>
          /\ call'[q] = call[q] /\ at'[q] = at[q] /\ ids'[q] = ids[q]
          /\ ret'[q] = ret[q] /\ count'[q] = count[q] /\ pc'[q] = pc[q]
    BY DEF Create, Found, Goto, Local, OpenInv
  <1> QED BY <1>1, <1>2, <1>3, OthersKnow DEF Local

(* An error of the API leaves the process where it was, or ends it. *)
LEMMA RaisesKnows ==
  ASSUME Local, \A q \in Proc : Knows(q), NEW p \in Proc, ApiRaises(p), UNCHANGED torn
  PROVE  \A q \in Proc : Knows(q)'
  <1>1. CASE count[p] >= Retries
    BY <1>1, EndsKnow DEF ApiRaises
  <1>2. CASE ~(count[p] >= Retries)
    <2>1. /\ UNCHANGED <<pc, call, at, ids, ret>> /\ count'[p] = count[p] + 1
          /\ \A q \in Proc : q # p => count'[q] = count[q]
      BY <1>2 DEF ApiRaises, Local
    <2>2. Grows
      BY <1>2, NewGrows, SameDrive DEF ApiRaises, Local
    <2>3. count'[p] \in 0..(Wait + Retries)
      BY <1>2, <2>1, GoogleDriveAssumption DEF Knows
    <2>4. Knows(p)'
      BY <2>1, <2>2, <2>3, KnowsStays DEF Local
    <2> QED BY <2>1, <2>2, <2>4, OthersKnow DEF Local
  <1> QED BY <1>1, <1>2

(* Taking the lock file away, and the return behind it, give the id that was reached. *)
LEMMA RemoveKnows ==
  ASSUME Local, \A q \in Proc : Knows(q), NEW p \in Proc, Remove(p), UNCHANGED lost
  PROVE  \A q \in Proc : Knows(q)'
  <1>1. CASE lockfile = NoFile
    <2>1. UNCHANGED <<drive, call, at, ids, ret, count>> /\ pc'[p] = "dead"
          /\ \A q \in Proc : q # p => pc'[q] = pc[q]
      BY <1>1 DEF Remove, Ends, Goto, local, Local, OpenInv
    <2>2. Grows
      BY <2>1, SameDrive DEF Local
    <2>3. count[p] \in 0..(Wait + Retries)
      BY DEF Knows
    <2>4. Knows(p)'
      BY <2>1, <2>2, <2>3, KnowsStays DEF Local
    <2> QED BY <2>1, <2>2, <2>4, OthersKnow DEF Local
  <1>2. CASE lockfile # NoFile
    <2>1. at[p].k > Len(call[p].path) /\ pc[p] = "remove"
      BY DEF Remove, Knows, Reached
    <2>2. /\ ret'[p] = at[p].pid /\ pc'[p] = "idle" /\ UNCHANGED <<drive, call, at, ids, count>>
          /\ \A q \in Proc : q # p => ret'[q] = ret[q] /\ pc'[q] = pc[q]
      BY <1>2 DEF Remove, Goto, Local, OpenInv
    <2> QED BY <2>1, <2>2, ReturnKnows
  <1> QED BY <1>1, <1>2

(* No step of any process, a kill included, makes what a process knows untrue. *)
LEMMA KnowsStep ==
  ASSUME Local, \A q \in Proc : Knows(q), [Next]_vars
  PROVE  \A q \in Proc : Knows(q)'
  <1>1. ASSUME NEW p \in Proc, Open(p) \/ Close(p), UNCHANGED <<lost, torn>>
        PROVE  \A q \in Proc : Knows(q)'
    <2>1. /\ Goes(p) /\ ret'[p] = ret[p] /\ count'[p] = count[p]
          /\ \/ pc[p] = "open" /\ pc'[p] = "flock"
             \/ pc[p] = "close" /\ pc'[p] = "remove"
      BY <1>1 DEF Open, Close, Goto, Goes, Local, OpenInv, local
    <2>2. pc[p] = "close" => at[p].k > Len(call[p].path)
      BY DEF Knows, Reached
    <2> QED BY <2>1, <2>2, GoesKnow DEF Knows
  <1>2. CASE UNCHANGED vars
    <2>1. Grows
      BY <1>2, SameDrive DEF vars, Local
    <2> QED BY <1>2, <2>1, KnowsStays DEF vars, Local, Knows
  <1> QED BY <1>1, <1>2, CallKnows, EndsKnow, FlockKnows, WalkKnows, ListKnows, CreateKnows,
             RaisesKnows, RemoveKnows DEF Next, Step, Kill

(* The part of the invariant about single processes and folders is kept by every step. *)
LEMMA LocalStep ==
  ASSUME Local, \A q \in Proc : Knows(q), [Next]_vars
  PROVE  Local'
  <1> USE DEF Local
  <1>1. OpenInv'
    BY OpenStep
  <1>2. Folders'
    <2>1. ASSUME NEW p \in Proc, drive' = NewFolder(p) PROVE Folders'
      BY <2>1, NewGrows DEF Grows
    <2>2. CASE UNCHANGED drive
      BY <2>2, SameDrive DEF Grows
    <2>3. UNCHANGED drive \/ \E p \in Proc : drive' = NewFolder(p)
      BY ZenonT(60) DEF Next, Step, Begin, Kill, Call, Open, Flock, Walk, List, Create, Close, Remove,
         ApiRaises, Ends, Return, vars
    <2> QED BY <2>1, <2>2, <2>3
  <1>3. lost' \in BOOLEAN /\ torn' \in BOOLEAN
    BY DEF Next, Step, Begin, Kill, Remove, ApiRaises, vars
  <1>4. DOMAIN ids' = Proc /\ DOMAIN count' = Proc /\ DOMAIN ret' = Proc
    BY ZenonT(60) DEF Next, Step, Begin, Kill, Call, Open, Flock, Walk, List, Create, Close, Remove,
       ApiRaises, Ends, Return, Found, local, vars
  <1> QED BY <1>1, <1>2, <1>3, <1>4

(* The cache of every process and what gdrive_mkdir returns are true of the
   drive, for any paths, processes, retries and lost replies. *)
THEOREM IdsAreTrue == Spec => []IdsTrue
  <1>1. Init => Local /\ \A q \in Proc : Knows(q)
    <2> SUFFICES ASSUME Init PROVE Local /\ \A q \in Proc : Knows(q)
      OBVIOUS
    <2>1. Folders
      BY DEF Init, Folders, DriveInv
    <2>2. Local
      BY <2>1 DEF Init, Local, OpenInv, HasFile, Owner, Holding, PCs, Inode
    <2>3. \A q \in Proc : Knows(q)
      <3> SUFFICES ASSUME NEW q \in Proc PROVE Knows(q)
        OBVIOUS
      <3>1. /\ call[q] = [path |-> <<>>, readonly |-> FALSE, made |-> 0]
            /\ at[q] = [k |-> 1, pid |-> 0] /\ ids[q] = <<>> /\ count[q] = 0
            /\ ret[q] = None /\ pc[q] = "idle" /\ Len(drive) = 0
        BY DEF Init, Root
      <3>2. DOMAIN ids[q] = {} /\ Len(call[q].path) = 0
        BY <3>1
      <3>3. Reached(q)
        BY <3>1 DEF Reached
      <3> QED BY <3>1, <3>2, <3>3, GoogleDriveAssumption DEF Knows
    <2> QED BY <2>2, <2>3
  <1>2. Local /\ (\A q \in Proc : Knows(q)) /\ [Next]_vars
          => (Local /\ \A q \in Proc : Knows(q))'
    BY LocalStep, KnowsStep
  <1>3. Local /\ (\A q \in Proc : Knows(q)) => IdsTrue
    <2> SUFFICES ASSUME Local, \A q \in Proc : Knows(q) PROVE IdsTrue
      OBVIOUS
    <2>1. TypeOK
      BY Lengths DEF Local, OpenInv, Folders, Knows, TypeOK
    <2> QED BY <2>1 DEF Knows, IdsTrue
  <1> QED BY <1>1, <1>2, <1>3, PTL DEF Spec

=============================================================================
