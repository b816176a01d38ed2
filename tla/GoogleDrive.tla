---------------------------- MODULE GoogleDrive ----------------------------
(***************************************************************************)
(* gdrive_mkdir of lib/googleapi.py: several processes make folder paths   *)
(* on one drive.  They exclude each other with flock on a file that the    *)
(* owner removes after it closed it (mutex_lock, mutex_unlock), look each  *)
(* folder up before they create it, keep the ids in a cache of their own,  *)
(* and repeat a call of the drive that raised (google_api_command).        *)
(***************************************************************************)
EXTENDS Integers, Sequences, FiniteSets

CONSTANTS
  Proc,       \* the processes
  Paths,      \* the folder paths they ask for, sequences of names
  Calls,      \* bound on the calls a process makes
  Wait,       \* tries of mutex_lock (60 in the code)
  Retries,    \* retries of google_api_command (10 in the code)
  LostReply,  \* whether a create may be done although its call raises
  MaxFolders  \* bound on the folders of the drive

ASSUME GoogleDriveAssumption ==
  /\ \A path \in Paths : path # <<>> /\ path \in Seq({path[i] : i \in DOMAIN path})
  /\ IsFiniteSet(Proc)
  /\ Calls \in Nat /\ Wait \in Nat \ {0} /\ Retries \in Nat /\ MaxFolders \in Nat
  /\ LostReply \in BOOLEAN

None == -1
Root == 0
NoFile == 0
Inode == 1..(Cardinality(Proc) + 1)

VARIABLES
  drive,     \* the folders, in the order of their ids: parent and name
  lockfile,  \* the inode /tmp/googleapi.lock names, or NoFile
  pc,        \* what each process does
  call,      \* path and readonly of its gdrive_mkdir, and how many it made
  at,        \* k: the subdir the loop is at; pid: the folder above it
  ids,       \* gdriveids: the cache from path to id
  count,     \* i of mutex_lock and retry of google_api_command
  fd,        \* the inode its lock file descriptor is open on
  ret,       \* what its last call returned
  lost,      \* history: a folder was made by a call that raised
  torn       \* history: the lock file was removed while another had it open

vars == <<drive, lockfile, pc, call, at, ids, count, fd, ret, lost, torn>>
local == <<call, at, ids, count, ret>>

PCs == {"idle", "open", "flock", "walk", "list", "create", "close", "remove", "dead"}

\* The lock of an inode is held from flock to close, or to the end.
Holding == {"walk", "list", "create", "close"}
Locked(f) == \E q \in Proc : fd[q] = f /\ pc[q] \in Holding

Subdir(p) == SubSeq(call[p].path, 1, at[p].k)

\* The path of every folder.
PathOf[id \in 0..Len(drive)] ==
  IF id = Root THEN <<>> ELSE Append(PathOf[drive[id].parent], drive[id].name)

TypeOK ==
  /\ lost \in BOOLEAN /\ torn \in BOOLEAN
  /\ \A i \in DOMAIN drive : drive[i].parent \in 0..(i - 1)
  /\ lockfile \in Inode \cup {NoFile}
  /\ pc \in [Proc -> PCs]
  /\ \A p \in Proc :
       /\ call[p].readonly \in BOOLEAN /\ call[p].made \in 0..Calls
       /\ at[p].k \in 1..(Len(call[p].path) + 1) /\ at[p].pid \in 0..Len(drive)
       /\ count[p] \in 0..(Wait + Retries)
       /\ fd[p] \in Inode \cup {NoFile}
       /\ ret[p] \in {None} \cup 0..Len(drive)

Init ==
  /\ drive = <<>>
  /\ lockfile = NoFile
  /\ pc = [p \in Proc |-> "idle"]
  /\ call = [p \in Proc |-> [path |-> <<>>, readonly |-> FALSE, made |-> 0]]
  /\ at = [p \in Proc |-> [k |-> 1, pid |-> Root]]
  /\ ids = [p \in Proc |-> <<>>]
  /\ count = [p \in Proc |-> 0]
  /\ fd = [p \in Proc |-> NoFile]
  /\ ret = [p \in Proc |-> None]
  /\ lost = FALSE /\ torn = FALSE

-----------------------------------------------------------------------------
Goto(p, label) == pc' = [pc EXCEPT ![p] = label]

\* The process ends (sys.exit, an exception, a kill): its files are closed,
\* its lock is dropped, its lock file stays.
Ends(p) ==
  /\ Goto(p, "dead")
  /\ fd' = [fd EXCEPT ![p] = NoFile]
  /\ UNCHANGED <<drive, lockfile, local>>

\* gdrive_mkdir(path, readonly)
Call(p, path, readonly) ==
  /\ pc[p] = "idle" /\ call[p].made < Calls
  /\ call' = [call EXCEPT ![p] = [path |-> path, readonly |-> readonly,
                                  made |-> call[p].made + 1]]
  /\ at' = [at EXCEPT ![p] = [k |-> 1, pid |-> Root]]
  /\ count' = [count EXCEPT ![p] = 0]
  /\ ret' = [ret EXCEPT ![p] = None]
  /\ Goto(p, IF readonly THEN "walk" ELSE "open")
  /\ UNCHANGED <<drive, lockfile, ids, fd>>

\* open(lockfile, 'w'): the file there is, or a new one
Open(p) ==
  /\ pc[p] = "open"
  /\ lockfile' = IF lockfile # NoFile THEN lockfile
                 ELSE CHOOSE f \in Inode : \A q \in Proc \ {p} : fd[q] # f
  /\ fd' = [fd EXCEPT ![p] = lockfile']
  /\ Goto(p, "flock")
  /\ UNCHANGED <<drive, local>>

\* Mutant: the lock is taken to be free.
Flock_Shared(p) ==
  /\ pc[p] = "flock"
  /\ Goto(p, "walk")
  /\ count' = [count EXCEPT ![p] = 0]
  /\ UNCHANGED <<drive, lockfile, fd, call, at, ids, ret>>

\* flock(LOCK_NB | LOCK_EX); a failure opens the file anew a second later
Flock(p) ==
  /\ pc[p] = "flock"
  /\ \/ /\ ~Locked(fd[p])
        /\ Goto(p, "walk")
        /\ count' = [count EXCEPT ![p] = 0]
        /\ UNCHANGED <<drive, lockfile, fd, call, at, ids, ret>>
     \/ /\ Locked(fd[p]) /\ count[p] + 1 < Wait
        /\ Goto(p, "open")
        /\ count' = [count EXCEPT ![p] = count[p] + 1]
        /\ UNCHANGED <<drive, lockfile, fd, call, at, ids, ret>>
     \/ /\ Locked(fd[p]) /\ count[p] + 1 >= Wait
        /\ Ends(p)

\* The subdir has the given id: cache it and look at the next one.
Found(p, id) ==
  /\ ids' = [ids EXCEPT ![p] = [s \in DOMAIN ids[p] \cup {Subdir(p)} |->
                                  IF s = Subdir(p) THEN id ELSE ids[p][s]]]
  /\ at' = [at EXCEPT ![p] = [k |-> at[p].k + 1, pid |-> id]]
  /\ count' = [count EXCEPT ![p] = 0]
  /\ Goto(p, "walk")
  /\ UNCHANGED <<lockfile, fd, call, ret>>

\* The call is over and returned the id, or '' when a folder is missing.
Return(p, id) ==
  /\ ret' = [ret EXCEPT ![p] = id]
  /\ Goto(p, "idle")
  /\ UNCHANGED <<drive, lockfile, fd, call, at, ids, count>>

\* The head of the loop over the subdirs, and its end
Walk(p) ==
  /\ pc[p] = "walk"
  /\ IF at[p].k > Len(call[p].path)
     THEN IF call[p].readonly THEN Return(p, at[p].pid)
          ELSE Goto(p, "close") /\ UNCHANGED <<drive, lockfile, fd, local>>
     ELSE IF Subdir(p) \in DOMAIN ids[p]
          THEN /\ at' = [at EXCEPT ![p] = [k |-> at[p].k + 1, pid |-> ids[p][Subdir(p)]]]
               /\ UNCHANGED <<drive, lockfile, pc, fd, call, ids, count, ret>>
          ELSE Goto(p, "list") /\ UNCHANGED <<drive, lockfile, fd, local>>

\* Mutant: the query does not name the parent.
Matches_AnyParent(p) ==
  {id \in DOMAIN drive : drive[id].name = call[p].path[at[p].k]}

\* What the query finds on the drive
Matches(p) ==
  {id \in DOMAIN drive : /\ drive[id].parent = at[p].pid
                         /\ drive[id].name = call[p].path[at[p].k]}

\* google_api_command('list'): the first of the matches, if there is one
List(p) ==
  /\ pc[p] = "list"
  /\ \/ \E id \in Matches(p) : Found(p, id) /\ UNCHANGED drive
     \/ /\ Matches(p) = {}
        /\ IF call[p].readonly THEN Return(p, None)
           ELSE /\ Goto(p, "create")
                /\ count' = [count EXCEPT ![p] = 0]
                /\ UNCHANGED <<drive, lockfile, fd, call, at, ids, ret>>

NewFolder(p) == Append(drive, [parent |-> at[p].pid, name |-> call[p].path[at[p].k]])

\* google_api_command('create')
Create(p) ==
  /\ pc[p] = "create" /\ Len(drive) < MaxFolders
  /\ drive' = NewFolder(p)
  /\ Found(p, Len(drive'))

\* Mutant: the retries start anew instead of giving up.
ApiRaises_Anew(p) ==
  /\ pc[p] \in {"list", "create"}
  /\ count' = [count EXCEPT ![p] = IF count[p] >= Retries THEN 0 ELSE count[p] + 1]
  /\ UNCHANGED <<drive, lockfile, pc, fd, call, at, ids, ret, lost>>

\* The drive raises: wait and repeat the same command, or sys.exit in the lock
ApiRaises(p) ==
  /\ pc[p] \in {"list", "create"}
  /\ IF count[p] >= Retries THEN Ends(p) /\ UNCHANGED lost
     ELSE /\ count' = [count EXCEPT ![p] = count[p] + 1]
          /\ \/ UNCHANGED <<drive, lost>>
             \/ /\ LostReply /\ pc[p] = "create" /\ Len(drive) < MaxFolders
                /\ drive' = NewFolder(p) /\ lost' = TRUE
          /\ UNCHANGED <<lockfile, pc, fd, call, at, ids, ret>>

\* mutex_unlock, first step: fp.close() drops the lock
Close(p) ==
  /\ pc[p] = "close"
  /\ fd' = [fd EXCEPT ![p] = NoFile]
  /\ Goto(p, "remove")
  /\ UNCHANGED <<drive, lockfile, local>>

\* mutex_unlock, second step: os.remove(lockfile) takes the name away,
\* whoever locks the file by now, and raises when it is gone already
Remove(p) ==
  /\ pc[p] = "remove"
  /\ torn' = (torn \/ \E q \in Proc : pc[q] # "open" /\ fd[q] # NoFile /\ fd[q] = lockfile)
  /\ IF lockfile = NoFile THEN Ends(p)
     ELSE /\ lockfile' = NoFile
          /\ ret' = [ret EXCEPT ![p] = at[p].pid]
          /\ Goto(p, "idle")
          /\ UNCHANGED <<drive, fd, call, at, ids, count>>

\* The process is killed, at any point.
Kill(p) == pc[p] # "dead" /\ Ends(p)

Step(p) ==
  \/ /\ \/ Open(p) \/ Flock(p) \/ Walk(p) \/ List(p)
        \/ Create(p) \/ Close(p)
     /\ UNCHANGED <<lost, torn>>
  \/ Remove(p) /\ UNCHANGED lost
  \/ ApiRaises(p) /\ UNCHANGED torn

Begin(p) ==
  /\ \E path \in Paths, readonly \in BOOLEAN : Call(p, path, readonly)
  /\ UNCHANGED <<lost, torn>>

Next == \E p \in Proc : Step(p) \/ Begin(p) \/ (Kill(p) /\ UNCHANGED <<lost, torn>>)

Spec == Init /\ [][Next]_vars

\* Every process keeps running; the drive may raise as often as it likes.
FairSpec == Spec /\ \A p \in Proc : WF_vars(Step(p))

-----------------------------------------------------------------------------
(* Properties                                                               *)

\* A folder is made once: "if this subdir exists, move on".
NoDuplicateFolder ==
  \A i, j \in DOMAIN drive : drive[i] = drive[j] => i = j

\* A process between mutex_lock and mutex_unlock
Owner(p) == pc[p] \in Holding /\ ~call[p].readonly

\* Where the lock file and the retry can be relied on: as long as no owner
\* removed the file that another process had opened by then and no reply was
\* lost, one process at a time is between mutex_lock and mutex_unlock, and no
\* folder is made twice, also when owners die with the lock.
LockHoldsOnce ==
  ~lost /\ ~torn =>
    /\ NoDuplicateFolder
    /\ \A p, q \in Proc : Owner(p) /\ Owner(q) => p = q

\* The inductive strengthening: who has the file open has the file of that
\* name, one of them owns it, and no folder came to be since its owner looked.
HasFile(p) == Owner(p) \/ pc[p] = "flock"

OpenInv ==
  /\ lockfile \in Inode \cup {NoFile} /\ pc \in [Proc -> PCs]
  /\ fd \in [Proc -> Inode \cup {NoFile}]
  /\ DOMAIN call = Proc /\ DOMAIN at = Proc
  /\ \A p \in Proc : HasFile(p) => fd[p] \in Inode
  /\ \A p \in Proc : pc[p] \in {"open", "flock", "create", "close"} => ~call[p].readonly

OwnerInv ==
  ~torn => /\ \A p \in Proc : HasFile(p) => fd[p] = lockfile
           /\ \A p, q \in Proc : Owner(p) /\ Owner(q) => p = q

FolderInv ==
  ~lost /\ ~torn => /\ NoDuplicateFolder
                    /\ \A p \in Proc : pc[p] = "create" => Matches(p) = {}

IInv == OpenInv /\ OwnerInv /\ FolderInv

\* What the cache of any process says is true of the drive, whatever the
\* processes, retries and duplicates before did, and gdrive_mkdir returns a
\* folder that has the path that was asked for.
IdsTrue ==
  /\ TypeOK
  /\ \A p \in Proc : \A s \in DOMAIN ids[p] : PathOf[ids[p][s]] = s
  /\ \A p \in Proc : pc[p] = "idle" /\ ret[p] # None => PathOf[ret[p]] = call[p].path

\* The inductive strengthening: the folder a process has reached has the path
\* of the subdirs it has passed.
Reached(p) ==
  pc[p] \notin {"idle", "dead"} =>
    /\ call[p].path \in Paths
    /\ PathOf[at[p].pid] = SubSeq(call[p].path, 1, at[p].k - 1)
    /\ pc[p] \in {"list", "create"} => at[p].k <= Len(call[p].path)
    /\ pc[p] \in {"close", "remove"} => at[p].k > Len(call[p].path)

IdsInv ==
  /\ IdsTrue
  /\ \A p \in Proc : Reached(p) /\ \A s \in DOMAIN ids[p] : ids[p][s] \in 0..Len(drive)

\* Every call returns or ends its process, whoever died with the lock.
CallEnds == \A p \in Proc : pc[p] = "open" ~> pc[p] \in {"idle", "dead"}

=============================================================================
