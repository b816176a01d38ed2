----------------------------- MODULE BootGraph -----------------------------
(***************************************************************************)
(* bootgraph.py -reboot puts kernel parameters into the boot menu and a    *)
(* job into root's crontab and reboots; after the boot the job puts both   *)
(* back and draws the timeline.  For the menu it writes a temporary grub   *)
(* file in the place of the machine's own.  The user's process and the     *)
(* job are two processes; either may be killed, and the power may fail,    *)
(* between any two steps.  A ^C is a kill: except Exception misses it.     *)
(***************************************************************************)
EXTENDS Naturals

CONSTANTS
  MaxStarts,  \* bound: how often the user calls bootgraph -reboot
  MaxFaults,  \* bound: commands that fail, kills and power failures
  MaxBoots    \* bound: boots

ASSUME BootGraphAssumption == MaxStarts \in Nat /\ MaxFaults \in Nat /\ MaxBoots \in Nat

VARIABLES
  grub,     \* what /etc/default/grub holds
  temp,     \* what /etc/default/grub.analyze_boot holds
  menu,     \* what the boot menu was made from
  cron,     \* root's crontab: is it there, and which lines has it
  back,     \* root-analyze_boot-backup
  pc,       \* the place in the user's bootgraph -reboot
  failed,   \* updateGrub: res # 0
  job,      \* the place in the bootgraph -cronjob of cron
  up,       \* the machine is up
  params,   \* the kernel runs with the parameters of the test
  users,    \* history: the lines the user's own crontab had
  request,  \* history: what became of the last -reboot
  steady,   \* history: nothing went wrong since a -reboot on a machine as found
  killed,   \* history: a bootgraph -reboot was killed
  regrub,   \* history: ... and another one overwrote the grub file it had put away
  recron,   \* history: a backup of the crontab was overwritten
  starts, faults, boots  \* how often, for the bounds

boot == <<grub, temp, menu>>
tabs == <<cron, back>>
marks == <<killed, regrub, recron>>
counts == <<starts, faults, boots>>
bootvars == <<boot, tabs, pc, failed, job, up, params, users, request, steady, marks, counts>>

Contents == {"none", "orig", "test", "cut"}
Tab(lines) == [there |-> TRUE, lines |-> lines]
NoTab == [there |-> FALSE, lines |-> {}]
Tabs == {NoTab} \cup {Tab(l) : l \in SUBSET {"user", "job"}}

PCs == {"idle", "away", "open", "write", "update", "remove", "putback", "backup",
        "opentab", "writetab", "crontab", "reboot"}
Jobs == {"idle", "start", "cron", "grub", "logs"}
Requests == {"none", "asked", "made", "error", "killed"}

BootTypeOK ==
  /\ {grub, temp, menu} \subseteq Contents
  /\ cron \in Tabs /\ back \in Tabs
  /\ pc \in PCs /\ job \in Jobs /\ request \in Requests
  /\ {failed, up, params, steady, killed, regrub, recron} \subseteq BOOLEAN
  /\ users \subseteq {"user"}

BootInit ==
  /\ grub = "orig" /\ temp = "none" /\ menu = "orig"
  /\ cron \in {NoTab, Tab({}), Tab({"user"})} /\ back = NoTab
  /\ users = cron.lines
  /\ pc = "idle" /\ failed = FALSE /\ job = "idle" /\ up = TRUE /\ params = FALSE
  /\ request = "none" /\ steady = TRUE
  /\ killed = FALSE /\ regrub = FALSE /\ recron = FALSE
  /\ starts = 0 /\ faults = 0 /\ boots = 0

AsFound ==
  /\ grub = "orig" /\ temp = "none" /\ menu = "orig"
  /\ cron.lines = users /\ ~back.there

\* Something goes wrong that the code does not control.
Fault == faults < MaxFaults /\ faults' = faults + 1 /\ steady' = FALSE
NoFault == UNCHANGED <<faults, steady>>

-----------------------------------------------------------------------------
(* bootgraph -reboot: updateKernelParams, updateGrub                        *)

\* getBootLoader ends the call when there is no grub file.
Start ==
  /\ up /\ pc = "idle" /\ starts < MaxStarts
  /\ starts' = starts + 1
  /\ steady' = (AsFound /\ job = "idle")
  /\ IF grub = "none" THEN request' = "error" /\ UNCHANGED pc
                      ELSE request' = "asked" /\ pc' = "away"
  /\ UNCHANGED <<boot, tabs, failed, job, up, params, users, marks, faults, boots>>

\* doError
Error == pc' = "idle" /\ request' = "error"

\* Going on with the next step of the user's process.
Goto(next) == pc' = next /\ UNCHANGED request

Rest == UNCHANGED <<job, up, params, users, killed, starts, boots>>

MoveAway ==
  /\ pc = "away" /\ Goto("open")
  /\ temp' = grub /\ grub' = "none" /\ failed' = FALSE
  /\ regrub' = (regrub \/ temp # "none")
  /\ NoFault /\ Rest /\ UNCHANGED <<menu, tabs, recron>>

\* open(grubfile, 'w')
OpenGrub ==
  /\ pc = "open"
  /\ \/ Goto("write") /\ grub' = "cut" /\ NoFault /\ UNCHANGED failed
     \/ Goto("putback") /\ Fault /\ failed' = TRUE /\ UNCHANGED grub
  /\ Rest /\ UNCHANGED <<temp, menu, tabs, regrub, recron>>

\* Mutant: an error while the file is written is not caught.
WriteGrub_Uncaught ==
  /\ pc = "write"
  /\ \/ Goto("update") /\ grub' = "test" /\ NoFault /\ UNCHANGED failed
     \/ Error /\ Fault /\ failed' = TRUE /\ UNCHANGED grub
  /\ Rest /\ UNCHANGED <<temp, menu, tabs, regrub, recron>>

\* The options of the machine and the parameters of the test
WriteGrub ==
  /\ pc = "write"
  /\ \/ Goto("update") /\ grub' = "test" /\ NoFault /\ UNCHANGED failed
     \/ Goto("putback") /\ Fault /\ failed' = TRUE /\ UNCHANGED grub
  /\ Rest /\ UNCHANGED <<temp, menu, tabs, regrub, recron>>

\* update-grub makes the menu, or fails, or cannot be called.
CallUpdate ==
  /\ pc = "update"
  /\ \/ Goto("remove") /\ menu' = grub /\ NoFault /\ UNCHANGED failed
     \/ /\ pc' \in {"remove", "putback"} /\ UNCHANGED request
        /\ Fault /\ failed' = TRUE /\ UNCHANGED menu
  /\ Rest /\ UNCHANGED <<grub, temp, tabs, regrub, recron>>

Remove ==
  /\ pc = "remove" /\ Goto("putback")
  /\ grub' = "none"
  /\ NoFault /\ Rest /\ UNCHANGED <<temp, menu, failed, tabs, regrub, recron>>

PutBack ==
  /\ pc = "putback"
  /\ grub' = temp /\ temp' = "none"
  /\ IF failed THEN Error ELSE Goto("backup")
  /\ NoFault /\ Rest /\ UNCHANGED <<menu, failed, tabs, regrub, recron>>

-----------------------------------------------------------------------------
(* bootgraph -reboot: updateCron                                            *)

\* The crontab is moved to the backup, or an empty backup is made; there may
\* be no crontab command or no folder for it.
Backup ==
  /\ pc = "backup"
  /\ \/ /\ Goto("opentab") /\ NoFault
        /\ back' = (IF cron.there THEN cron ELSE Tab({})) /\ cron' = NoTab
        /\ recron' = (recron \/ back.there)
     \/ Error /\ Fault /\ UNCHANGED <<tabs, recron>>
  /\ Rest /\ UNCHANGED <<boot, failed, regrub>>

\* except: the backup goes back, and "crontab failed"; without a backup the
\* move raises once more.
UndoTab ==
  /\ Error
  /\ IF back.there THEN cron' = back /\ back' = NoTab ELSE UNCHANGED tabs

\* open(backfile), open(cronfile, 'w')
OpenTab ==
  /\ pc = "opentab"
  /\ \/ back.there /\ Goto("writetab") /\ cron' = Tab({}) /\ NoFault /\ UNCHANGED back
     \/ ~back.there /\ UndoTab /\ NoFault
     \/ UndoTab /\ Fault
  /\ Rest /\ UNCHANGED <<boot, failed, regrub, recron>>

\* Every line that is no job of bootgraph, and the job.  A job that puts the
\* backup in its place meanwhile leaves the new file without a name.
WriteTab ==
  /\ pc = "writetab"
  /\ \/ /\ Goto("crontab") /\ NoFault /\ UNCHANGED back
        /\ cron' = (IF back.there THEN Tab(back.lines \cup {"job"}) ELSE cron)
     \/ UndoTab /\ Fault
  /\ Rest /\ UNCHANGED <<boot, failed, regrub, recron>>

\* Mutant: crontab failing is an exception like the others, but the backup is
\* removed and not put back.
CallCrontab_Drop ==
  /\ pc = "crontab"
  /\ \/ Goto("reboot") /\ NoFault /\ UNCHANGED tabs
     \/ Error /\ Fault /\ back' = NoTab /\ UNCHANGED cron
     \/ UndoTab /\ Fault
  /\ Rest /\ UNCHANGED <<boot, failed, regrub, recron>>

\* crontab takes the file over, or fails, which leaves file and backup, or
\* cannot be called, which is an exception.
CallCrontab ==
  /\ pc = "crontab"
  /\ \/ Goto("reboot") /\ NoFault /\ UNCHANGED tabs
     \/ Error /\ Fault /\ UNCHANGED tabs
     \/ UndoTab /\ Fault
  /\ Rest /\ UNCHANGED <<boot, failed, regrub, recron>>

\* reboot ends all processes, or does nothing.
CallReboot ==
  /\ pc = "reboot" /\ Goto("idle")
  /\ \/ up' = FALSE /\ job' = "idle" /\ NoFault
     \/ Fault /\ UNCHANGED <<up, job>>
  /\ UNCHANGED <<boot, tabs, failed, params, users, marks, starts, boots>>

User ==
  \/ MoveAway \/ OpenGrub \/ WriteGrub \/ CallUpdate \/ Remove \/ PutBack
  \/ Backup \/ OpenTab \/ WriteTab \/ CallCrontab \/ CallReboot

-----------------------------------------------------------------------------
(* The machine                                                              *)

\* The kernel gets the parameters of the menu; cron starts the job.
Boot ==
  /\ ~up /\ up' = TRUE
  /\ params' = (menu = "test")
  /\ job' = IF "job" \in cron.lines THEN "start" ELSE "idle"
  /\ UNCHANGED <<boot, tabs, pc, failed, users, request, steady, marks, counts>>

\* The user shuts the machine down while nothing runs, or the power fails.
Restart ==
  /\ up /\ boots < MaxBoots
  /\ boots' = boots + 1 /\ up' = FALSE
  /\ pc' = "idle" /\ job' = "idle"
  /\ IF pc = "idle" /\ job = "idle" THEN NoFault /\ UNCHANGED <<request, killed>>
     ELSE /\ Fault /\ request' = "killed"
          /\ killed' = (killed \/ pc # "idle")
  /\ UNCHANGED <<boot, tabs, failed, params, users, regrub, recron, starts>>

\* ^C, or a kill of one of the two processes
Kill ==
  /\ Fault /\ request' = "killed"
  /\ \/ pc # "idle" /\ pc' = "idle" /\ killed' = TRUE /\ UNCHANGED job
     \/ job # "idle" /\ job' = "idle" /\ UNCHANGED <<pc, killed>>
  /\ UNCHANGED <<boot, tabs, failed, up, params, users, regrub, recron, starts, boots>>

-----------------------------------------------------------------------------
(* bootgraph -cronjob                                                       *)

JobRest == UNCHANGED <<grub, temp, pc, failed, up, params, users, marks, starts, boots>>

\* doError: somebody may read it in the mail of cron.
JobError == job' = "idle" /\ request' = "error"

\* The arguments are read once more: a file or tracefs may not be there yet.
JobStart ==
  /\ job = "start"
  /\ \/ job' = "cron" /\ NoFault /\ UNCHANGED request
     \/ JobError /\ Fault
  /\ JobRest /\ UNCHANGED <<menu, tabs>>

\* Mutant: the backup is copied back and stays.
JobCron_Copy ==
  /\ job = "cron"
  /\ \/ job' = "grub" /\ NoFault /\ UNCHANGED request
     \/ JobError /\ Fault
  /\ cron' = (IF back.there THEN back ELSE cron) /\ UNCHANGED back
  /\ JobRest /\ UNCHANGED menu

\* updateCron(True)
JobCron ==
  /\ job = "cron"
  /\ \/ job' = "grub" /\ NoFault /\ UNCHANGED request
     \/ JobError /\ Fault
  /\ IF back.there THEN cron' = back /\ back' = NoTab ELSE UNCHANGED tabs
  /\ JobRest /\ UNCHANGED menu

\* updateKernelParams(True): a fault of update-grub is not noticed.
JobGrub ==
  /\ job = "grub"
  /\ \/ grub = "none" /\ JobError /\ NoFault /\ UNCHANGED menu
     \/ /\ grub # "none" /\ job' = "logs" /\ UNCHANGED request
        /\ \/ menu' = grub /\ NoFault
           \/ Fault /\ UNCHANGED menu
  /\ JobRest /\ UNCHANGED tabs

\* retrieveLogs, parseKernelLog: only initcall_debug gives valid data.
JobLogs ==
  /\ job = "logs" /\ job' = "idle"
  /\ request' = IF params THEN "made" ELSE "error"
  /\ NoFault /\ JobRest /\ UNCHANGED <<menu, tabs>>

Job == JobStart \/ JobCron \/ JobGrub \/ JobLogs

BootNext == Start \/ User \/ Boot \/ Job \/ Restart \/ Kill

BootSpec == BootInit /\ [][BootNext]_bootvars

\* A process that runs goes on, a machine that is down boots.
BootFairSpec == BootSpec /\ WF_bootvars(User) /\ WF_bootvars(Job) /\ WF_bootvars(Boot)

-----------------------------------------------------------------------------
(* Properties                                                               *)

\* The machine's own grub file is lost only by a -reboot after one that was
\* killed while the file was away, and every other end of bootgraph, errors
\* included, leaves it in place.
GrubKept ==
  /\ ~regrub => grub = "orig" \/ temp = "orig"
  /\ ~killed /\ pc = "idle" => grub = "orig" /\ temp = "none"

\* The user's own crontab is never lost and the job can always be taken out
\* of it, unless a second -reboot overwrote the backup of the first.
CronKept ==
  ~recron =>
    /\ users \subseteq cron.lines \cup back.lines
    /\ "job" \in cron.lines => back.there /\ back.lines = users

\* A -reboot on a machine as found makes a timeline and leaves the machine as
\* it was, "(restore=True) Restore the original crontab", so that no later boot
\* is taken over, unless something goes wrong that the code does not control.
RequestKept == (request = "asked" /\ steady) ~> ((request = "made" /\ AsFound) \/ ~steady)

=============================================================================
