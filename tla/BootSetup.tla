----------------------------- MODULE BootSetup -----------------------------
(***************************************************************************)
(* bootsetup and bootclean of lib/remotemachine.py put a grub file of the  *)
(* tester in the place of the machine's own and back.  Each step is an ssh *)
(* command whose result nobody looks at; the two tests are read as true    *)
(* when they time out.  bootsetup is called before a run, by pm_graph and  *)
(* after every restart; bootclean only when a run ends in good order.      *)
(***************************************************************************)
EXTENDS FiniteSets

CONSTANTS
  MayFail,   \* the commands that may have no effect
  MayBeLate  \* the commands that may time out and take effect later on

Commands == {"backup", "install", "update", "move"}

VARIABLES
  mine,     \* whether the machine has a grub file of the tester
  grub,     \* whose file is /etc/default/grub
  saved,    \* whose file is the copy of it, if there is one
  menu,     \* whose file the boot menu was made from
  pc,       \* the command that comes next
  late,     \* commands that timed out and may still take effect
  cleaned   \* history: the last call was a bootclean without fault

disk == <<grub, saved, menu>>

PCs == {"idle", "testorig", "testmine", "backup", "install", "update",
        "testsaved", "move", "cleanupdate"}

TypeOK ==
  /\ mine \in BOOLEAN /\ cleaned \in BOOLEAN
  /\ grub \in {"orig", "mine"} /\ menu \in {"orig", "mine"}
  /\ saved \in {"none", "orig", "mine"}
  /\ pc \in PCs /\ late \subseteq Commands

-----------------------------------------------------------------------------
(* What the commands do on the machine                                      *)

Effect(c) ==
  \/ c = "backup" /\ saved' = grub /\ UNCHANGED <<grub, menu>>
  \/ c = "install" /\ mine /\ grub' = "mine" /\ UNCHANGED <<saved, menu>>
  \/ c = "install" /\ ~mine /\ UNCHANGED disk
  \/ c = "update" /\ menu' = grub /\ UNCHANGED <<grub, saved>>
  \/ c = "move" /\ saved # "none" /\ grub' = saved /\ saved' = "none" /\ UNCHANGED menu
  \/ c = "move" /\ saved = "none" /\ UNCHANGED disk

Fault(c) ==
  \/ c \in MayFail /\ UNCHANGED <<disk, late>>
  \/ c \in MayBeLate /\ late' = late \cup {c} /\ UNCHANGED disk

\* The caller goes on to the next command whatever became of this one.
Command(c, next) ==
  /\ \/ Effect(c) /\ UNCHANGED late
     \/ Fault(c)
  /\ pc' = next
  /\ UNCHANGED <<mine, cleaned>>

\* A command that timed out runs to its end after all.
RunLate ==
  /\ \E c \in late : Effect(c) /\ late' = late \ {c}
  /\ UNCHANGED <<mine, pc, cleaned>>

-----------------------------------------------------------------------------
(* bootsetup                                                                *)

\* oscheck: another system than Ubuntu, or no answer, ends both functions.
Setup ==
  /\ pc = "idle"
  /\ pc' \in {"testorig", "idle"} /\ cleaned' = FALSE
  /\ UNCHANGED <<mine, disk, late>>

\* test -f of the copy: a yes, or a timeout, ends bootsetup.
TestOrig ==
  /\ pc = "testorig"
  /\ pc' \in IF saved = "none" THEN {"idle", "testmine"} ELSE {"idle"}
  /\ UNCHANGED <<mine, disk, late, cleaned>>

\* test -f of the tester's file: a no ends bootsetup, a timeout does not.
TestMine ==
  /\ pc = "testmine"
  /\ pc' \in IF mine THEN {"backup"} ELSE {"idle", "backup"}
  /\ UNCHANGED <<mine, disk, late, cleaned>>

Backup == pc = "backup" /\ Command("backup", "install")

\* Mutant: update-grub is forgotten.
Install_NoUpdate == pc = "install" /\ Command("install", "idle")

Install == pc = "install" /\ Command("install", "update")
Update == pc = "update" /\ Command("update", "idle")

-----------------------------------------------------------------------------
(* bootclean                                                                *)

Clean ==
  /\ pc = "idle"
  /\ pc' \in {"testsaved", "idle"} /\ cleaned' = FALSE
  /\ UNCHANGED <<mine, disk, late>>

\* test -f of the copy: a no ends bootclean.
TestSaved ==
  /\ pc = "testsaved"
  /\ IF saved = "none"
     THEN \/ pc' = "idle" /\ cleaned' = TRUE
          \/ pc' = "move" /\ UNCHANGED cleaned
     ELSE pc' = "move" /\ UNCHANGED cleaned
  /\ UNCHANGED <<mine, disk, late>>

Move ==
  /\ pc = "move" /\ pc' = "cleanupdate"
  /\ \/ Effect("move") /\ cleaned' = TRUE /\ UNCHANGED late
     \/ Fault("move") /\ UNCHANGED cleaned
  /\ UNCHANGED mine

CleanUpdate == pc = "cleanupdate" /\ Command("update", "idle")

-----------------------------------------------------------------------------
(* Properties                                                               *)

\* The machine's own grub file is never lost: it is in place or in the copy.
OriginalKept == grub = "orig" \/ saved = "orig"

\* "restore original grub file": after a bootclean without fault the machine
\* has its own grub file, whatever became of the calls of bootsetup before.
CleanRestores == cleaned => grub = "orig"

\* The inductive strengthening: only the own file is ever copied, and the
\* tester's file is in place only while there is a copy.
IInv ==
  /\ TypeOK
  /\ saved # "mine"
  /\ grub = "mine" => saved = "orig"
  /\ pc \in {"testmine", "backup"} => grub = "orig"
  /\ pc = "install" => saved = "orig"
  /\ cleaned => pc \in {"idle", "cleanupdate"} /\ grub = "orig"

=============================================================================
