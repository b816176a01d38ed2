----------------------------- MODULE StressBoot -----------------------------
(***************************************************************************)
(* The run command of StressRun on a machine whose grub file BootSetup     *)
(* swaps: wherever stresstest.py calls bootsetup or bootclean it waits for *)
(* the commands of that function, and a reset of the machine ends what was *)
(* still running there.  The machine may be as an earlier run left it.     *)
(***************************************************************************)
EXTENDS StressRun

CONSTANTS MayFail, MayBeLate   \* as in BootSetup

VARIABLES
  mine, grub, saved, menu, late, cleaned,  \* as in BootSetup
  step,    \* pc of BootSetup
  smooth   \* history: no command of bootsetup had a fault, and none before this run

B == INSTANCE BootSetup WITH pc <- step

swap == <<mine, grub, saved, menu, late, cleaned>>
allvars == <<vars, swap, step, smooth>>

\* An earlier run was interrupted anywhere, or died, or nothing is left of it.
InitBoot ==
  /\ Init
  /\ mine \in BOOLEAN /\ late = {} /\ cleaned = FALSE /\ step = "idle"
  /\ grub \in {"orig", "mine"} /\ saved \in {"none", "orig"} /\ menu \in {"orig", "mine"}
  /\ grub = "mine" => saved = "orig"
  /\ grub = "mine" \/ menu = "mine" => mine
  /\ smooth = (saved = "none" /\ menu = "orig")

-----------------------------------------------------------------------------

\* bootsetup is called: at the start of run, before the loop of pm_graph, and
\* by restart_or_die and reboot_or_die once the machine answers.
CallsSetup ==
  \/ pc \in {"bootsetup", "prepare"}
  \/ pc = "ping" /\ pc' = ret /\ rebooted
  \/ pc = "bootping" /\ pc' = "mode"

CallsClean == pc = "finish"

\* A reset or a reboot also ends what was still running, if it takes effect.
ResetsMachine == pc \in {"restart", "ping", "reboot"} /\ ~setup'

\* A step of stresstest.py, once the function it called has returned
Run ==
  /\ step = "idle" /\ Next
  /\ \/ CallsSetup /\ B!Setup
     \/ CallsClean /\ B!Clean
     \/ /\ ~CallsSetup /\ ~CallsClean
        /\ late' \in {late} \cup (IF ResetsMachine THEN {{}} ELSE {})
        /\ UNCHANGED <<mine, grub, saved, menu, cleaned, step>>
  /\ smooth' = (smooth /\ (CallsSetup => step' # "idle"))

\* The command that bootsetup has come to does what it is called for.
NoFault ==
  /\ step = "testorig" => saved # "none" \/ step' = "testmine"
  /\ step = "testmine" => mine \/ step' = "idle"
  /\ step = "install" => (mine => grub' = "mine")
  /\ step = "update" => menu' = grub

\* A step of bootsetup or bootclean
Called ==
  /\ step # "idle"
  /\ \/ B!TestOrig \/ B!TestMine \/ B!Backup \/ B!Install \/ B!Update
     \/ B!TestSaved \/ B!Move \/ B!CleanUpdate
  /\ UNCHANGED vars
  /\ smooth' = (smooth /\ NoFault)

\* A command that was given up runs to its end after all.
Late == B!RunLate /\ UNCHANGED <<vars, smooth>>

NextBoot == Run \/ Called \/ Late

SpecBoot == InitBoot /\ [][NextBoot]_allvars

FairSpecBoot == SpecBoot /\ WF_allvars(Run) /\ WF_allvars(Called)

-----------------------------------------------------------------------------
(* Properties                                                               *)

\* However run ends, the machine's own grub file is in place or in the copy; a
\* run that ended in good order and whose bootclean had no fault put it back;
\* and while sleepgraph runs on a machine that was set up without a fault, the
\* boot menu was made from the tester's file if it has one.
GrubSwapped ==
  /\ B!OriginalKept /\ B!CleanRestores
  /\ pc = "test" /\ smooth /\ mine => grub = "mine" /\ menu = "mine"

=============================================================================
