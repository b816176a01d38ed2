------------------------------ MODULE TaskPool ------------------------------
(***************************************************************************)
(* What a pool of commands promises: a batch of tasks is submitted, at     *)
(* most Slots of them run at once, every task of the batch runs exactly    *)
(* once, and the batch is reported only when none of its tasks is left,    *)
(* with exactly the tasks that had to be terminated.                       *)
(***************************************************************************)
EXTENDS Naturals, FiniteSets

CONSTANTS
  Task,   \* everything that is ever submitted
  Slots   \* how many tasks may run at once

VARIABLES
  state,   \* "absent", "waiting", "running", "ok" or "terminated", per task
  batch,   \* the tasks of the batch being worked on; {} between batches
  failed   \* what the last report named

vars == <<state, batch, failed>>

In(s) == {t \in Task : state[t] = s}

Init ==
  /\ state = [t \in Task |-> "absent"]
  /\ batch = {}
  /\ failed = {}

Submit(S) ==
  /\ batch = {} /\ S # {} /\ S \subseteq In("absent")
  /\ state' = [t \in Task |-> IF t \in S THEN "waiting" ELSE state[t]]
  /\ batch' = S
  /\ failed' = {}

Start(t) ==
  /\ state[t] = "waiting" /\ Cardinality(In("running")) < Slots
  /\ state' = [state EXCEPT ![t] = "running"]
  /\ UNCHANGED <<batch, failed>>

Finish(t, how) ==
  /\ state[t] = "running"
  /\ state' = [state EXCEPT ![t] = how]
  /\ UNCHANGED <<batch, failed>>

Report ==
  /\ batch # {}
  /\ \A t \in batch : state[t] \in {"ok", "terminated"}
  /\ failed' = {t \in batch : state[t] = "terminated"}
  /\ batch' = {}
  /\ UNCHANGED state

Next ==
  \/ \E S \in SUBSET Task : Submit(S)
  \/ \E t \in Task : Start(t) \/ Finish(t, "ok") \/ Finish(t, "terminated")
  \/ Report

Spec == Init /\ [][Next]_vars

=============================================================================
