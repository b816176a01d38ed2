------------------------ MODULE SleepgraphRunProofs ------------------------
(***************************************************************************)
(* Proofs about SleepgraphRun for any set of devices and any number of     *)
(* tests and suspends.                                                     *)
(***************************************************************************)
EXTENDS SleepgraphRun, SequenceTheorems, FiniteSetTheorems, TLAPS

(* Every step keeps the flags Boolean.                                     *)
LEMMA FlagsStep ==
  ASSUME Flags, [Next]_vars
  PROVE  Flags'
  <1> USE SleepgraphRunAssumption DEF vars, test, knobs, runtime, tracer, Flags
  <1>1. CASE Runtime
    BY <1>1, Zenon DEF Runtime, Goto
  <1>2. CASE Debug
    BY <1>2, Zenon DEF Debug, Goto, TestVal
  <1>3. CASE InitFtrace
    BY <1>3, Zenon DEF InitFtrace, Goto
  <1>4. CASE Start
    BY <1>4, Zenon DEF Start, Goto
  <1>5. CASE Arm
    BY <1>5, Zenon DEF Arm, Goto, Write
  <1>6. CASE SetMode
    BY <1>6, Zenon DEF SetMode, Goto, TestVal
  <1>7. CASE Suspend
    BY <1>7, Zenon DEF Suspend, Goto
  <1>8. CASE RestoreAll
    BY <1>8, Zenon DEF RestoreAll, Goto
  <1>9. CASE Wake
    BY <1>9, Zenon DEF Wake, Goto, Write, StopTrace
  <1>10. CASE Wifi
    BY <1>10, Zenon DEF Wifi, Goto, Write, StopTrace
  <1>11. CASE Capture
    BY <1>11, Zenon DEF Capture, Goto
  <1>12. CASE Process
    BY <1>12, Zenon DEF Process, Goto, TooManyFails
  <1>13. CASE Finish
    BY <1>13, Zenon DEF Finish, Goto
  <1>14. CASE Raise
    BY <1>14, Zenon DEF Raise, Goto
  <1>15. CASE Signal
    BY <1>15, Zenon DEF Signal, Goto
  <1>16. CASE \E t \in 1..Tests : MonitorEnds(t)
    BY <1>16, Zenon DEF MonitorEnds
  <1>17. CASE UNCHANGED vars
    BY <1>17, Zenon
  <1> QED
    BY <1>1, <1>2, <1>3, <1>4, <1>5, <1>6, <1>7, <1>8, <1>9, <1>10, <1>11, <1>12, <1>13, <1>14,
        <1>15, <1>16, <1>17 DEF Next, Main

(* Failed writes are of known files, and counted.                          *)
LEMMA LoseRanges ==
  ASSUME losses \in Nat, lost \subseteq Files, NEW F \in SUBSET Files, Lose(F)
  PROVE  lost' \subseteq Files /\ losses' \in Nat
  <1>1. IsFiniteSet(Files)
    <2>1. /\ IsFiniteSet({"tracing_on"} \cup {"kprobes"})
          /\ IsFiniteSet({"tracefs"} \cup {"trace"})
          /\ IsFiniteSet({"trace_marker"} \cup {"alarm"})
      BY FS_Singleton, FS_Union
    <2>2. IsFiniteSet(({"tracing_on"} \cup {"kprobes"}) \cup ({"tracefs"} \cup {"trace"}))
      BY <2>1, FS_Union
    <2>3. IsFiniteSet((({"tracing_on"} \cup {"kprobes"}) \cup ({"tracefs"} \cup {"trace"}))
                      \cup ({"trace_marker"} \cup {"alarm"}))
      BY <2>1, <2>2, FS_Union
    <2>4. Files = (({"tracing_on"} \cup {"kprobes"}) \cup ({"tracefs"} \cup {"trace"}))
                  \cup ({"trace_marker"} \cup {"alarm"})
      BY DEF Files
    <2> QED BY <2>3, <2>4
  <1>2. Cardinality(F) \in Nat
    BY <1>1, FS_Subset, FS_CardinalityType
  <1> QED BY <1>2 DEF Lose, Count

LEMMA SticksRanges ==
  ASSUME losses \in Nat, NEW D \in SUBSET Devices, Sticks(D)
  PROVE  stuck' \subseteq Devices /\ losses' \in Nat
  <1>1. Cardinality(D) \in Nat
    BY SleepgraphRunAssumption, FS_Subset, FS_CardinalityType
  <1> QED BY <1>1 DEF Sticks, Count

(* Every step keeps the other variables in their ranges.                   *)
LEMMA RangesStep ==
  ASSUME Ranges, [Next]_vars
  PROVE  Ranges'
  <1> USE SleepgraphRunAssumption DEF vars, test, knobs, runtime, tracer, Ranges, PCs, Busy,
      Options, Knobs, Owner, Power, RsValue, RsTarget
  <1>1. CASE Runtime
    <2>1. rslist' \subseteq Devices /\ stuck' \subseteq Devices /\ losses' \in Nat
      BY <1>1, SticksRanges DEF Runtime
    <2>2. power' \in [Devices -> Power] /\ lost' \subseteq Files
      BY <1>1 DEF Runtime
    <2> QED BY <1>1, <2>1, <2>2 DEF Runtime, Goto
  <1>2. CASE Debug
    BY <1>2 DEF Debug, Goto, TestVal
  <1>3. CASE InitFtrace
    <2>1. lost' \subseteq Files /\ losses' \in Nat
      BY <1>3, LoseRanges DEF InitFtrace, Files
    <2> QED BY <1>3, <2>1 DEF InitFtrace, Goto
  <1>4. CASE Start
    <2>1. lost' \subseteq Files /\ losses' \in Nat
      BY <1>4, LoseRanges DEF Start, Files
    <2> QED BY <1>4, <2>1 DEF Start, Goto
  <1>5. CASE Arm
    <2>1. lost' \subseteq Files /\ losses' \in Nat
      BY <1>5, LoseRanges DEF Arm, Files
    <2> QED BY <1>5, <2>1 DEF Arm, Goto, Write
  <1>6. CASE SetMode
    BY <1>6 DEF SetMode, Goto, TestVal
  <1>7. CASE Suspend
    BY <1>7 DEF Suspend, Goto
  <1>8. CASE RestoreAll
    <2>1. lost' \subseteq Files /\ losses' \in Nat
      BY <1>8, LoseRanges DEF RestoreAll, Files
    <2> QED BY <1>8, <2>1 DEF RestoreAll, Goto
  <1>9. CASE Wake
    <2>1. lost' \subseteq Files /\ losses' \in Nat
      BY <1>9, LoseRanges DEF Wake, Ending, Marking, Files
    <2> QED BY <1>9, <2>1 DEF Wake, Goto, Write, StopTrace
  <1>10. CASE Wifi
    <2>1. lost' \subseteq Files /\ losses' \in Nat
      BY <1>10, LoseRanges DEF Wifi, Ending, Files
    <2> QED BY <1>10, <2>1 DEF Wifi, Goto, Write, StopTrace
  <1>11. CASE Capture
    <2>1. lost' \subseteq Files /\ losses' \in Nat
      BY <1>11, LoseRanges DEF Capture, Files
    <2> QED BY <1>11, <2>1 DEF Capture, Goto
  <1>12. CASE Process
    BY <1>12 DEF Process, Goto, TooManyFails
  <1>13. CASE Finish
    <2>1. stuck' \subseteq Devices /\ losses' \in Nat
      BY <1>13, SticksRanges DEF Finish
    <2> QED BY <1>13, <2>1 DEF Finish, Goto
  <1>14. CASE Raise
    BY <1>14 DEF Raise, Goto
  <1>15. CASE Signal
    BY <1>15 DEF Signal, Goto
  <1>16. CASE \E t \in 1..Tests : MonitorEnds(t)
    BY <1>16 DEF MonitorEnds
  <1>17. CASE UNCHANGED vars
    BY <1>17
  <1> QED
    BY <1>1, <1>2, <1>3, <1>4, <1>5, <1>6, <1>7, <1>8, <1>9, <1>10, <1>11, <1>12, <1>13, <1>14,
        <1>15, <1>16, <1>17 DEF Next, Main

(* testVal writes a file only when the value there is the own one.         *)
LEMMA KeptStep ==
  ASSUME TypeOK, Kept, KnobsInv, [Next]_vars
  PROVE  Kept'
  <1> USE SleepgraphRunAssumption DEF vars, test, knobs, runtime, tracer, TypeOK, Ranges, Kept,
      KnobsInv, Knobs, Owner, Ended, Unread, Options
  <1>1. CASE Runtime
    BY <1>1 DEF Runtime, Goto
  <1>2. CASE Debug
    BY <1>2 DEF Debug, Goto, TestVal
  <1>3. CASE InitFtrace
    BY <1>3 DEF InitFtrace, Goto
  <1>4. CASE Start
    BY <1>4 DEF Start, Goto
  <1>5. CASE Arm
    BY <1>5 DEF Arm, Goto, Write
  <1>6. CASE SetMode
    BY <1>6 DEF SetMode, Goto, TestVal
  <1>7. CASE Suspend
    BY <1>7 DEF Suspend, Goto
  <1>8. CASE RestoreAll
    BY <1>8 DEF RestoreAll, Goto
  <1>9. CASE Wake
    BY <1>9 DEF Wake, Goto, Write, StopTrace
  <1>10. CASE Wifi
    BY <1>10 DEF Wifi, Goto, Write, StopTrace
  <1>11. CASE Capture
    BY <1>11 DEF Capture, Goto
  <1>12. CASE Process
    BY <1>12 DEF Process, Goto, TooManyFails
  <1>13. CASE Finish
    BY <1>13 DEF Finish, Goto
  <1>14. CASE Raise
    BY <1>14 DEF Raise, Goto
  <1>15. CASE Signal
    BY <1>15 DEF Signal, Goto
  <1>16. CASE \E t \in 1..Tests : MonitorEnds(t)
    BY <1>16 DEF MonitorEnds
  <1>17. CASE UNCHANGED vars
    BY <1>17
  <1> QED
    BY <1>1, <1>2, <1>3, <1>4, <1>5, <1>6, <1>7, <1>8, <1>9, <1>10, <1>11, <1>12, <1>13, <1>14,
        <1>15, <1>16, <1>17 DEF Next, Main

(* What testVal keeps is gone once restoreall has run.                     *)
LEMMA KnobsStep ==
  ASSUME TypeOK, Kept, KnobsInv, [Next]_vars
  PROVE  KnobsInv'
  <1> USE SleepgraphRunAssumption DEF vars, test, knobs, runtime, tracer, TypeOK, Ranges, Kept,
      KnobsInv, Knobs, Owner, Ended, Unread
  <1>1. CASE Runtime
    BY <1>1 DEF Runtime, Goto
  <1>2. CASE Debug
    BY <1>2 DEF Debug, Goto, TestVal
  <1>3. CASE InitFtrace
    BY <1>3 DEF InitFtrace, Goto
  <1>4. CASE Start
    BY <1>4 DEF Start, Goto
  <1>5. CASE Arm
    BY <1>5 DEF Arm, Goto, Write
  <1>6. CASE SetMode
    BY <1>6 DEF SetMode, Goto, TestVal
  <1>7. CASE Suspend
    BY <1>7 DEF Suspend, Goto
  <1>8. CASE RestoreAll
    BY <1>8 DEF RestoreAll, Goto
  <1>9. CASE Wake
    BY <1>9 DEF Wake, Goto, Write, StopTrace
  <1>10. CASE Wifi
    BY <1>10 DEF Wifi, Goto, Write, StopTrace
  <1>11. CASE Capture
    BY <1>11 DEF Capture, Goto
  <1>12. CASE Process
    BY <1>12 DEF Process, Goto, TooManyFails
  <1>13. CASE Finish
    BY <1>13 DEF Finish, Goto
  <1>14. CASE Raise
    BY <1>14 DEF Raise, Goto
  <1>15. CASE Signal
    BY <1>15 DEF Signal, Goto
  <1>16. CASE \E t \in 1..Tests : MonitorEnds(t)
    BY <1>16 DEF MonitorEnds
  <1>17. CASE UNCHANGED vars
    BY <1>17
  <1> QED
    BY <1>1, <1>2, <1>3, <1>4, <1>5, <1>6, <1>7, <1>8, <1>9, <1>10, <1>11, <1>12, <1>13, <1>14,
        <1>15, <1>16, <1>17 DEF Next, Main

(* Trace, probes and alarm follow the place in the code.                   *)
LEMMA TracerStep ==
  ASSUME TypeOK, TracerInv, [Next]_vars
  PROVE  TracerInv'
  <1> USE SleepgraphRunAssumption DEF vars, test, knobs, runtime, tracer, TypeOK, Ranges, Flags,
      TracerInv, Looping, Traced, Busy, Owner, Lose, Ending, Marking
  <1>1. CASE Runtime
    BY <1>1 DEF Runtime, Goto
  <1>2. CASE Debug
    BY <1>2 DEF Debug, Goto, TestVal
  <1>3. CASE InitFtrace
    <2>1. PICK F \in SUBSET {"tracing_on", "kprobes", "tracefs", "trace"} :
            /\ tracing' = (tracing /\ "tracing_on" \in F)
            /\ probes' \in IF "kprobes" \in F THEN {probes, FALSE} ELSE {TRUE}
            /\ tracefs' \in IF "tracefs" \in F THEN {tracefs, "tool"} ELSE {"tool"}
            /\ lost' = lost \cup F
      BY <1>3, Zenon DEF InitFtrace, Lose
    <2>2. /\ "tracing_on" \notin lost' => ~tracing'
          /\ "kprobes" \notin lost' => probes'
          /\ "tracefs" \notin lost' => tracefs' = "tool"
      BY <2>1, Zenon
    <2>3. pc' \in {"start", "raised"}
      BY <1>3 DEF InitFtrace
    <2> QED BY <2>2, <2>3
  <1>4. CASE Start
    <2>1. PICK F \in SUBSET {"tracing_on"} :
            tracing' = (tracing \/ F = {}) /\ lost' = lost \cup F
      BY <1>4 DEF Start, Lose
    <2>2. lost \subseteq lost' /\ ("tracing_on" \notin lost' => tracing')
      BY <2>1
    <2>3. pc = "start" /\ pc' = "loop" /\ UNCHANGED <<probes, tracefs>>
      BY <1>4 DEF Start, Goto
    <2> QED BY <2>2, <2>3
  <1>5. CASE Arm
    BY <1>5 DEF Arm, Goto, Write
  <1>6. CASE SetMode
    BY <1>6 DEF SetMode, Goto, TestVal
  <1>7. CASE Suspend
    BY <1>7 DEF Suspend, Goto
  <1>8. CASE RestoreAll
    <2>1. CASE pc' = "wake"
      <3>1. lost \subseteq lost' /\ ("alarm" \notin lost' => ~alarm')
        BY <1>8, <2>1 DEF RestoreAll, Goto
      <3>2. UNCHANGED <<tracing, probes, tracefs>>
        BY <1>8, <2>1 DEF RestoreAll
      <3> QED BY <1>8, <2>1, <3>1, <3>2 DEF RestoreAll
    <2>2. CASE pc' = "raised"
      BY <2>2
    <2> QED BY <1>8, <2>1, <2>2 DEF RestoreAll, Goto
  <1>9. CASE Wake
    BY <1>9 DEF Wake, Goto, Write, StopTrace
  <1>10. CASE Wifi
    BY <1>10 DEF Wifi, Goto, Write, StopTrace
  <1>11. CASE Capture
    BY <1>11 DEF Capture, Goto
  <1>12. CASE Process
    BY <1>12 DEF Process, Goto, TooManyFails
  <1>13. CASE Finish
    BY <1>13 DEF Finish, Goto
  <1>14. CASE Raise
    BY <1>14 DEF Raise, Goto
  <1>15. CASE Signal
    BY <1>15 DEF Signal, Goto
  <1>16. CASE \E t \in 1..Tests : MonitorEnds(t)
    BY <1>16 DEF MonitorEnds
  <1>17. CASE UNCHANGED vars
    BY <1>17
  <1> QED
    BY <1>1, <1>2, <1>3, <1>4, <1>5, <1>6, <1>7, <1>8, <1>9, <1>10, <1>11, <1>12, <1>13, <1>14,
        <1>15, <1>16, <1>17 DEF Next, Main

(* The changed devices are those setRuntimeSuspend found, until the end.   *)
LEMMA RuntimeStep ==
  ASSUME TypeOK, RuntimeInv, [Next]_vars
  PROVE  RuntimeInv'
  <1> USE SleepgraphRunAssumption DEF vars, test, knobs, runtime, tracer, TypeOK, Ranges,
      RuntimeInv, Changed, RsTarget, RsValue, Power, Ended, Busy
  <1>1. CASE Runtime
    <2>1. CASE n = 1 /\ opt.rs # "none"
      <3>1. rslist' = Changed /\ pc' = "debug"
        BY <1>1, <2>1 DEF Runtime, Goto
      <3>2. /\ power' = [d \in Devices |->
                          IF d \in Changed \ stuck' THEN RsValue ELSE found[d]]
            /\ stuck' \subseteq Changed
        BY <1>1, <2>1, <3>1 DEF Runtime, Sticks
      <3>3. UNCHANGED <<opt, found, n>>
        BY <1>1 DEF Runtime
      <3> QED BY <3>1, <3>2, <3>3
    <2>2. CASE n = 1 /\ opt.rs = "none"
      <3>1. Changed = {} /\ rslist' = {} /\ power' = found /\ pc' = "debug"
        BY <1>1, <2>2 DEF Runtime, Goto
      <3>2. UNCHANGED <<opt, found, n>>
        BY <1>1 DEF Runtime
      <3> QED BY <3>1, <3>2
    <2>3. CASE n # 1
      BY <1>1, <2>3 DEF Runtime, Goto
    <2> QED BY <2>1, <2>2, <2>3
  <1>2. CASE Debug
    BY <1>2 DEF Debug, Goto, TestVal
  <1>3. CASE InitFtrace
    BY <1>3 DEF InitFtrace, Goto
  <1>4. CASE Start
    BY <1>4 DEF Start, Goto
  <1>5. CASE Arm
    BY <1>5 DEF Arm, Goto, Write
  <1>6. CASE SetMode
    BY <1>6 DEF SetMode, Goto, TestVal
  <1>7. CASE Suspend
    BY <1>7 DEF Suspend, Goto
  <1>8. CASE RestoreAll
    BY <1>8 DEF RestoreAll, Goto
  <1>9. CASE Wake
    BY <1>9 DEF Wake, Goto, Write, StopTrace
  <1>10. CASE Wifi
    BY <1>10 DEF Wifi, Goto, Write, StopTrace
  <1>11. CASE Capture
    BY <1>11 DEF Capture, Goto
  <1>12. CASE Process
    BY <1>12 DEF Process, Goto, TooManyFails
  <1>13. CASE Finish
    <2>1. rslist = Changed /\ pc' = "exit" /\ UNCHANGED <<opt, found, rslist>>
      BY <1>13 DEF Finish, Goto
    <2>2. power' = [d \in Devices |-> IF d \in Changed \ stuck' THEN RsTarget ELSE power[d]]
      BY <1>13, <2>1 DEF Finish
    <2>3. /\ \A d \in Devices \ Changed : power[d] = found[d]
          /\ \A d \in Changed : found[d] = RsTarget
      BY <1>13 DEF Finish
    <2>4. \A d \in Devices \ stuck' : power'[d] = found[d]
      BY <2>2, <2>3
    <2> QED BY <2>1, <2>4
  <1>14. CASE Raise
    BY <1>14 DEF Raise, Goto
  <1>15. CASE Signal
    BY <1>15 DEF Signal, Goto
  <1>16. CASE \E t \in 1..Tests : MonitorEnds(t)
    BY <1>16 DEF MonitorEnds
  <1>17. CASE UNCHANGED vars
    BY <1>17
  <1> QED
    BY <1>1, <1>2, <1>3, <1>4, <1>5, <1>6, <1>7, <1>8, <1>9, <1>10, <1>11, <1>12, <1>13, <1>14,
        <1>15, <1>16, <1>17 DEF Next, Main

(* failcnt is the number of fails in a row.                                *)
LEMMA FailStep ==
  ASSUME TypeOK, FailInv, [Next]_vars
  PROVE  FailInv'
  <1> USE SleepgraphRunAssumption DEF vars, test, knobs, runtime, tracer, TypeOK, Ranges,
      FailInv, Busy
  <1>1. CASE Runtime
    BY <1>1 DEF Runtime, Goto
  <1>2. CASE Debug
    BY <1>2 DEF Debug, Goto, TestVal
  <1>3. CASE InitFtrace
    BY <1>3 DEF InitFtrace, Goto
  <1>4. CASE Start
    BY <1>4 DEF Start, Goto
  <1>5. CASE Arm
    BY <1>5 DEF Arm, Goto, Write
  <1>6. CASE SetMode
    BY <1>6 DEF SetMode, Goto, TestVal
  <1>7. CASE Suspend
    BY <1>7 DEF Suspend, Goto
  <1>8. CASE RestoreAll
    BY <1>8 DEF RestoreAll, Goto
  <1>9. CASE Wake
    BY <1>9 DEF Wake, Goto, Write, StopTrace
  <1>10. CASE Wifi
    BY <1>10 DEF Wifi, Goto, Write, StopTrace
  <1>11. CASE Capture
    BY <1>11 DEF Capture, Goto
  <1>12. CASE Process
    BY <1>12 DEF Process, Goto, TooManyFails
  <1>13. CASE Finish
    BY <1>13 DEF Finish, Goto
  <1>14. CASE Raise
    BY <1>14 DEF Raise, Goto
  <1>15. CASE Signal
    BY <1>15 DEF Signal, Goto
  <1>16. CASE \E t \in 1..Tests : MonitorEnds(t)
    BY <1>16 DEF MonitorEnds
  <1>17. CASE UNCHANGED vars
    BY <1>17
  <1> QED
    BY <1>1, <1>2, <1>3, <1>4, <1>5, <1>6, <1>7, <1>8, <1>9, <1>10, <1>11, <1>12, <1>13, <1>14,
        <1>15, <1>16, <1>17 DEF Next, Main

(* One more mark makes the first k marks the first k + 1.                  *)
LEMMA MarksAppend ==
  ASSUME NEW k \in Nat, NEW m,
         m = [test |-> n, suspend |-> (k + 2) \div 2,
              mark |-> IF k % 2 = 0 THEN "start" ELSE "end"]
  PROVE  Append(Marks(k), m) = Marks(k + 1)
  <1> DEFINE a == Marks(k)
             b == Marks(k + 1)
             S == {b[i] : i \in 1..(k + 1)}
             app == Append(a, m)
  <1>1. b[k + 1] = m
    <2>1. (k + 1) % 2 = 1 <=> k % 2 = 0
      OBVIOUS
    <2>2. k + 1 \in 1..(k + 1) /\ (k + 1) + 1 = k + 2
      OBVIOUS
    <2> QED BY <2>1, <2>2 DEF Marks
  <1>2. \A i \in 1..k : i \in 1..(k + 1) /\ a[i] = b[i]
    BY DEF Marks
  <1>3. DOMAIN a = 1..k /\ DOMAIN b = 1..(k + 1)
        /\ a = [i \in 1..k |-> a[i]] /\ b = [i \in 1..(k + 1) |-> b[i]]
    BY DEF Marks
  <1>4. \A i \in 1..(k + 1) : b[i] \in S
    OBVIOUS
  <1> HIDE DEF a, b, S
  <1>5. m \in S
    BY <1>1, <1>4
  <1>6. a \in [1..k -> S] /\ b \in [1..(k + 1) -> S]
    BY <1>2, <1>3, <1>4
  <1>7. a \in Seq(S) /\ b \in Seq(S) /\ k + 1 \in Nat
    BY <1>6, SeqDef
  <1>8. Len(a) = k /\ Len(b) = k + 1
    BY <1>6, <1>7, LenProperties
  <1>9. app \in Seq(S) /\ Len(app) = k + 1 /\ app[k + 1] = m
        /\ \A i \in 1..k : app[i] = a[i]
    BY <1>5, <1>7, <1>8, AppendProperties
  <1> HIDE DEF app
  <1>10. \A i \in 1..(k + 1) : app[i] = b[i]
    BY <1>1, <1>2, <1>9
  <1>11. app = b
    BY <1>7, <1>8, <1>9, <1>10, SeqEqual
  <1> QED BY <1>11 DEF app, a, b

(* The suspends of a test are counted up to their number.                  *)
LEMMA CountStep ==
  ASSUME TypeOK, CountInv, [Next]_vars
  PROVE  CountInv'
  <1> USE SleepgraphRunAssumption DEF vars, test, knobs, runtime, tracer, TypeOK, Ranges,
      CountInv, Looping, Options
  <1>1. CASE Runtime
    BY <1>1 DEF Runtime, Goto
  <1>2. CASE Debug
    BY <1>2 DEF Debug, Goto, TestVal
  <1>3. CASE InitFtrace
    BY <1>3 DEF InitFtrace, Goto
  <1>4. CASE Start
    BY <1>4 DEF Start, Goto
  <1>5. CASE Arm
    BY <1>5 DEF Arm, Goto, Write
  <1>6. CASE SetMode
    BY <1>6 DEF SetMode, Goto, TestVal
  <1>7. CASE Suspend
    BY <1>7 DEF Suspend, Goto
  <1>8. CASE RestoreAll
    BY <1>8 DEF RestoreAll, Goto
  <1>9. CASE Wake
    BY <1>9 DEF Wake, Goto, Write, StopTrace
  <1>10. CASE Wifi
    BY <1>10 DEF Wifi, Goto, Write, StopTrace
  <1>11. CASE Capture
    BY <1>11 DEF Capture, Goto
  <1>12. CASE Process
    BY <1>12 DEF Process, Goto, TooManyFails
  <1>13. CASE Finish
    BY <1>13 DEF Finish, Goto
  <1>14. CASE Raise
    BY <1>14 DEF Raise, Goto
  <1>15. CASE Signal
    BY <1>15 DEF Signal, Goto
  <1>16. CASE \E t \in 1..Tests : MonitorEnds(t)
    BY <1>16 DEF MonitorEnds
  <1>17. CASE UNCHANGED vars
    BY <1>17
  <1> QED
    BY <1>1, <1>2, <1>3, <1>4, <1>5, <1>6, <1>7, <1>8, <1>9, <1>10, <1>11, <1>12, <1>13, <1>14,
        <1>15, <1>16, <1>17 DEF Next, Main

(* Every mark is appended in its turn, and the buffer is emptied only where a
   test begins and where it ends.                                          *)
LEMMA TraceStep ==
  ASSUME TypeOK, TracerInv, TraceInv, CountInv, CountInv', [Next]_vars
  PROVE  TraceInv'
  <1> SUFFICES ASSUME Sound' PROVE TraceInv'
    BY DEF TraceInv
  <1> USE SleepgraphRunAssumption DEF vars, test, knobs, runtime, tracer, TypeOK, Ranges,
      TraceInv, Looping, Traced
  <1>0. count \in Nat \ {0} /\ n \in Nat /\ opt.exec \in Nat
    BY DEF Options
  <1>1. CASE Runtime
    BY <1>1 DEF Runtime, Goto, Marks
  <1>2. CASE Debug
    BY <1>2 DEF Debug, Goto, TestVal, Sound, Marks
  <1>3. CASE InitFtrace
    <2>1. trace' = <<>> /\ pc' \in {"start", "raised"}
      BY <1>3 DEF InitFtrace, Lose, Sound
    <2>2. Marks(0)' = <<>>
      BY DEF Marks
    <2> QED BY <2>1, <2>2
  <1>4. CASE Start
    <2>1. trace = Marks(0) /\ UNCHANGED <<n, opt, trace>> /\ count' = 1 /\ pc' = "loop"
      BY <1>4 DEF Start, Goto, Lose, Sound
    <2>2. Marks(0)' = Marks(0)
      BY <2>1 DEF Marks
    <2> QED BY <2>1, <2>2
  <1>5. CASE Arm
    <2>1. tracing /\ trace = Marks(2 * count - 2) /\ pc' = "set"
      BY <1>5 DEF Arm, Goto, TracerInv, Lose, Sound
    <2>2. trace' = Marks(2 * count - 1)
      <3>1. 2 * count - 2 \in Nat /\ (2 * count - 2) % 2 = 0 /\ ((2 * count - 2) + 2) \div 2 = count
            /\ (2 * count - 2) + 1 = 2 * count - 1
        BY <1>0
      <3>2. trace' = Append(trace, [test |-> n, suspend |-> count, mark |-> "start"])
        BY <1>5, <2>1 DEF Arm, Write, Mark, Lose, Sound
      <3> QED BY <2>1, <3>1, <3>2, MarksAppend
    <2>3. UNCHANGED <<n, count, opt, ftrace>>
      BY <1>5 DEF Arm
    <2>4. Marks(2 * count - 1)' = Marks(2 * count - 1)
      BY <2>3 DEF Marks
    <2> QED BY <1>5, <2>1, <2>2, <2>3, <2>4 DEF Arm
  <1>6. CASE SetMode
    BY <1>6 DEF SetMode, Goto, TestVal, Sound, Marks
  <1>7. CASE Suspend
    BY <1>7 DEF Suspend, Goto, Sound, Marks
  <1>8. CASE RestoreAll
    BY <1>8 DEF RestoreAll, Goto, Lose, Sound, Marks
  <1>9. CASE Wake
    <2>1. tracing /\ trace = Marks(2 * count - 1) /\ UNCHANGED <<n, opt, ftrace>>
      BY <1>9 DEF Wake, TracerInv, Lose, Sound
    <2>2. Append(trace, [test |-> n, suspend |-> count, mark |-> "end"]) = Marks(2 * count)
      <3>1. 2 * count - 1 \in Nat /\ (2 * count - 1) % 2 # 0 /\ ((2 * count - 1) + 2) \div 2 = count
            /\ (2 * count - 1) + 1 = 2 * count
        BY <1>0
      <3> QED BY <2>1, <3>1, MarksAppend
    <2>3. \A k : Marks(k)' = Marks(k)
      BY <2>1 DEF Marks
    <2>4. CASE count < opt.exec
      <3>1. pc' = "loop" /\ count' = count + 1 /\ trace' = Marks(2 * count)
        BY <1>9, <2>1, <2>2, <2>4 DEF Wake, Goto, Write, Mark, Lose, Sound, Marking
      <3>2. 2 * count' - 2 = 2 * count 
        BY <1>0, <3>1
      <3> QED BY <2>1, <2>3, <3>1, <3>2
    <2>5. CASE ~(count < opt.exec) /\ opt.wifitrace
      <3>1. pc' = "wifi" /\ count' = count /\ trace' = trace
        BY <1>9, <2>5 DEF Wake, Goto
      <3>2. count = opt.exec
        BY <1>9, <1>0, <2>5 DEF Wake, CountInv
      <3> QED BY <1>0, <2>1, <2>3, <3>1, <3>2
    <2>6. CASE ~(count < opt.exec) /\ ~opt.wifitrace
      <3>1. pc' = "capture" /\ count' = count /\ trace' = Marks(2 * count)
        BY <1>9, <2>1, <2>2, <2>6 DEF Wake, Goto, Write, Mark, Lose, Sound, Ending
      <3>2. count = opt.exec
        BY <1>9, <1>0, <2>6 DEF Wake, CountInv
      <3> QED BY <1>0, <2>1, <2>3, <3>1, <3>2
    <2> QED BY <2>4, <2>5, <2>6
  <1>10. CASE Wifi
    <2>1. tracing /\ trace = Marks(2 * count - 1) /\ UNCHANGED <<n, opt, ftrace>>
      BY <1>10 DEF Wifi, TracerInv, Lose, Sound
    <2>2. Append(trace, [test |-> n, suspend |-> count, mark |-> "end"]) = Marks(2 * count)
      <3>1. 2 * count - 1 \in Nat /\ (2 * count - 1) % 2 # 0 /\ ((2 * count - 1) + 2) \div 2 = count
            /\ (2 * count - 1) + 1 = 2 * count
        BY <1>0
      <3> QED BY <2>1, <3>1, MarksAppend
    <2>3. \A k : Marks(k)' = Marks(k)
      BY <2>1 DEF Marks
    <2>4. pc' = "capture" /\ count' = count /\ trace' = Marks(2 * count)
      BY <1>10, <2>1, <2>2 DEF Wifi, Goto, Write, Mark, test, Lose, Sound
    <2> QED BY <1>10, <2>1, <2>3, <2>4 DEF Wifi
  <1>11. CASE Capture
    BY <1>11 DEF Capture, Goto, Lose, Sound, Marks
  <1>12. CASE Process
    <2>1. pc' \in {"finish", "begin"}
      BY <1>12 DEF Process, Goto
    <2> QED BY <2>1
  <1>13. CASE Finish
    BY <1>13 DEF Finish, Goto, Sound, Marks
  <1>14. CASE Raise
    BY <1>14 DEF Raise, Goto, Sound, Marks
  <1>15. CASE Signal
    BY <1>15 DEF Signal, Goto, Sound, Marks
  <1>16. CASE \E t \in 1..Tests : MonitorEnds(t)
    BY <1>16 DEF MonitorEnds, Sound, Marks
  <1>17. CASE UNCHANGED vars
    BY <1>17 DEF Sound, Marks
  <1> QED
    BY <1>1, <1>2, <1>3, <1>4, <1>5, <1>6, <1>7, <1>8, <1>9, <1>10, <1>11, <1>12, <1>13, <1>14,
        <1>15, <1>16, <1>17 DEF Next, Main

(* The invariant that carries the theorems below.                          *)
THEOREM Inductive == Spec => []IInv
  <1>1. Init => IInv
    <2> SUFFICES ASSUME Init PROVE IInv
      OBVIOUS
    <2> USE SleepgraphRunAssumption DEF Init
    <2>1. Flags
      BY Zenon DEF Flags
    <2>2. Ranges
      BY DEF Ranges, PCs, Busy, Knobs, Owner, Power, Files
    <2>3. Kept /\ KnobsInv
      BY DEF Kept, KnobsInv, Knobs, Ended, Unread
    <2>4. TracerInv /\ RuntimeInv /\ FailInv /\ TraceInv
      BY DEF TracerInv, RuntimeInv, FailInv, TraceInv, Looping, Traced, Ended, Busy
    <2>5. CountInv
      BY DEF CountInv, Looping
    <2> QED BY <2>1, <2>2, <2>3, <2>4, <2>5 DEF IInv, TypeOK
  <1>2. IInv /\ [Next]_vars => IInv'
    BY FlagsStep, RangesStep, KeptStep, KnobsStep, TracerStep, RuntimeStep, FailStep, TraceStep,
       CountStep
      DEF IInv, TypeOK
  <1> QED BY <1>1, <1>2, PTL DEF Spec

(* What sleepgraph leaves changed are the trace files it never puts back, a
   mode it could not read, and what its failed writes left behind.         *)
THEOREM Restored == Spec => []PutBack
  <1>1. IInv => PutBack
    <2> SUFFICES ASSUME IInv, pc = "exit"
                 PROVE  LeftBehind \subseteq stuck \cup lost \cup {"tracefs"}
                                           \cup {k \in Knobs : Unread(k)}
      BY DEF PutBack
    <2>1. {d \in Devices : power[d] # found[d]} \subseteq stuck
      BY DEF IInv, RuntimeInv, Ended
    <2>2. {k \in Knobs : setting[k] # "own"} \subseteq {k \in Knobs : Unread(k)}
      BY DEF IInv, TypeOK, Ranges, Kept, KnobsInv, Knobs, Owner, Ended
    <2>3. /\ {f \in {"alarm"} : alarm} \subseteq lost
          /\ {f \in {"tracing_on"} : tracing} \subseteq lost
          /\ {f \in {"kprobes"} : probes} \subseteq lost
      BY DEF IInv, TracerInv, Looping, Traced
    <2> QED BY <2>1, <2>2, <2>3 DEF LeftBehind
  <1> QED BY <1>1, Inductive, PTL

(* The trace file of every test holds its own suspends, all of them, in order,
   if its writes to the trace were done.
   The tool may have run other tests before, with a trace of their own.    *)
THEOREM TraceComplete == Spec => []WholeTrace
  <1>1. IInv => WholeTrace
    BY DEF IInv, TraceInv, CountInv, WholeTrace
  <1> QED BY <1>1, Inductive, PTL

(* The machine suspends only when it is prepared, up to the writes whose
   failure nobody looks at.                                                *)
THEOREM SuspendsPrepared == Spec => []Prepared
  <1>1. IInv => Prepared
    BY DEF IInv, TypeOK, Ranges, Flags, Prepared, KnobsInv, TracerInv, RuntimeInv,
           Changed, RsTarget, RsValue, Power, Owner, Options, Looping, Traced, Ended
  <1> QED BY <1>1, Inductive, PTL

=============================================================================
