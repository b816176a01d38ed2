----------------------------- MODULE PhaseData -----------------------------
(***************************************************************************)
(* The class Data of sleepgraph.py as a value: what is known of one test   *)
(* while a log of it is read.  Phases are kept in the order they began in, *)
(* each under an id <<name, stars>> (a phase met again gets a star).       *)
(* Devices are records of a phase; a time of -1 has not been seen yet.     *)
(* Times are ticks.                                                        *)
(***************************************************************************)
EXTENDS Integers, Sequences, SequencesExt, FiniteSetsExt

phasedef == <<"suspend_prepare", "suspend", "suspend_late", "suspend_noirq",
              "suspend_machine", "resume_machine", "resume_noirq",
              "resume_early", "resume", "resume_complete">>

Unset == -1

\* Data(num)
NewData == [ph |-> <<>>, cur |-> <<>>, devs |-> {}, nid |-> 0, devpids |-> {},
            groups |-> {}, first |-> TRUE, pstl |-> <<>>, start |-> 0, end |-> 0,
            hwstart |-> 0, hwend |-> 0, tSuspended |-> 0, tResumed |-> 0,
            tKernSus |-> 0, tKernRes |-> 0, fwValid |-> TRUE, tLow |-> <<>>,
            head |-> {}]

Ids(d) == {d.ph[i].id : i \in DOMAIN d.ph}
Idx(d, id) == CHOOSE i \in DOMAIN d.ph : d.ph[i].id = id
Has(d, name) == <<name, 0>> \in Ids(d)
At(d, name) == d.ph[Idx(d, <<name, 0>>)]
IsMachine(p) == p.id[1] \in {"suspend_machine", "resume_machine"}

lastPhase(d, depth) == d.ph[Len(d.ph) - depth + 1]
SetStart(d, id, t) == [d EXCEPT !.ph[Idx(d, id)].start = t]
SetEnd(d, id, t) == [d EXCEPT !.ph[Idx(d, id)].end = t]

-----------------------------------------------------------------------------
(* setPhase: the new value, and the id it returns                           *)

BeginPhase(d, name, t) ==
  LET over == IF d.cur = <<>> THEN d ELSE SetEnd(d, d.cur, t)
      id == <<name, Cardinality({x \in Ids(d) : x[1] = name})>>
  IN [d |-> [over EXCEPT !.ph = Append(@, [id |-> id, start |-> t, end |-> Unset,
                                            waking |-> 0]),
                         !.cur = id],
      phase |-> id]

\* An end with no phase open changes nothing; one of another phase than the
\* open one ends the open one.
EndPhase(d, name, t) ==
  IF d.cur = <<>> THEN [d |-> d, phase |-> <<name, 0>>]
  ELSE [d |-> [SetEnd(d, d.cur, t) EXCEPT !.cur = <<>>], phase |-> d.cur]

setPhase(d, name, t, isbegin) ==
  IF isbegin THEN BeginPhase(d, name, t) ELSE EndPhase(d, name, t)

-----------------------------------------------------------------------------
(* Devices                                                                  *)

\* A name met again in a phase gets a number; the entry of a process (pid -3)
\* takes the place of the one before it.
newAction(d, id, name, pid, start, end) ==
  LET same == {v \in d.devs : v.ph = id /\ v.name = name}
  IN [d EXCEPT
       !.nid = @ + 1,
       !.devs = (IF pid = -3 THEN @ \ same ELSE @) \cup
         {[ph |-> id, name |-> name, k |-> IF pid = -3 THEN 0 ELSE Cardinality(same),
           id |-> d.nid + 1, pid |-> pid, start |-> start, end |-> end,
           thread |-> FALSE, src |-> {}, ftrace |-> <<>>]}]

\* The device that was added last.
Newest(d) == CHOOSE v \in d.devs : v.id = d.nid
Change(d, v, w) == [d EXCEPT !.devs = (@ \ {v}) \cup {w}]

\* The one of a name that was met last.
findDevice(d, id, name) ==
  LET all == {v \in d.devs : v.ph = id /\ v.name = name}
  IN {v \in all : \A w \in all : w.k <= v.k}

EndDevice(d, v, t) == Change(d, v, [v EXCEPT !.end = t])

\* A device call that is under way has no end yet and is not seen here.
isTraceEventOutsideDeviceCalls(d, pid, t) ==
  \A v \in d.devs : ~(v.pid = pid /\ v.start <= t /\ t < v.end)

\* A call that never returned is clipped at the first phase that ends after it began.
fixupInitcalls(d) ==
  LET ends(v) == {i \in DOMAIN d.ph : d.ph[i].end > v.start}
      fix(v) == IF v.end >= 0 \/ ends(v) = {} THEN v
                ELSE [v EXCEPT !.end = d.ph[Min(ends(v))].end]
  IN [d EXCEPT !.devs = {fix(v) : v \in @}]

deviceFilter(d, names) == [d EXCEPT !.devs = {v \in @ : names = {} \/ v.name \in names}]

-----------------------------------------------------------------------------
(* The end of a test and what is made of its phases                         *)

\* Every phase is a group of its own.
initDevicegroups(d) == [d EXCEPT !.groups = {{id} : id \in Ids(d)}]

\* The groups that hold one of these phases become one.
phaseOverlap(d, ids) ==
  LET hit == {g \in d.groups : g \cap ids # {}}
  IN [d EXCEPT !.groups = (@ \ hit) \cup {UNION hit}]

Overlap(p, start, end) == Max({0, Min({end, p.end}) - Max({start, p.start})})

\* An action goes to the phase it overlaps most, or to an edge; one that
\* spans phases joins their groups.
newActionGlobal(d, name, start, end, pid) ==
  LET o == [i \in DOMAIN d.ph |-> Overlap(d.ph[i], start, end)]
      mine == {i \in DOMAIN d.ph : o[i] > 0}
      most == {i \in mine : \A j \in mine : o[j] <= o[i]}
      target == IF mine # {} THEN Min(most)
                ELSE IF start <= d.ph[1].start THEN 1 ELSE Len(d.ph)
      joined == IF Cardinality(mine) > 1
                THEN phaseOverlap(d, {d.ph[i].id : i \in mine}) ELSE d
  IN newAction(joined, d.ph[target].id, name, pid, start, end)

handleEndMarker(d, t) ==
  LET prep == IF Has(d, "suspend_prepare") /\ At(d, "suspend_prepare").end < 0
              THEN SetEnd(d, <<"suspend_prepare", 0>>, t) ELSE d
      rm == Idx(d, <<"resume_machine", 0>>)
      mach == IF Has(d, "resume_machine") /\ d.ph[rm].end < 0 /\ rm < Len(d.ph)
              THEN SetEnd(prep, <<"resume_machine", 0>>, d.ph[rm + 1].start) ELSE prep
      done == IF Has(d, "resume_complete")
              THEN SetEnd(mach, <<"resume_complete", 0>>, t) ELSE mach
  IN initDevicegroups([done EXCEPT !.end = t,
                         !.tKernRes = IF @ = 0 THEN t ELSE @,
                         !.tKernSus = IF @ = 0 THEN t ELSE @])

\* Mutant: the last gap stays.
closeGaps_NotLast(d) ==
  [d EXCEPT !.ph = [i \in DOMAIN @ |->
     IF i < Len(@) - 1 /\ ~(IsMachine(@[i]) /\ IsMachine(@[i + 1]))
     THEN [@[i] EXCEPT !.end = d.ph[i + 1].start] ELSE @[i]]]

\* Every phase lasts until the next one begins, but for the frozen time.
closeGaps(d) ==
  [d EXCEPT !.ph = [i \in DOMAIN @ |->
     IF i < Len(@) /\ ~(IsMachine(@[i]) /\ IsMachine(@[i + 1]))
     THEN [@[i] EXCEPT !.end = d.ph[i + 1].start] ELSE @[i]]]

-----------------------------------------------------------------------------
(* Processes                                                                *)

\* One action for each process and direction: from the sample before the first
\* that saw it run to the last that did.
addProcessUsageEvent(d, name, times) ==
  LET ran == {i \in DOMAIN times : i > 1 /\ name \in times[i].ps}
  IN IF ran = {} THEN d
     ELSE newActionGlobal(d, name, times[Min(ran) - 1].t, times[Max(ran)].t, -3)

createProcessUsageEvents(d) ==
  LET sus == SelectSeq(d.pstl, LAMBDA e : e.t < d.tSuspended)
      res == SelectSeq(d.pstl, LAMBDA e : e.t >= d.tSuspended)
      names(times) == SetToSeq(UNION {times[i].ps : i \in DOMAIN times})
      add(acc, times) == FoldLeft(LAMBDA x, n : addProcessUsageEvent(x, n, times), acc, names(times))
  IN add(add(d, sus), res)

-----------------------------------------------------------------------------
(* Functions that are called from devices and threads                       *)

\* The first of these devices in each phase, and the one of the last phase.
FirstOf(S) == {v \in S : \A w \in S : w.ph = v.ph => v.id <= w.id}
LastOf(d, S) == CHOOSE v \in FirstOf(S) :
                  \A w \in FirstOf(S) : Idx(d, w.ph) <= Idx(d, v.ph)

sourcePhase(d, start) ==
  LET open == {i \in DOMAIN d.ph : ~IsMachine(d.ph[i]) /\ start <= d.ph[i].end}
  IN IF open # {} THEN {d.ph[Min(open)].id}
     ELSE {<<"resume_complete", 0>>} \cap Ids(d)

AddSource(d, v, e) == Change(d, v, [v EXCEPT !.src = @ \cup {e}])

\* A call goes to the device of its thread that it lies in; outside of these
\* the call of a thread that has devices is dropped, and that of another one
\* widens its block, which the first call makes.
addDeviceFunctionCall(d, name, pid, start, end) ==
  LET e == [name |-> name, start |-> start, end |-> end]
      mine == {v \in d.devs : v.pid = pid}
      around == {v \in mine : v.start <= start /\ end <= v.end}
      wide(v) == [v EXCEPT !.start = Min({@, start}), !.end = Max({@, end})]
      widened == [d EXCEPT !.devs = {IF v \in FirstOf(mine) THEN wide(v) ELSE v : v \in @}]
  IN CASE around # {} -> AddSource(d, LastOf(d, around), e)
       [] around = {} /\ pid \in d.devpids -> d
       [] around = {} /\ pid \notin d.devpids /\ mine # {} ->
            AddSource(widened, wide(LastOf(d, mine)), e)
       [] OTHER ->
            IF sourcePhase(d, start) = {} THEN d
            ELSE LET n == newAction(d, CHOOSE p \in sourcePhase(d, start) : TRUE,
                                    "thread-" \o ToString(pid), pid, start, end)
                 IN Change(n, Newest(n), [Newest(n) EXCEPT !.thread = TRUE, !.src = {e}])

-----------------------------------------------------------------------------
(* Threads of one test that go on in a later one: <<first, second>>         *)

touch == 20

\* A device that overruns its test takes over what it overlaps in the next one.
mergeOverlapDevices(pair) ==
  LET Merge(acc, v) ==
        LET same == {w \in acc[2].devs : w.name = v.name /\ w.k = v.k /\
                        Min({v.end, w.end}) > Max({v.start, w.start})}
        IN IF same = {} THEN acc
           ELSE LET w == CHOOSE w \in same : TRUE
                    both == v.src # {} /\ w.src # {}
                IN <<Change(acc[1], v, [v EXCEPT !.end = w.end,
                                          !.src = IF both THEN @ \cup w.src ELSE @]),
                     IF both THEN [acc[2] EXCEPT !.devs = @ \ {w}] ELSE acc[2]>>
  IN FoldLeft(Merge, pair, SetToSeq({v \in pair[1].devs : v.end > pair[1].end}))

\* A thread of the first test takes over its block in the next one, when that
\* begins before, or soon after its end (a tenth of a second).
stitchTouchingThreads(pair) ==
  LET Usurp(acc, v) ==
        LET same == {w \in acc[2].devs : w.name = v.name /\ w.start - v.end < touch}
        IN IF same = {} THEN acc
           ELSE LET w == CHOOSE w \in same : TRUE
                IN <<Change(acc[1], v, [v EXCEPT !.end = w.end, !.src = @ \cup w.src]),
                     [acc[2] EXCEPT !.devs = @ \ {w}]>>
  IN FoldLeft(Usurp, pair, SetToSeq({v \in pair[1].devs : v.thread}))

-----------------------------------------------------------------------------
(* The verdict on a test                                                    *)

Missing(d) == {i \in DOMAIN phasedef : ~Has(d, phasedef[i])}

\* Mutant: it is always the phase before.
failed_Before(d) == IF Missing(d) = {} THEN "" ELSE phasedef[Min(Missing(d)) - 1]

\* The first phase that is missing names the one the test failed in: itself
\* for the machine phases, else the phase before it.
failed(d) ==
  IF Missing(d) = {} THEN ""
  ELSE LET i == Min(Missing(d)) IN
       IF phasedef[i] \in {"suspend_machine", "resume_machine"} THEN phasedef[i]
       ELSE phasedef[i - 1]

\* Mutant: only the first of the two is filled in.
fillTimes_Half(d) ==
  LET last == At(d, phasedef[Min(Missing(d)) - 1]).end
      Or(x, y) == IF x = 0 THEN y ELSE x
  IN [d EXCEPT !.tSuspended = IF Missing(d) = {} THEN @ ELSE Or(@, last), !.fwValid = Missing(d) = {}]

\* The low-level times a test without these phases gets.
fillTimes(d) ==
  LET last == At(d, phasedef[Min(Missing(d)) - 1]).end
      Or(x, y) == IF x = 0 THEN y ELSE x
      sus == Or(IF Missing(d) = {} THEN d.tSuspended ELSE Or(d.tSuspended, last), d.tKernRes)
      res == Or(IF Missing(d) = {} THEN d.tResumed ELSE Or(d.tResumed, last), sus)
  IN [d EXCEPT !.tSuspended = sus, !.tResumed = res, !.fwValid = Missing(d) = {}]

-----------------------------------------------------------------------------
(* The frozen time taken out                                                *)

\* Times after the freeze move left, or times before its end move right; what
\* lies inside goes to its edge.
trimTimeVal(t, t0, dT, left) ==
  IF left THEN (IF t <= t0 THEN t ELSE Max({t - dT, t0}))
  ELSE (IF t >= t0 + dT THEN t ELSE IF t > t0 THEN t0 + dT ELSE t + dT)

trimTime(d, t0, dT, left) ==
  LET T(t) == trimTimeVal(t, t0, dT, left)
      Span(x) == [x EXCEPT !.start = T(@), !.end = T(@)]
      Graph(g) == [Span(g) EXCEPT !.list = [i \in DOMAIN @ |-> [@[i] EXCEPT !.t = T(@)]]]
  IN [Span(d) EXCEPT !.tSuspended = T(@), !.tResumed = T(@),
                     !.tKernSus = T(@), !.tKernRes = T(@),
                     !.ph = [i \in DOMAIN @ |-> Span(@[i])],
                     !.devs = {[Span(v) EXCEPT !.src = {Span(e) : e \in @},
                                  !.ftrace = [i \in DOMAIN @ |-> Graph(@[i])]] : v \in @}]

\* One resume_machine after a suspend_machine: the gap between them goes.
trimFreeze(d, i, tZero) ==
  LET tS == d.ph[i - 1].end  tR == d.ph[i].start IN
  IF d.ph[i].id[1] = "resume_machine" /\ d.ph[i - 1].id[1] = "suspend_machine" /\ tR > tS
  THEN [trimTime(d, tS, tR - tS, tR > tZero) EXCEPT !.tLow = Append(@, tR - tS)]
  ELSE d

trimFreezeTime(d, tZero) ==
  FoldLeft(LAMBDA acc, i : trimFreeze(acc, i, tZero), d, [i \in 1 .. Len(d.ph) - 1 |-> i + 1])

\* The hardware clock went on while the other one stood still.
getMemTime(d) ==
  IF d.hwstart = 0 \/ d.hwend = 0 THEN d
  ELSE [d EXCEPT !.tLow = Append(@, (d.hwend - (d.end - d.tResumed))
                                    - (d.hwstart + (d.tSuspended - d.start)))]

=============================================================================
