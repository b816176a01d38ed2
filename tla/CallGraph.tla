----------------------------- MODULE CallGraph -----------------------------
(***************************************************************************)
(* FTraceCallGraph of sleepgraph.py as a value: the calls of one thread    *)
(* from a call at depth 0 to its return, line by line, with corrections    *)
(* where lines are missing.  A line is a record [n, call, ret, x, t, len]: *)
(* its function, whether it calls and whether it returns (a leaf does      *)
(* both), its depth, its time, and how long a call took that ends there.   *)
(***************************************************************************)
EXTENDS PhaseData

vfname == "missing_function_name"
maxdepth == 0 \* max_graph_depth: no bound
cgblacklist == {"noise"}

NewGraph == [list |-> <<>>, depth |-> 0, start |-> Unset, end |-> Unset,
             ignore |-> FALSE, invalid |-> FALSE, partial |-> FALSE, name |-> ""]

isCall(l) == l.call /\ ~l.ret
isReturn(l) == l.ret /\ ~l.call
isLeaf(l) == l.call /\ l.ret
VLine(depth, t, call) == [n |-> vfname, call |-> call, ret |-> ~call,
                            x |-> depth, t |-> t, len |-> 0]

\* The last line of the graph gets its return at t.
EndLine(g, t) == [g EXCEPT !.list[Len(g.list)].ret = TRUE,
                           !.list[Len(g.list)].len = t - Last(g.list).t]
Until(l) == l.t + (IF isLeaf(l) THEN l.len ELSE 0)

-----------------------------------------------------------------------------
(* addLine: the graph and what it returns (1 done, -1 done before this line) *)

\* The depth before the line is too low: returns are missing; a call that is
\* the last line becomes a leaf.
AddReturns(g, pre, now) ==
  LET leaf == g.list # <<>> /\ isCall(Last(g.list))
      top == IF leaf THEN g.depth - 1 ELSE g.depth
      t == IF g.list = <<>> THEN Unset ELSE Until(Last(g.list))
      shut == IF leaf THEN [EndLine(g, now) EXCEPT !.list[Len(g.list)].x = top] ELSE g
  IN [shut EXCEPT !.depth = pre,
                  !.list = @ \o [i \in 1 .. top - pre |-> VLine(top - i, t, FALSE)]]

\* It is too high: calls are missing.
AddCalls(g, depth, t) ==
  LET from == g.depth
      since == IF g.list = <<>> THEN t ELSE Until(Last(g.list))
  IN [g EXCEPT !.depth = depth,
               !.list = @ \o [i \in 1 .. depth - from |-> VLine(from + i - 1, since, TRUE)],
               !.start = IF g.list = <<>> /\ depth > from THEN since ELSE @]

\* Calls below a function that is not wanted go with it.
DropInner(g, l) ==
  LET keep == SelectLastInSubSeq(g.list, 1, Len(g.list), LAMBDA e : e.x <= l.x)
      cut == [g EXCEPT !.list = SubSeq(@, 1, keep)]
  IN IF keep = 0 THEN [cut EXCEPT !.invalid = TRUE]
     ELSE [EndLine(cut, l.t) EXCEPT !.list[keep].n = l.n]

\* The line that ends a graph.
Close(g, l, res) ==
  [g |-> [g EXCEPT !.start = IF @ < 0 THEN l.t ELSE @, !.end = Until(l),
                   !.invalid = @ \/ Head(g.list).n = vfname, !.partial = @ \/ res = -1],
   res |-> res]

\* A line at depth 0 that returns ends the graph.
Ended(g, l) == IF l.x = 0 /\ l.ret THEN Close(g, l, 1) ELSE [g |-> g, res |-> 0]

\* The line is put in, unless it went into the one before it; the returns that
\* were missing may have ended the graph already.
PutIn(g, l, low, inner) ==
  IF g.invalid THEN [g |-> g, res |-> 1]
  ELSE IF low /\ Last(g.list).x = 0 /\ Last(g.list).ret THEN Close(g, Last(g.list), -1)
  ELSE Ended([g EXCEPT !.start = IF g.list = <<>> THEN l.t ELSE @,
                       !.list = IF inner THEN @ ELSE Append(@, l)], l)

Unwanted(l) == l.n \in cgblacklist

\* The depth after the line; calls below an unwanted one are ignored.
Descend(g, l) ==
  [g EXCEPT !.ignore = @ \/ (isCall(l) /\ Unwanted(l)),
            !.depth = IF isReturn(l) THEN @ - 1
                      ELSE IF isCall(l) /\ ~Unwanted(l) THEN @ + 1 ELSE @]

\* The graph with its corrections, of which the first k lines were there.
Arrive(g, l, k, low) ==
  LET empty == k > 0 /\ isCall(g.list[k]) /\ g.list[k].x = l.x
      inner == isReturn(l) /\ (empty \/ Unwanted(l))
  IN PutIn(IF inner THEN DropInner(Descend(g, l), l) ELSE Descend(g, l), l, low, inner)

\* The depth before the line; a return that is too deep becomes a leaf.
PreDepth(l) == IF isReturn(l) THEN l.x + 1 ELSE l.x
Correct(g, l) ==
  CASE PreDepth(l) < g.depth -> AddReturns(g, PreDepth(l), l.t)
    [] PreDepth(l) > g.depth -> AddCalls(g, l.x, l.t)
    [] OTHER -> g
Enter(g, l) ==
  Arrive(Correct(g, l), [l EXCEPT !.call = @ \/ (isReturn(l) /\ PreDepth(l) > g.depth)],
         Len(g.list), PreDepth(l) < g.depth)

\* The end of a function that was not wanted.
Resume(g, l) == IF g.ignore THEN [EndLine(g, l.t) EXCEPT !.ignore = FALSE] ELSE g

addLine(g, l) ==
  CASE g.invalid -> [g |-> g, res |-> IF l.x = 0 /\ l.ret THEN 1 ELSE 0]
    [] ~g.invalid /\ g.depth < 0 ->
         [g |-> [g EXCEPT !.list = SubSeq(@, 1, 1), !.invalid = TRUE], res |-> 0]
    [] ~g.invalid /\ g.depth >= 0 /\ g.ignore /\ l.x > g.depth -> [g |-> g, res |-> 0]
    [] ~g.invalid /\ g.depth >= 0 /\ g.ignore /\ l.x = g.depth /\ isReturn(l) ->
         [g |-> [Resume(g, l) EXCEPT !.end = IF l.x = 0 THEN l.t ELSE @],
          res |-> IF l.x = 0 THEN 1 ELSE 0]
    [] OTHER -> Enter(Resume(g, l), l)
addLines(g, lines) ==
  LET f[i \in 0 .. Len(lines)] == IF i = 0 THEN g ELSE addLine(f[i - 1], lines[i]).g
  IN f[Len(lines)]

-----------------------------------------------------------------------------
(* postProcess, repair: the calls and returns of a graph, paired            *)

\* The call lines that are open after each line, by depth; "bad" if a return
\* has no call.
Open(g) ==
  LET f[i \in 0 .. Len(g.list)] ==
        IF i = 0 THEN [bad |-> FALSE, open |-> {}, cnt |-> 0]
        ELSE LET l == g.list[i]  a == f[i - 1] IN
             CASE isCall(l) -> [a EXCEPT !.open = @ \cup {l.x}, !.cnt = @ + 1]
               [] isReturn(l) -> [bad |-> a.bad \/ l.x \notin a.open,
                                  open |-> a.open \ {l.x}, cnt |-> a.cnt - 1]
               [] OTHER -> a
  IN f[Len(g.list)]

\* Returns at the time of the last line until the graph is closed.
repair(g, depth) ==
  LET t == Last(g.list).t
      f[i \in 0 .. depth] ==
        IF i = 0 THEN [g |-> g, res |-> 0]
        ELSE LET p == f[i - 1] IN
             IF p.res # 0 THEN p ELSE addLine(p.g, [VLine(depth - i, t, FALSE) EXCEPT !.n = ""])
      r == f[depth]
  IN [g |-> [r.g EXCEPT !.end = IF r.res # 0 THEN t ELSE @], ok |-> r.res # 0]

\* Mutant: a graph that was cut short is taken as it is.
postProcess_Cut(g) ==
  LET named == [g EXCEPT !.name = IF g.list = <<>> THEN @ ELSE Head(g.list).n]
      o == Open(g)
  IN [g |-> [named EXCEPT !.end = IF @ < 0 THEN Last(g.list).t ELSE @], ok |-> ~o.bad /\ o.cnt >= 0]

postProcess(g) ==
  LET named == [g EXCEPT !.name = IF g.list = <<>> THEN @ ELSE Head(g.list).n]
      o == Open(g)
  IN IF o.bad \/ o.cnt < 0 THEN [g |-> named, ok |-> FALSE]
     ELSE IF o.cnt = 0 THEN [g |-> named, ok |-> TRUE]
     ELSE repair(named, o.cnt)

-----------------------------------------------------------------------------
(* A graph and the devices it belongs to                                    *)

borderphase == [dpm_prepare |-> "suspend_prepare", dpm_complete |-> "resume_complete"]

\* What was called for one device, between its lock and its unlock; empty if
\* either is missing or nothing lies between.
slice(g, v) ==
  LET mine == SelectSeq(g.list, LAMBDA l : v.start <= l.t /\ l.t <= v.end)
      lock == SelectInSeq(mine, LAMBDA l : l.n = "mutex_lock" /\ l.ret)
      rest == SubSeq(mine, lock + 1, Len(mine))
      unlock == IF lock = 0 THEN 0
                ELSE SelectInSeq(rest, LAMBDA l : l.n = "mutex_unlock" /\ l.call /\ l.x = mine[lock].x)
      own == [i \in 1 .. unlock - 1 |-> [rest[i] EXCEPT !.x = @ - mine[lock].x]]
      cg == addLines(NewGraph, own)
  IN IF unlock = 0 \/ cg.list = <<>> THEN <<>> ELSE <<[cg EXCEPT !.name = g.name]>>

Covers(g, pid, v) == v.pid = pid /\ g.start <= v.start /\ g.end >= v.end

deviceMatch(d, g, pid) ==
  IF g.name \in DOMAIN borderphase
  THEN LET mine == {v \in d.devs : v.ph = <<borderphase[g.name], 0>> /\ Covers(g, pid, v)}
           with(v) == IF slice(g, v) = <<>> THEN v ELSE [v EXCEPT !.ftrace = slice(g, v)]
       IN [d |-> [d EXCEPT !.devs = {IF v \in mine THEN with(v) ELSE v : v \in @}],
           found |-> mine # {}]
  ELSE LET in == {i \in DOMAIN d.ph : d.ph[i].start <= g.start /\ g.start <= d.ph[i].end}
           mine == IF in = {} THEN {}
                   ELSE {v \in d.devs : v.ph = d.ph[Min(in)].id /\ Covers(g, pid, v)}
           first == {v \in mine : \A w \in mine : v.start < w.start \/ (v.start = w.start /\ v.id <= w.id)}
       IN [d |-> [d EXCEPT !.devs = {IF v \in first THEN [v EXCEPT !.ftrace = <<g>>] ELSE v : v \in @}],
           found |-> mine # {}]

\* A graph of a traced function that no device owns is an action of its own.
newActionFromFunction(d, g) ==
  IF \/ g.name \in {"dpm_run_callback", "dpm_prepare", "dpm_complete"}
     \/ g.start < d.start \/ g.end > d.end
     \/ ~\E i \in DOMAIN d.ph : d.ph[i].start <= g.start /\ g.start < d.ph[i].end
  THEN d
  ELSE LET n == newActionGlobal(d, g.name, g.start, g.end, -2)
       IN Change(n, Newest(n), [Newest(n) EXCEPT !.ftrace = <<g>>])
=============================================================================
