---------------------------- MODULE TimelineRows ----------------------------
(***************************************************************************)
(* The layout of a timeline in sleepgraph.py and bootgraph.py: getPhaseRows *)
(* gives every device block a row, "with no entry overlapping", and every  *)
(* row a height; getDeviceRows does the same with the function calls       *)
(* inside a block, where heights do not matter.  A row is filled by one    *)
(* scan over all blocks, in the order of their sort key.                   *)
(***************************************************************************)
EXTENDS Integers

CONSTANTS
  N,          \* number of blocks
  Times,      \* points in time
  Heights,    \* rows the calls inside a block may take
  FirstRow    \* the first row to use

ASSUME TimelineRowsAssumption ==
  N \in Nat /\ Times \subseteq Int /\ Heights \subseteq Nat /\ FirstRow \in Nat

Items == 1..N

VARIABLES
  start, end,   \* start and end of each block
  devrows,      \* rows of the calls inside it, 0 if it has none
  order,        \* orderedlist
  place,        \* row of each block, -1 if it has none yet
  row, pos,     \* the row being filled, the next block to be tried
  height,       \* rowheight of this row
  lines,        \* rowlines: height of the rows that are done
  done          \* the call has returned row

input == <<start, end, devrows, order>>
vars == <<input, place, row, pos, height, lines, done>>

Length(i) == end[i] - start[i]

\* The sort keys of getPhaseRows
Longer(i, j) == Length(i) >= Length(j)
Earlier(i, j) == start[i] < start[j] \/ (start[i] = start[j] /\ Longer(i, j))

\* Blocks with pid -2, the dividers, come first.
SortedBy(f, Before(_, _), heads) ==
  \A a, b \in Items : a < b =>
    /\ f[b] \in heads => f[a] \in heads
    /\ (f[a] \in heads <=> f[b] \in heads) => Before(f[a], f[b])

Permutation(f) == \A i \in Items : \E a \in Items : f[a] = i

Init ==
  /\ start \in [Items -> Times] /\ end \in [Items -> Times]
  /\ \A i \in Items : start[i] <= end[i]
  /\ devrows \in [Items -> Heights]
  /\ order \in [Items -> Items] /\ Permutation(order)
  /\ \E heads \in SUBSET Items : SortedBy(order, Longer, heads) \/ SortedBy(order, Earlier, heads)
  /\ place = [i \in Items |-> -1]
  /\ row = FirstRow /\ pos = 1 /\ height = 1
  /\ lines = [r \in {} |-> 0]
  /\ done = (N = 0)

\* Mutant: looks at where the block starts only.
Apart_StartOnly(i, j) == start[i] < start[j] \/ start[i] >= end[j]

\* The test of a block against one that is in the row
Apart(i, j) ==
  \/ start[i] <= start[j] /\ end[i] <= start[j]
  \/ start[i] >= end[j] /\ end[i] >= end[j]

Fits(i) == \A j \in Items : place[j] = row => Apart(i, j)

\* The next block goes into the row if it has no row yet and fits.
Try ==
  /\ ~done /\ pos <= N
  /\ LET i == order[pos] IN
     IF place[i] = -1 /\ Fits(i)
     THEN /\ place' = [place EXCEPT ![i] = row]
          /\ height' = IF devrows[i] > height THEN devrows[i] ELSE height
     ELSE UNCHANGED <<place, height>>
  /\ pos' = pos + 1
  /\ UNCHANGED <<input, row, lines, done>>

\* Mutant: the row is counted only when the call returns.
NextRow_SameRow ==
  /\ ~done /\ pos > N
  /\ lines' = [r \in FirstRow..row |-> IF r = row THEN height ELSE lines[r]]
  /\ done' = \A i \in Items : place[i] # -1
  /\ row' = (IF done' THEN row + 1 ELSE row) /\ height' = 1 /\ pos' = 1
  /\ UNCHANGED <<input, place>>

\* The row is scanned: its height is kept, and the next row begins if blocks
\* remain.
NextRow ==
  /\ ~done /\ pos > N
  /\ lines' = [r \in FirstRow..row |-> IF r = row THEN height ELSE lines[r]]
  /\ row' = row + 1 /\ height' = 1 /\ pos' = 1
  /\ done' = \A i \in Items : place[i] # -1
  /\ UNCHANGED <<input, place>>

Next == Try \/ NextRow

Spec == Init /\ [][Next]_vars

FairSpec == Spec /\ WF_vars(Next)

-----------------------------------------------------------------------------
(* Properties                                                               *)

InputOK ==
  /\ start \in [Items -> Int] /\ end \in [Items -> Int] /\ devrows \in [Items -> Nat]
  /\ \A i \in Items : start[i] <= end[i]
  /\ order \in [Items -> Items] /\ Permutation(order)

PlaceOK ==
  /\ row \in Nat /\ row >= FirstRow /\ pos \in 1..(N + 1) /\ height \in Nat
  /\ place \in [Items -> Int] /\ \A i \in Items : place[i] = -1 \/ place[i] \in FirstRow..row
  /\ lines \in [FirstRow..(row - 1) -> Nat]

Ranges == InputOK /\ PlaceOK

TypeOK == Ranges /\ done \in BOOLEAN

\* Two blocks overlap when one begins, or lies, within the other.
Overlap(i, j) == start[i] < end[j] /\ start[j] < end[i]

\* "with no entry overlapping": no two blocks of a row have a moment in
\* common, whatever the sort key and the order of equal blocks.
NoOverlap ==
  \A i, j \in Items : i # j /\ place[i] = place[j] /\ place[i] # -1 => ~Overlap(i, j)

\* "pack each row with as many devices as possible": a block stands below a
\* row only if something in that row is in its way.
Packed ==
  \A i \in Items : \A r \in FirstRow..(row - 1) :
    place[i] = -1 \/ place[i] > r => \E j \in Items : place[j] = r /\ ~Apart(i, j)

\* So far, within the row being filled
Scanned ==
  ~done => \A a \in Items : a < pos /\ place[order[a]] = -1 =>
    \E j \in Items : place[j] = row /\ ~Apart(order[a], j)

\* No row is left empty, and a row is as high as its highest block.
Filled ==
  /\ \A r \in FirstRow..(row - 1) : \E i \in Items : place[i] = r
  /\ ~done => \E i \in Items : place[i] \in {-1, row}
HighEnough ==
  /\ height >= 1 /\ \A i \in Items : place[i] = row => devrows[i] <= height
  /\ \A i \in Items : place[i] \in FirstRow..(row - 1) => devrows[i] <= lines[place[i]]

Finished == done => \A i \in Items : place[i] \in FirstRow..(row - 1)

Separate ==
  \A i, j \in Items : i # j /\ place[i] = place[j] /\ place[i] # -1 => Apart(i, j)

IInv == TypeOK /\ Separate /\ Packed /\ Scanned /\ Filled /\ HighEnough /\ Finished

\* The layout is finished after at most one row for each block.
LayoutEnds == <>(done /\ row - FirstRow <= N)

=============================================================================
