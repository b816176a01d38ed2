------------------------- MODULE StressReportProofs -------------------------
(***************************************************************************)
(* Proofs about stressreport.py: the slots that instances take (RunSlots)  *)
(* and the data they share (StressReport).                                 *)
(*                                                                         *)
(* The slots come first: IInv of RunSlots is inductive, a lock file is     *)
(* held by one running instance, and no more run than the largest count.   *)
(* Every step of StressReport is then a step of RunSlots or a stutter, so  *)
(* that all this holds of the whole program.                               *)
(*                                                                         *)
(* About the data, the steps are put into a few classes by what they do to *)
(* the tests in the web folders and to the tarballs: Waits, Plain, Moves,  *)
(* Leaves.  One lemma says of each action to which class it belongs, one   *)
(* of each class that it keeps RIInv and SafeInv; Unpack, Timelines, Copy  *)
(* and the steps on ~/.multitestdata have lemmas of their own.             *)
(*                                                                         *)
(* That sorted multitests can be found again (FindInv) is a second         *)
(* invariant over the same steps: nothing takes a line of ~/.multitests or *)
(* a link away, and what an instance brings goes from the category it is   *)
(* noted under (Copy) to its line (CacheAppend) and its links (Link).      *)
(* A third, SumsInv, follows it into the summary of its kernel.            *)
(*                                                                         *)
(* That the figures are true has two parts.  The lemmas on MultiTest show  *)
(* that a report on any tests says what they did, from its rows (ReadAll)  *)
(* to the marked times, the health and the devices that are read back out  *)
(* of it (FiguresTrue, RowsDevice).  FigInv is the invariant that every    *)
(* summary is such a report, whatever is copied or cut short meanwhile.    *)
(***************************************************************************)
EXTENDS StressReport, SequenceTheorems, FiniteSetTheorems, FunctionTheorems, TLAPS

(* A set of natural numbers has a least element. *)
LEMMA NatMin ==
  ASSUME NEW S, S \subseteq Nat, S # {}
  PROVE  \E m \in S : \A k \in S : m <= k
  <1>1. PICK n \in S : TRUE
    OBVIOUS
  <1> DEFINE T == {0..k : k \in {j \in S : j <= n}}
             R == StrictSubsetOrdering(0..n)
  <1>2. IsFiniteSet(0..n)
    BY FS_Interval
  <1>3. \A t \in T : t \in FiniteSubsetsOf(0..n)
    <2>1. \A k \in S : k <= n => 0..k \subseteq 0..n /\ IsFiniteSet(0..k)
      BY FS_Interval
    <2> QED BY <2>1 DEF FiniteSubsetsOf
  <1>4. 0..n \in T
    BY <1>1
  <1>5. IsWellFoundedOn(R, FiniteSubsetsOf(0..n))
    BY FS_StrictSubsetOrderingWellFounded
  <1>6. PICK t \in T : \A u \in T : <<u, t>> \notin R
    <2> HIDE DEF R, T
    <2>1. T \subseteq FiniteSubsetsOf(0..n) /\ T # {}
      BY <1>3, <1>4
    <2> QED BY <1>5, <2>1, WFMin, Zenon
  <1>7. PICK m \in S : m <= n /\ t = 0..m
    OBVIOUS
  <1>8. ASSUME NEW k \in S, k < m PROVE FALSE
    <2>1. 0..k \in T /\ 0..k \subseteq 0..n /\ t \subseteq 0..n
      BY <1>7, <1>8
    <2>2. 0..k \subseteq t /\ 0..k # t
      <3>1. m \in t /\ m \notin 0..k
        BY <1>7, <1>8
      <3> QED BY <1>7, <1>8, <3>1
    <2>3. <<0..k, t>> \in R
      BY <2>1, <2>2, Zenon DEF StrictSubsetOrdering
    <2> QED BY <2>1, <2>3, <1>6
  <1> QED BY <1>7, <1>8

(* Induction over the natural numbers, for a set. *)
LEMMA NatInd ==
  ASSUME NEW S, 0 \in S, \A n \in Nat : n \in S => n + 1 \in S
  PROVE  Nat \subseteq S
  <1>1. SUFFICES ASSUME Nat \ S # {} PROVE FALSE
    OBVIOUS
  <1>2. PICK m \in Nat \ S : \A k \in Nat \ S : m <= k
    BY <1>1, NatMin
  <1>3. m # 0 /\ m - 1 \in Nat /\ ~(m <= m - 1) /\ (m-1) + 1 = m
    BY <1>2
  <1>4. m - 1 \in S
    BY <1>2, <1>3
  <1> QED BY <1>2, <1>3, <1>4

(* The elements of two sequences one after the other. *)
LEMMA RangeConcat ==
  ASSUME NEW S, NEW a \in Seq(S), NEW b \in Seq(S)
  PROVE  a \o b \in Seq(S) /\ Range(a \o b) = Range(a) \cup Range(b)
  <1>1. /\ a \o b \in Seq(S) /\ Len(a \o b) = Len(a) + Len(b)
        /\ \A i \in 1..(Len(a) + Len(b)) :
             (a \o b)[i] = IF i <= Len(a) THEN a[i] ELSE b[i - Len(a)]
    BY ConcatProperties
  <1> DEFINE c == a \o b
  <1>2. /\ c \in Seq(S) /\ Len(c) = Len(a) + Len(b)
        /\ \A i \in 1..(Len(a) + Len(b)) : c[i] = IF i <= Len(a) THEN a[i] ELSE b[i - Len(a)]
    BY <1>1
  <1> HIDE DEF c
  <1>3. ASSUME NEW i \in 1..Len(c) PROVE c[i] \in Range(a) \cup Range(b)
    <2>1. CASE i <= Len(a)
      BY <1>2, <1>3, <2>1 DEF Range
    <2>2. CASE i > Len(a)
      BY <1>2, <1>3, <2>2 DEF Range
    <2> QED BY <2>1, <2>2
  <1>4. ASSUME NEW i \in 1..Len(a) PROVE a[i] \in Range(c)
    <2>1. i \in 1..Len(c) /\ c[i] = a[i]
      BY <1>2
    <2> QED BY <1>2, <2>1 DEF Range
  <1>5. ASSUME NEW i \in 1..Len(b) PROVE b[i] \in Range(c)
    <2>1. i + Len(a) \in 1..Len(c) /\ c[i + Len(a)] = b[i]
      BY <1>2, SMTT(30)
    <2> QED BY <1>2, <2>1, SMTT(30) DEF Range
  <1>6. Range(c) = Range(a) \cup Range(b)
    <2>1. DOMAIN c = 1..Len(c) /\ DOMAIN a = 1..Len(a) /\ DOMAIN b = 1..Len(b)
      BY <1>2
    <2>2. Range(c) \subseteq Range(a) \cup Range(b)
      BY <1>3, <2>1 DEF Range
    <2>3. Range(a) \subseteq Range(c) /\ Range(b) \subseteq Range(c)
      <3>1. ASSUME NEW x \in Range(a) PROVE x \in Range(c)
        BY <1>4, <2>1 DEF Range
      <3>2. ASSUME NEW x \in Range(b) PROVE x \in Range(c)
        BY <1>5, <2>1 DEF Range
      <3> QED BY <3>1, <3>2
    <2> QED BY <2>2, <2>3
  <1> QED BY <1>2, <1>6 DEF c

(* The elements of a sequence of sequences, one after the other. *)
LEMMA RangeFlatten ==
  ASSUME NEW S, NEW ss \in Seq(Seq(S)), Len(ss) # 0
  PROVE  /\ FlattenSeq(ss) \in Seq(S)
         /\ Range(FlattenSeq(ss)) = UNION {Range(ss[i]) : i \in 1..Len(ss)}
  <1> DEFINE n == Len(ss)
             Joined(a, b) == a \o b
             Rec(f) == f = [i \in 1..n |-> IF i = 1 THEN ss[i] ELSE Joined(f[i - 1], ss[i])]
             flatten == CHOOSE f : Rec(f)
             Upto(k, f) == /\ f \in [1..n -> Seq(S)]
                           /\ \A i \in 1..n : i <= k =>
                                f[i] = IF i = 1 THEN ss[i] ELSE Joined(f[i - 1], ss[i])
             Reached == {k \in Nat : k <= n => \E f : Upto(k, f)}
             Right == {k \in Nat : k \in 1..n =>
                         /\ flatten[k] \in Seq(S)
                         /\ Range(flatten[k]) = UNION {Range(ss[i]) : i \in 1..k}}
  <1>1. FlattenSeq(ss) = flatten[n]
    BY DEF FlattenSeq
  <1>13. \A a, b \in Seq(S) :
           Joined(a, b) \in Seq(S) /\ Range(Joined(a, b)) = Range(a) \cup Range(b)
    BY RangeConcat
  <1> HIDE DEF Joined
  <1>2. n \in Nat /\ n # 0 /\ \A i \in 1..n : ss[i] \in Seq(S)
    OBVIOUS
  <1>3. 0 \in Reached
    <2>1. [i \in 1..n |-> <<>>] \in [1..n -> Seq(S)]
      OBVIOUS
    <2>2. Upto(0, [i \in 1..n |-> <<>>])
      BY <2>1
    <2> HIDE DEF Upto
    <2> QED BY <2>2
  <1>4. ASSUME NEW k \in Nat, k \in Reached PROVE k + 1 \in Reached
    <2> HIDE DEF Upto
    <2>1. SUFFICES ASSUME k + 1 <= n PROVE \E f : Upto(k + 1, f)
      OBVIOUS
    <2>2. PICK f : Upto(k, f)
      BY <1>2, <1>4, <2>1
    <2> USE DEF Upto
    <2> DEFINE v == IF k + 1 = 1 THEN ss[k + 1] ELSE Joined(f[k], ss[k + 1])
               g == [f EXCEPT ![k + 1] = v]
    <2>3. v \in Seq(S)
      <3>1. CASE k = 0
        BY <1>2, <2>1, <3>1
      <3>2. CASE k # 0
        <4>1. f[k] \in Seq(S) /\ ss[k + 1] \in Seq(S)
          <5>1. k \in 1..n /\ k + 1 \in 1..n
            BY <1>2, <2>1, <3>2
          <5>2. f \in [1..n -> Seq(S)]
            BY <2>2
          <5> QED BY <1>2, <5>1, <5>2
        <4>2. Joined(f[k], ss[k + 1]) \in Seq(S)
          BY <4>1, <1>13
        <4> QED BY <3>2, <4>2
      <3> QED BY <3>1, <3>2
    <2>4. g \in [1..n -> Seq(S)] /\ g[k + 1] = v /\ \A i \in 1..n : i # k + 1 => g[i] = f[i]
      <3> HIDE DEF v
      <3> QED BY <1>2, <2>1, <2>2, <2>3
    <2>5. ASSUME NEW i \in 1..n, i <= k + 1
          PROVE  g[i] = IF i = 1 THEN ss[i] ELSE Joined(g[i - 1], ss[i])
      <3> HIDE DEF g
      <3>1. CASE i = k + 1
        <4>1. CASE k = 0
          BY <2>4, <3>1, <4>1
        <4>2. CASE k # 0
          <5>1. g[k] = f[k] /\ k = i - 1
            BY <2>1, <2>4, <3>1, <4>2
          <5> QED BY <2>4, <3>1, <4>2, <5>1
        <4> QED BY <4>1, <4>2
      <3>2. CASE i <= k
        <4>1. g[i] = f[i]
          BY <2>4, <3>2
        <4>2. CASE i = 1
          BY <2>2, <3>2, <4>1, <4>2
        <4>3. CASE i # 1
          <5>1. g[i - 1] = f[i - 1]
            BY <2>4, <3>2, <4>3
          <5> QED BY <2>2, <3>2, <4>1, <4>3, <5>1
        <4> QED BY <4>2, <4>3
      <3> QED BY <2>5, <3>1, <3>2
    <2>6. Upto(k + 1, g)
      <3> HIDE DEF g
      <3> QED BY <2>4, <2>5
    <2> HIDE DEF Upto, g
    <2> QED BY <2>6
  <1>5. PICK f : Upto(n, f)
    <2> HIDE DEF Upto
    <2>1. Nat \subseteq Reached
      <3> HIDE DEF Reached
      <3> QED BY <1>3, <1>4, NatInd
    <2> QED BY <1>2, <2>1
  <1>6. Rec(f)
    <2>1. f = [i \in 1..n |-> f[i]]
      BY <1>5
    <2> QED BY <1>2, <1>5, <2>1, SMTT(30)
  <1>7. Rec(flatten)
    <2> HIDE DEF Rec
    <2> QED BY <1>6
  <1> HIDE DEF flatten
  <1>8. \A i \in 1..n : flatten[i] = IF i = 1 THEN ss[i] ELSE Joined(flatten[i - 1], ss[i])
    BY <1>7
  <1> HIDE DEF Rec
  <1>9. 0 \in Right
    OBVIOUS
  <1>10. ASSUME NEW k \in Nat, k \in Right PROVE k + 1 \in Right
    <2>1. SUFFICES ASSUME k + 1 \in 1..n
                   PROVE  /\ flatten[k + 1] \in Seq(S)
                          /\ Range(flatten[k + 1]) = UNION {Range(ss[i]) : i \in 1..(k + 1)}
      OBVIOUS
    <2>2. CASE k = 0
      <3>1. flatten[1] = ss[1] /\ 1 \in 1..n
        BY <1>2, <1>8
      <3>2. UNION {Range(ss[i]) : i \in 1..1} = Range(ss[1])
        <4>1. 1..1 = {1}
          OBVIOUS
        <4> QED BY <4>1
      <3> QED BY <1>2, <2>2, <3>1, <3>2
    <2>3. CASE k # 0
      <3>1. k \in 1..n /\ flatten[k] \in Seq(S) /\ ss[k + 1] \in Seq(S)
            /\ Range(flatten[k]) = UNION {Range(ss[i]) : i \in 1..k}
        BY <1>2, <1>10, <2>1, <2>3
      <3>2. flatten[k + 1] = Joined(flatten[k], ss[k + 1])
        BY <1>8, <2>1, <2>3
      <3>3. /\ flatten[k + 1] \in Seq(S)
            /\ Range(flatten[k + 1]) = Range(flatten[k]) \cup Range(ss[k + 1])
        BY <3>1, <3>2, <1>13
      <3>4. 1..(k + 1) = 1..k \cup {k + 1}
        OBVIOUS
      <3>5. UNION {Range(ss[i]) : i \in 1..(k + 1)}
              = (UNION {Range(ss[i]) : i \in 1..k}) \cup Range(ss[k + 1])
        BY <3>4
      <3> QED BY <3>1, <3>3, <3>5
    <2> QED BY <2>2, <2>3
  <1>11. Nat \subseteq Right
    <2> HIDE DEF Right
    <2> QED BY <1>9, <1>10, NatInd
  <1>12. n \in 1..n /\ n \in Nat
    BY <1>2
  <1> QED BY <1>1, <1>11, <1>12

(* The elements of a sequence that are in a set. *)
LEMMA AmongElements ==
  ASSUME NEW T, NEW s \in Seq(T), NEW S
  PROVE  Among(s, S) \in Seq(T) /\ Range(Among(s, S)) = Range(s) \cap S
  <1> DEFINE n == Len(s)
             Next1(a, i) == IF s[i] \in S THEN Append(a, s[i]) ELSE a
             Rec(f) == f = [i \in 0..n |-> IF i = 0 THEN <<>> ELSE Next1(f[i - 1], i)]
             upto == CHOOSE f : Rec(f)
             Upto(k, f) == /\ f \in [0..n -> Seq(T)]
                           /\ \A i \in 0..n : i <= k =>
                                f[i] = IF i = 0 THEN <<>> ELSE Next1(f[i - 1], i)
             Reached == {k \in Nat : k <= n => \E f : Upto(k, f)}
             Right == {k \in Nat : k \in 0..n =>
                         /\ upto[k] \in Seq(T)
                         /\ Range(upto[k]) = {s[i] : i \in 1..k} \cap S}
  <1>1. Among(s, S) = upto[n]
    BY DEF Among
  <1>2. n \in Nat /\ \A i \in 1..n : s[i] \in T
    OBVIOUS
  <1>3. ASSUME NEW a \in Seq(T), NEW i \in 1..n
        PROVE  /\ Next1(a, i) \in Seq(T)
               /\ Range(Next1(a, i)) = Range(a) \cup ({s[i]} \cap S)
    <2>1. /\ Append(a, s[i]) \in Seq(T) /\ Len(Append(a, s[i])) = Len(a) + 1
          /\ \A j \in 1..Len(a) : Append(a, s[i])[j] = a[j]
          /\ Append(a, s[i])[Len(a) + 1] = s[i]
      BY <1>2
    <2> DEFINE b == Append(a, s[i])
    <2>2. Range(b) = Range(a) \cup {s[i]}
      <3>1. /\ b \in Seq(T) /\ Len(b) = Len(a) + 1
            /\ \A j \in 1..Len(a) : b[j] = a[j]
            /\ b[Len(a) + 1] = s[i]
        BY <2>1
      <3> HIDE DEF b
      <3>2. DOMAIN b = 1..(Len(a) + 1) /\ DOMAIN a = 1..Len(a) /\ Len(a) \in Nat
        BY <3>1
      <3>3. DOMAIN b = DOMAIN a \cup {Len(a) + 1}
        BY <3>2
      <3> QED BY <3>1, <3>2, <3>3 DEF Range
    <2>3. CASE s[i] \in S
      BY <2>1, <2>2, <2>3
    <2>4. CASE s[i] \notin S
      BY <2>4
    <2> QED BY <2>3, <2>4
  <1> HIDE DEF Next1
  <1>4. 0 \in Reached
    <2>1. [i \in 0..n |-> <<>>] \in [0..n -> Seq(T)]
      OBVIOUS
    <2>2. Upto(0, [i \in 0..n |-> <<>>])
      BY <1>2, <2>1
    <2> HIDE DEF Upto
    <2> QED BY <2>2
  <1>5. ASSUME NEW k \in Nat, k \in Reached PROVE k + 1 \in Reached
    <2> HIDE DEF Upto
    <2>1. SUFFICES ASSUME k + 1 <= n PROVE \E f : Upto(k + 1, f)
      OBVIOUS
    <2>2. PICK f : Upto(k, f)
      BY <1>2, <1>5, <2>1
    <2> USE DEF Upto
    <2> DEFINE v == Next1(f[k], k + 1)
               g == [f EXCEPT ![k + 1] = v]
    <2>3. v \in Seq(T)
      <3>1. k \in 0..n /\ k + 1 \in 1..n /\ f \in [0..n -> Seq(T)]
        BY <1>2, <2>1, <2>2
      <3> QED BY <3>1, <1>3
    <2>4. g \in [0..n -> Seq(T)] /\ g[k + 1] = v /\ \A i \in 0..n : i # k + 1 => g[i] = f[i]
      <3> HIDE DEF v
      <3> QED BY <1>2, <2>1, <2>2, <2>3
    <2>5. ASSUME NEW i \in 0..n, i <= k + 1
          PROVE  g[i] = IF i = 0 THEN <<>> ELSE Next1(g[i - 1], i)
      <3> HIDE DEF g
      <3>1. CASE i = k + 1
        <4>1. g[k] = f[k] /\ k = i - 1 /\ i # 0
          BY <1>2, <2>1, <2>4, <3>1
        <4> QED BY <2>4, <3>1, <4>1
      <3>2. CASE i <= k
        <4>1. g[i] = f[i] /\ (i # 0 => g[i - 1] = f[i - 1])
          BY <1>2, <2>4, <3>2
        <4>2. f[i] = IF i = 0 THEN <<>> ELSE Next1(f[i - 1], i)
          BY <2>2, <3>2
        <4> QED BY <4>1, <4>2
      <3> QED BY <2>5, <3>1, <3>2
    <2>6. Upto(k + 1, g)
      <3> HIDE DEF g
      <3> QED BY <2>4, <2>5
    <2> HIDE DEF Upto, g
    <2> QED BY <2>6
  <1>6. PICK f : Upto(n, f)
    <2> HIDE DEF Upto
    <2>1. Nat \subseteq Reached
      <3> HIDE DEF Reached
      <3> QED BY <1>4, <1>5, NatInd
    <2> QED BY <1>2, <2>1
  <1>7. Rec(upto)
    <2>1. Rec(f)
      <3>1. f = [i \in 0..n |-> f[i]]
        BY <1>6
      <3> QED BY <1>2, <1>6, <3>1, SMTT(30)
    <2> HIDE DEF Rec
    <2> QED BY <2>1
  <1> HIDE DEF upto
  <1>8. \A i \in 0..n : upto[i] = IF i = 0 THEN <<>> ELSE Next1(upto[i - 1], i)
    BY <1>7
  <1> HIDE DEF Rec
  <1>9. 0 \in Right
    <2>1. upto[0] = <<>> /\ Range(<<>>) = {}
      BY <1>2, <1>8 DEF Range
    <2>2. {s[i] : i \in 1..0} = {} /\ <<>> \in Seq(T)
      OBVIOUS
    <2> QED BY <2>1, <2>2
  <1>10. ASSUME NEW k \in Nat, k \in Right PROVE k + 1 \in Right
    <2>1. SUFFICES ASSUME k + 1 \in 0..n
                   PROVE  /\ upto[k + 1] \in Seq(T)
                          /\ Range(upto[k + 1]) = {s[i] : i \in 1..(k + 1)} \cap S
      OBVIOUS
    <2>2. k \in 0..n /\ k + 1 \in 1..n /\ k + 1 # 0 /\ (k + 1) - 1 = k
      BY <1>2, <2>1
    <2>3. upto[k] \in Seq(T) /\ Range(upto[k]) = {s[i] : i \in 1..k} \cap S
      BY <1>10, <2>2
    <2>4. upto[k + 1] = Next1(upto[k], k + 1)
      BY <1>8, <2>2
    <2>5. 1..(k + 1) = 1..k \cup {k + 1}
      OBVIOUS
    <2>6. {s[i] : i \in 1..(k + 1)} = {s[i] : i \in 1..k} \cup {s[k + 1]}
      BY <2>5
    <2>7. upto[k + 1] \in Seq(T) /\ Range(upto[k + 1]) = Range(upto[k]) \cup ({s[k + 1]} \cap S)
      BY <1>3, <2>2, <2>3, <2>4
    <2> QED BY <2>3, <2>6, <2>7
  <1>11. Nat \subseteq Right
    <2> HIDE DEF Right
    <2> QED BY <1>9, <1>10, NatInd
  <1>12. n \in 0..n /\ n \in Nat /\ Range(s) = {s[i] : i \in 1..n}
    BY <1>2 DEF Range
  <1> QED BY <1>1, <1>11, <1>12

(* All the elements of a finite set are in the sequence made of it. *)
LEMMA SequenceOfSet ==
  ASSUME NEW S, IsFiniteSet(S)
  PROVE  SetToSeq(S) \in Seq(S) /\ Range(SetToSeq(S)) = S
  <1> DEFINE n == Cardinality(S)
  <1>1. n \in Nat /\ ExistsBijection(1..n, S)
    BY FS_CardinalityType
  <1>2. \E f : f \in [1..n -> S] /\ IsInjective(f)
    BY <1>1 DEF ExistsBijection, Bijection, Injection
  <1> DEFINE q == SetToSeq(S)
  <1>3. q \in [1..n -> S] /\ IsInjective(q)
    BY <1>2 DEF SetToSeq
  <1> HIDE DEF q
  <1>4. IsFiniteSet(1..n) /\ Cardinality(1..n) = Cardinality(S)
    BY <1>1, FS_Interval
  <1>5. q \in Surjection(1..n, S)
    <2>1. q \in Injection(1..n, S)
      BY <1>3 DEF Injection
    <2> HIDE DEF n
    <2> QED BY <1>4, <2>1, FS_Injection
  <1>6. \A x \in S : \E i \in 1..n : q[i] = x
    BY <1>5 DEF Surjection
  <1>7. q \in Seq(S) /\ Range(q) = S
    BY <1>1, <1>3, <1>6 DEF Range
  <1> QED BY <1>7 DEF q

-----------------------------------------------------------------------------
(* What an action does to the local variables of the instances, told in the *)
(* terms the invariants speak of.                                           *)

Fields == DOMAIN Idle

\* Only instance p moves.
Alone(p) == DOMAIN job' = Proc /\ \A q \in Proc : q # p => job'[q] = job[q]

\* It is at work and stays so.
AtWork(p) ==
  /\ Alone(p) /\ UNCHANGED vars
  /\ job[p].step # "out" /\ DOMAIN job'[p] = Fields /\ job'[p].args = job[p].args

\* The same, and it skips nothing.
Works(p) == AtWork(p) /\ job'[p].skipped = job[p].skipped

\* No test is lost from the web folder.
WebGrows ==
  /\ DOMAIN web \subseteq DOMAIN web'
  /\ \A f \in DOMAIN web' : DOMAIN web'[f] = {"tests", "sum"} /\ HasTests(web'[f].tests)
  /\ \A f \in DOMAIN web : \A n \in DOMAIN web[f].tests :
       n \in DOMAIN web'[f].tests /\ web'[f].tests[n].log = web[f].tests[n].log

RowsStay == UNCHANGED <<datacache, recorded, disturbed>>

\* Work on what is in the web folder.
Moves(p) ==
  /\ Works(p) /\ UNCHANGED <<tars, lost>> /\ WebGrows
  /\ job'[p].copies = job[p].copies /\ job'[p].step # "copy"
  /\ job[p].args.tars = <<>> \/ (AfterCopy(p) /\ AfterCopy(p)')

\* The same, and nothing is done to ~/.multitestdata.
Plain(p) == Moves(p) /\ RowsStay /\ ~Rewriting(p) /\ ~Rewriting(p)'

\* It ends; what it deletes it has copied before.
Leaves(p) ==
  /\ Alone(p) /\ End(p) /\ job'[p] = Idle
  /\ UNCHANGED <<datacache, recorded>> /\ (disturbed' <=> disturbed \/ Rewriting(p))
  /\ WebGrows
  /\ UNCHANGED <<tars, lost>> \/ (AfterCopy(p) /\ EmptyTrash(p))

\* It is not at work yet.
Waits(p) ==
  /\ Alone(p) /\ \A q \in Proc : q # p => pc'[q] = pc[q]
  /\ job[p].step = "out" /\ DOMAIN job'[p] = Fields
  /\ job'[p].args.tars \in Seq(DOMAIN Tarball) /\ job'[p].copies \subseteq job[p].copies
  /\ job'[p].step = "out" \/ (job'[p].step = "begin" /\ pc'[p] = "run")
  /\ RowsStay /\ UNCHANGED <<web, tars, lost>>

(* The fields of what an instance works on, and their values before it works. *)
LEMMA Fields_ ==
  /\ Fields = {"args", "step", "mts", "todo", "copies", "skipped", "det", "got", "targets", "list"}
  /\ Idle.step = "out" /\ Idle.args = NoArgs /\ Idle.copies = {} /\ NoArgs.tars = <<>>
  BY DEF Fields, Idle, NoArgs

(* The files that a test has are the fields of a test. *)
LEMMA TestFields == DOMAIN NoFiles =
    {"html", "log", "desc", "pass", "suspend", "resume", "dev", "msg", "lpi", "wifi", "net"}
  BY DEF NoFiles

(* Same web, no loss. *)
LEMMA SameWeb == RTypeOK /\ UNCHANGED web => WebGrows
  BY DEF RTypeOK, WebGrows

(* Find, when it does not end the instance. *)
LEMMA FindPlain ==
  ASSUME RTypeOK, NEW p \in Proc, Find(p), ~Leave(p)
  PROVE  Plain(p)
  <1> USE Fields_ DEF RTypeOK, Find
  <1>1. /\ job' = [job EXCEPT ![p].step = IF job[p].args.cache THEN "timelines" ELSE "tcread",
                              ![p].mts = Found(p, NoName)]
        /\ UNCHANGED <<vars, shared, ghosts>>
    OBVIOUS
  <1>2. Works(p)
    BY <1>1 DEF Works, AtWork, Alone, Fields
  <1>3. job'[p].step \in {"timelines", "tcread"} /\ job'[p].copies = job[p].copies
    BY <1>1 DEF Fields
  <1> QED BY <1>1, <1>2, <1>3, SameWeb DEF Plain, Moves, Rewriting, RowsStay, shared, ghosts

(* Reading and appending to ~/.multitests. *)
LEMMA CacheReadPlain ==
  ASSUME RTypeOK, NEW p \in Proc, CacheRead(p)
  PROVE  Plain(p)
  <1> USE Fields_ DEF RTypeOK, CacheRead
  <1>1. Works(p) /\ job'[p].step = "tcappend" /\ job'[p].copies = job[p].copies
    BY DEF Works, AtWork, Alone, Fields
  <1> QED BY <1>1, SameWeb DEF Plain, Moves, Rewriting, RowsStay, AfterCopy, shared, ghosts

(* The steps that are Plain.  First, the lines put into the test cache. *)
LEMMA CacheAppendPlain ==
  ASSUME RTypeOK, NEW p \in Proc, CacheAppend(p)
  PROVE  Plain(p)
  <1> USE Fields_ DEF RTypeOK
  <1>1. /\ Works(p) /\ job'[p].step \in {"sumread", "link", "timelines"}
        /\ job'[p].copies = job[p].copies /\ UNCHANGED <<web, tars, datacache, ghosts>>
        /\ job[p].step = "tcappend"
        /\ job[p].args.tars # <<>> => job'[p].step # "timelines"
    BY DEF Works, AtWork, Alone, Fields, CacheAppend
  <1> QED BY <1>1, SameWeb DEF Plain, Moves, Rewriting, RowsStay, AfterCopy, ghosts

(* A timeline changes the html of a test, and nothing a category is read from. *)
LEMMA RegeneratedKeeps ==
  ASSUME NEW tests, HasTests(tests), NEW failing
  PROVE  /\ DOMAIN Regenerated(tests, failing) = DOMAIN tests
         /\ HasTests(Regenerated(tests, failing))
         /\ \A n \in DOMAIN tests :
              /\ Regenerated(tests, failing)[n].log = tests[n].log
              /\ Regenerated(tests, failing)[n].desc = tests[n].desc
  BY TestFields DEF Regenerated, HasTests, IsTest

(* A multitest with its timelines made. *)
LEMMA FixKeeps ==
  ASSUME NEW mt, HasTests(mt.tests), "tests" \in DOMAIN mt, NEW failing, NEW new,
         new = WithHtml(mt, failing)
  PROVE  /\ DOMAIN new = DOMAIN mt /\ new.tests = Regenerated(mt.tests, failing)
         /\ HasTests(new.tests) /\ DOMAIN new.tests = DOMAIN mt.tests
         /\ \A n \in DOMAIN mt.tests : new.tests[n].log = mt.tests[n].log
         /\ "name" \in DOMAIN mt => new.name = mt.name
  BY RegeneratedKeeps DEF WithHtml

(* The timelines of what is in the web folder. *)
LEMMA TimelinesPlain ==
  ASSUME RTypeOK, NEW p \in Proc, Timelines(p), job[p].args.tars = <<>>
  PROVE  Plain(p)
  <1> USE Fields_ DEF RTypeOK
  <1>1. PICK failing : web' = [f \in DOMAIN web |->
                            IF f \in Range(job[p].mts)
                            THEN WithHtml(web[f], failing) ELSE web[f]]
    BY DEF Timelines
  <1>2. WebGrows
    <2>1. DOMAIN web' = DOMAIN web
      BY <1>1
    <2>2. ASSUME NEW f \in DOMAIN web
          PROVE  /\ DOMAIN web'[f] = {"tests", "sum"} /\ HasTests(web'[f].tests)
                 /\ \A n \in DOMAIN web[f].tests :
                      n \in DOMAIN web'[f].tests /\ web'[f].tests[n].log = web[f].tests[n].log
      <3>1. web'[f] = web[f] \/ web'[f] = WithHtml(web[f], failing)
        BY <1>1
      <3>2. "tests" \in DOMAIN web[f] /\ HasTests(web[f].tests)
        OBVIOUS
      <3> QED BY <3>1, <3>2, FixKeeps
    <2> QED BY <2>1, <2>2 DEF WebGrows
  <1>3. /\ Works(p) /\ job'[p].copies = job[p].copies /\ job'[p].step = "categorize"
        /\ job[p].step = "timelines" /\ UNCHANGED <<tars, datacache, ghosts>>
    BY DEF Works, AtWork, Alone, Fields, Timelines
  <1> QED BY <1>2, <1>3 DEF Plain, Moves, Rewriting, RowsStay, ghosts

(* Sorting the folders by kernel, host and mode is a plain step. *)
LEMMA CategorizePlain ==
  ASSUME RTypeOK, NEW p \in Proc, Categorize(p)
  PROVE  Plain(p)
  <1> USE Fields_ DEF RTypeOK, Categorize
  <1>1. Works(p) /\ job'[p].step = "link" /\ job'[p].copies = job[p].copies
    BY DEF Works, AtWork, Alone, Fields
  <1> QED BY <1>1, SameWeb DEF Plain, Moves, Rewriting, RowsStay, AfterCopy, shared, ghosts

(* Making the links is a plain step. *)
LEMMA LinkPlain ==
  ASSUME RTypeOK, NEW p \in Proc, Link(p)
  PROVE  Plain(p)
  <1> USE Fields_ DEF RTypeOK
  <1>1. /\ Works(p) /\ job'[p].step \in {"catsum", "report"}
        /\ job'[p].copies = job[p].copies /\ UNCHANGED <<web, tars, datacache, ghosts>>
        /\ job[p].step = "link"
    BY DEF Works, AtWork, Alone, Fields, Link
  <1> QED BY <1>1, SameWeb DEF Plain, Moves, Rewriting, RowsStay, AfterCopy, ghosts

(* A summary file changes no test. *)
LEMMA SumWeb ==
  ASSUME RTypeOK, NEW f, NEW v, web' = [web EXCEPT ![f].sum = v]
  PROVE  WebGrows
  <1>1. DOMAIN web' = DOMAIN web
    OBVIOUS
  <1>2. ASSUME NEW g \in DOMAIN web
        PROVE  DOMAIN web'[g] = {"tests", "sum"} /\ web'[g].tests = web[g].tests
    BY DEF RTypeOK
  <1> QED BY <1>1, <1>2 DEF WebGrows, RTypeOK

(* The report of a folder is a plain step. *)
LEMMA ReportPlain ==
  ASSUME RTypeOK, NEW p \in Proc, Report(p)
  PROVE  /\ Plain(p) /\ DOMAIN web' = DOMAIN web
         /\ job'[p].step \in {"repwrite", "report"}
  <1> USE Fields_ DEF RTypeOK
  <1>1. PICK i : LET f == job[p].todo[i]
                     tests == InOrder(web[f].tests)
                     r == pm_graph_report(f, tests)
                 IN IF r.ok
                    THEN /\ web' = [web EXCEPT ![f].sum = [NoSum EXCEPT !.state = "part"]]
                         /\ \E x : job' = [job EXCEPT ![p].step = "repwrite",
                                             ![p].todo = RemoveAt(@, i), ![p].got = x]
                    ELSE /\ job' = [job EXCEPT ![p].todo = RemoveAt(@, i)]
                         /\ UNCHANGED web
    BY Zenon DEF Report
  <1>2. PICK f, x, v : \/ /\ web' = [web EXCEPT ![f].sum = v]
                          /\ job' = [job EXCEPT ![p].step = "repwrite",
                                       ![p].todo = RemoveAt(@, i), ![p].got = x]
                       \/ /\ job' = [job EXCEPT ![p].todo = RemoveAt(@, i)]
                          /\ UNCHANGED web
    <2>1. CASE pm_graph_report(job[p].todo[i], InOrder(web[job[p].todo[i]].tests)).ok
      <3>1. /\ web' = [web EXCEPT ![job[p].todo[i]].sum = [NoSum EXCEPT !.state = "part"]]
            /\ \E x : job' = [job EXCEPT ![p].step = "repwrite",
                                 ![p].todo = RemoveAt(@, i), ![p].got = x]
        BY <1>1, <2>1, Zenon
      <3> QED BY <3>1, Zenon
    <2>2. CASE ~pm_graph_report(job[p].todo[i], InOrder(web[job[p].todo[i]].tests)).ok
      BY <1>1, <2>2, Zenon
    <2> QED BY <2>1, <2>2
  <1>3. WebGrows
    <2>1. CASE web' = [web EXCEPT ![f].sum = v]
      BY <2>1, SumWeb
    <2>2. CASE UNCHANGED web
      BY <2>2, SameWeb
    <2> QED BY <1>2, <2>1, <2>2
  <1>4. UNCHANGED <<vars, tars, datacache, ghosts>> /\ job[p].step = "report"
    BY DEF Report
  <1>5. /\ Works(p) /\ job'[p].step \in {"repwrite", "report"}
        /\ job'[p].copies = job[p].copies
    BY <1>2, <1>4 DEF Works, AtWork, Alone, Fields
  <1>6. DOMAIN web' = DOMAIN web
    BY <1>2
  <1> QED BY <1>3, <1>4, <1>5, <1>6 DEF Plain, Moves, Rewriting, RowsStay, AfterCopy, ghosts

(* Writing the summary of a folder is a plain step. *)
LEMMA ReportWritePlain ==
  ASSUME RTypeOK, NEW p \in Proc, ReportWrite(p)
  PROVE  Plain(p)
  <1> USE Fields_ DEF RTypeOK
  <1>1. PICK r \in job[p].got : web' = [web EXCEPT ![r.to].sum = r.sum]
    BY DEF ReportWrite
  <1>2. /\ Works(p) /\ job'[p].step = "report"
        /\ job'[p].copies = job[p].copies /\ UNCHANGED <<tars, datacache, ghosts>>
        /\ job[p].step = "repwrite"
    BY DEF Works, AtWork, Alone, Fields, ReportWrite
  <1>3. WebGrows
    BY <1>1, SumWeb
  <1> QED BY <1>2, <1>3 DEF Plain, Moves, Rewriting, RowsStay, AfterCopy, ghosts

(* The end of the reports, if main goes on, is a plain step. *)
LEMMA ReportsDonePlain ==
  ASSUME RTypeOK, NEW p \in Proc, ReportsDone(p), ~Leave(p)
  PROVE  Plain(p)
  <1> USE Fields_ DEF RTypeOK
  <1>1. /\ Works(p) /\ job'[p].step \in {"summary", "catsum"}
        /\ job'[p].copies = job[p].copies
        /\ UNCHANGED <<web, tars, lost, datacache, recorded, disturbed>>
        /\ job[p].step = "report"
    BY DEF Works, AtWork, Alone, Fields, ReportsDone
  <1> QED BY <1>1, SameWeb DEF Plain, Moves, Rewriting, RowsStay, AfterCopy

(* Reading a summary file is a plain step. *)
LEMMA ReadSummaryPlain ==
  ASSUME RTypeOK, NEW p \in Proc, ReadSummary(p), ~Leave(p)
  PROVE  Plain(p) /\ job'[p].step = job[p].step
  <1> USE Fields_ DEF RTypeOK
  <1>1. UNCHANGED <<web, tars, datacache, ghosts>> /\ job[p].step \in {"catsum", "sumread"}
    BY DEF ReadSummary, shared
  <1>2. /\ Works(p) /\ job'[p].step = job[p].step
        /\ job'[p].copies = job[p].copies
    <2>1. CASE Blank(Head(job[p].todo))
      <3>1. UNCHANGED vars /\ job' = [job EXCEPT ![p].todo = Tail(@),
                                                ![p].got = @ \cup {Head(job[p].todo)}]
        BY <2>1, Zenon DEF ReadSummary
      <3> QED BY <1>1, <3>1 DEF Works, AtWork, Alone, Fields
    <2>2. CASE ~Blank(Head(job[p].todo))
      <3> DEFINE f == Head(job[p].todo)
                 entry == [of |-> f, fig |-> info(web[f].sum)]
      <3>1. /\ UNCHANGED vars
            /\ job' = [job EXCEPT ![p].todo = Tail(@), ![p].det = WithFigures(@, f),
                                  ![p].list = Append(@, entry)]
        BY <2>2, Zenon DEF ReadSummary
      <3> HIDE DEF f, entry
      <3> QED BY <1>1, <3>1 DEF Works, AtWork, Alone, Fields
    <2> QED BY <2>1, <2>2
  <1> QED BY <1>1, <1>2, SameWeb DEF Plain, Moves, Rewriting, RowsStay, AfterCopy, ghosts

(* The end of the sorted summaries is a plain step. *)
LEMMA CatSumDonePlain ==
  ASSUME RTypeOK, NEW p \in Proc, CatSumDone(p)
  PROVE  Plain(p)
  <1> USE Fields_ DEF RTypeOK, CatSumDone
  <1>1. Works(p) /\ job'[p].step = "dcread" /\ job'[p].copies = job[p].copies
    BY DEF Works, AtWork, Alone, Fields
  <1> QED BY <1>1, SameWeb DEF Plain, Moves, Rewriting, RowsStay, AfterCopy, shared, ghosts

(* The overview, but for the tarballs it may remove at the end, is a plain step. *)
LEMMA SummaryPlain ==
  ASSUME RTypeOK, NEW p \in Proc, Summary(p), ~Leave(p)
  PROVE  Plain(p)
  <1> USE Fields_ DEF RTypeOK
  <1>1. PICK fs, next :
          /\ next \in {"tcread", "sumread"}
          /\ \/ job' = [job EXCEPT ![p].step = "dcread"]
             \/ job' = [job EXCEPT ![p].mts = fs, ![p].todo = fs, ![p].list = <<>>,
                                  ![p].step = next]
    BY Zenon DEF Summary
  <1>2. /\ UNCHANGED <<vars, web, tars, lost, datacache, recorded, disturbed>>
        /\ job[p].step = "summary"
    BY DEF Summary
  <1>3. /\ Works(p) /\ job'[p].step \in {"dcread", "tcread", "sumread"}
        /\ job'[p].copies = job[p].copies
    BY <1>1, <1>2 DEF Works, AtWork, Alone, Fields
  <1> QED BY <1>2, <1>3, SameWeb DEF Plain, Moves, Rewriting, RowsStay, AfterCopy

(* Writing a sorted summary is a plain step. *)
LEMMA SummaryWritePlain ==
  ASSUME RTypeOK, NEW p \in Proc, SummaryWrite(p)
  PROVE  Plain(p)
  <1> USE Fields_ DEF RTypeOK
  <1>1. /\ job' = [job EXCEPT ![p].step = "summary", ![p].targets = Tail(@), ![p].list = <<>>,
                              ![p].got = {}]
        /\ UNCHANGED <<vars, web, tars, datacache, ghosts>> /\ job[p].step = "sumread"
    BY DEF SummaryWrite
  <1>2. Works(p) /\ job'[p].step = "summary" /\ job'[p].copies = job[p].copies
    BY <1>1 DEF Works, AtWork, Alone, Fields
  <1> QED BY <1>1, <1>2, SameWeb DEF Plain, Moves, Rewriting, RowsStay, AfterCopy, ghosts

-----------------------------------------------------------------------------
(* What each kind of step keeps.                                             *)

(* A plain step keeps what is known of unpacked tests and of copies. *)
LEMMA MovesKeep ==
  ASSUME RIInv, NEW p \in Proc, Moves(p)
  PROVE  RTypeOK' /\ UnpackInv' /\ CopiesInv'
  <1> USE Fields_ DEF RIInv, Moves, Works, AtWork, Alone, Fields
  <1>1. RTypeOK'
    BY DEF RTypeOK, WebGrows, vars
  <1>2. UnpackInv'
    BY DEF UnpackInv, Brought, AfterCopy
  <1>3. CopiesInv'
    BY DEF CopiesInv, Sourced
  <1> QED BY <1>1, <1>2, <1>3

(* What a web folder holds it holds after a step that only adds. *)
LEMMA HeldStays ==
  ASSUME WebGrows, NEW mt, NEW n, Held(mt, n)
  PROVE  Held(mt, n)'
  BY DEF WebGrows, Held

(* A plain step takes no test out of reach. *)
LEMMA MovesSafe ==
  ASSUME RIInv, SafeInv, NEW p \in Proc, Moves(p)
  PROVE  SafeInv'
  <1> USE DEF SafeInv, Moves, Works, AtWork, Alone
  <1>1. ASSUME NEW q \in Proc, job'[q].step = "copy" \/ AfterCopy(q)',
               NEW mt \in Mine(job'[q]), NEW n \in DOMAIN mt.tests
        PROVE  Held(mt, n)' \/ ToCopy(q, mt, n)'
    <2>1. CASE q # p
      BY <1>1, <2>1, HeldStays DEF HeldInv, AfterCopy, ToCopy
    <2>2. CASE q = p
      <3>1. mt \in Mine(job[p])
        BY <1>1, <2>2 DEF Mine
      <3>2. job[p].args.tars # <<>>
        BY <3>1 DEF Mine, Unpacked, Range
      <3>3. AfterCopy(p) /\ Held(mt, n)
        BY <1>1, <2>2, <3>1, <3>2 DEF HeldInv, ToCopy, AfterCopy
      <3> QED BY <2>2, <3>3, HeldStays
    <2> QED BY <2>1, <2>2
  <1>2. HeldInv'
    BY <1>1 DEF HeldInv
  <1>3. TarballSafe'
    BY HeldStays DEF TarballSafe
  <1> QED BY <1>2, <1>3

(* A plain step keeps the invariant. *)
LEMMA PlainKeeps ==
  ASSUME RIInv, NEW p \in Proc, Plain(p)
  PROVE  RIInv'
  <1>1. \A q \in Proc : (Rewriting(q)' <=> Rewriting(q)) /\ (Rewriting(q) => job'[q] = job[q])
    BY DEF Plain, Moves, Works, AtWork, Alone, Rewriting
  <1>2. RowsInv'
    BY <1>1 DEF Plain, RowsStay, RIInv, RowsInv
  <1> QED BY <1>2, MovesKeep DEF Plain, RIInv

(* An instance that ends, by itself or by a crash, keeps the invariant. *)
LEMMA LeavesKeep ==
  ASSUME IInv, RIInv, NEW p \in Proc, Leaves(p)
  PROVE  RIInv'
  <1> USE Fields_ DEF RIInv, Leaves, Alone
  <1>1. RTypeOK'
    <2>1. \A q \in Proc : q # p => pc'[q] = pc[q]
      BY DEF End, IInv, TypeOK
    <2>2. job'[p].step = "out" /\ job'[p].args.tars \in Seq(DOMAIN Tarball)
      OBVIOUS
    <2> QED BY <2>1, <2>2 DEF RTypeOK, WebGrows
  <1>2. UnpackInv'
    BY DEF UnpackInv, Brought
  <1>3. CopiesInv'
    BY DEF CopiesInv, Sourced
  <1>4. RowsInv'
    <2>1. SUFFICES ASSUME ~disturbed' PROVE RowsInv'
      BY DEF RowsInv
    <2>2. \A q \in Proc : (Rewriting(q)' <=> Rewriting(q)) /\ (Rewriting(q) => job'[q] = job[q])
      BY <2>1 DEF Rewriting
    <2> QED BY <2>1, <2>2 DEF RowsInv
  <1> QED BY <1>1, <1>2, <1>3, <1>4

(* An instance that ends takes only tarballs whose tests are in the web folders. *)
LEMMA LeavesSafe ==
  ASSUME IInv, RIInv, SafeInv, NEW p \in Proc, Leaves(p)
  PROVE  SafeInv'
  <1> USE Fields_ DEF SafeInv, Leaves, Alone
  <1>1. HeldInv'
    BY HeldStays DEF HeldInv, AfterCopy, ToCopy
  <1>2. ASSUME NEW t \in DOMAIN Tarball, t \notin tars', NEW mt \in Placed(Tarball[t]),
               <<t, OutDir(mt)>> \notin lost', NEW n \in DOMAIN mt.tests
        PROVE  Held(mt, n)
    <2>1. CASE t \notin tars
      <3>1. <<t, OutDir(mt)>> \notin lost
        BY <1>2 DEF EmptyTrash
      <3> QED BY <1>2, <2>1, <3>1 DEF TarballSafe
    <2>2. CASE t \in tars
      <3>1. AfterCopy(p) /\ t \in InTrash(p) /\ <<t, OutDir(mt)>> \notin (tars \cap InTrash(p)) \X job[p].skipped
        BY <1>2, <2>2 DEF EmptyTrash
      <3>2. OutDir(mt) \notin job[p].skipped /\ t \in Range(job[p].args.tars)
        BY <2>2, <3>1 DEF InTrash
      <3>3. mt \in Mine(job[p])
        BY <1>2, <3>2 DEF Mine, Unpacked
      <3> QED BY <3>1, <3>3 DEF HeldInv, ToCopy, AfterCopy
    <2> QED BY <2>1, <2>2
  <1>3. TarballSafe'
    BY <1>2, HeldStays DEF TarballSafe
  <1> QED BY <1>1, <1>3

(* An instance that is not at work yet keeps the invariant. *)
LEMMA WaitsKeep ==
  ASSUME RIInv, NEW p \in Proc, Waits(p)
  PROVE  RIInv'
  <1> USE DEF RIInv, Waits, Alone
  <1>1. RTypeOK'
    BY DEF RTypeOK, Fields
  <1>2. UnpackInv'
    BY DEF UnpackInv, Brought
  <1>3. CopiesInv'
    BY DEF CopiesInv, Sourced
  <1>4. RowsInv'
    <2>1. \A q \in Proc : (Rewriting(q)' <=> Rewriting(q)) /\ (Rewriting(q) => job'[q] = job[q])
      BY DEF Rewriting
    <2> QED BY <2>1 DEF RowsInv, RowsStay
  <1> QED BY <1>1, <1>2, <1>3, <1>4

(* An instance that is not at work yet removes nothing. *)
LEMMA WaitsSafe ==
  ASSUME SafeInv, NEW p \in Proc, Waits(p)
  PROVE  SafeInv'
  <1> USE DEF SafeInv, Waits, Alone
  <1>1. HeldInv'
    BY DEF HeldInv, AfterCopy, ToCopy, Held
  <1>2. TarballSafe'
    BY DEF TarballSafe, Held
  <1> QED BY <1>1, <1>2

-----------------------------------------------------------------------------
(* Of which kind each action is.                                             *)

(* The start of an instance is not work on the data. *)
LEMMA StartWaits ==
  ASSUME IInv, RIInv, NEW p \in Proc, Start(p)
  PROVE  Waits(p)
  <1> USE Fields_, ReportAssumption DEF IInv, TypeOK, RIInv, RTypeOK, Start, Launch
  <1>1. PICK a \in Jobs[p] : job' = [job EXCEPT ![p].args = a]
    OBVIOUS
  <1>2. Alone(p) /\ job[p].step = "out" /\ DOMAIN job'[p] = Fields /\ job'[p].step = "out"
    BY <1>1 DEF Alone, Fields
  <1>3. job'[p].args = a /\ job'[p].copies = job[p].copies
    BY <1>1 DEF Fields
  <1>4. a.tars \in Seq(DOMAIN Tarball)
    BY <1>1
  <1> QED BY <1>2, <1>3, <1>4 DEF Waits, RowsStay, shared

(* Trying a lock is not work on the data. *)
LEMMA TryWaits ==
  ASSUME IInv, RIInv, NEW p \in Proc, Try(p)
  PROVE  Waits(p)
  <1> USE Fields_ DEF IInv, TypeOK, RIInv, RTypeOK, Try, TryLock
  <1>1. job[p].step = "out" /\ (pc'[p] = "run" \/ job' = job)
    OBVIOUS
  <1>2. job' = job \/ job' = [job EXCEPT ![p].step = "begin"]
    OBVIOUS
  <1>3. /\ Alone(p) /\ DOMAIN job'[p] = Fields /\ job'[p].args = job[p].args
        /\ job'[p].copies = job[p].copies
        /\ job'[p].step = "out" \/ (job'[p].step = "begin" /\ pc'[p] = "run")
    BY <1>1, <1>2 DEF Alone, Fields
  <1>4. \A q \in Proc : q # p => pc'[q] = pc[q]
    OBVIOUS
  <1> QED BY <1>1, <1>3, <1>4 DEF Waits, RowsStay, shared, ghosts

(* A second of sleep is not work on the data. *)
LEMMA WaitOneWaits ==
  ASSUME IInv, RIInv, NEW p \in Proc, WaitOne(p)
  PROVE  Waits(p)
  <1> USE Fields_ DEF IInv, TypeOK, RIInv, RTypeOK, WaitOne, Sleep
  <1>1. job[p].step = "out" /\ (job' = job \/ job' = [job EXCEPT ![p] = Idle])
    OBVIOUS
  <1>2. <<>> \in Seq(DOMAIN Tarball)
    OBVIOUS
  <1>3. /\ Alone(p) /\ DOMAIN job'[p] = Fields /\ job'[p].args.tars \in Seq(DOMAIN Tarball)
        /\ job'[p].copies \subseteq job[p].copies /\ job'[p].step = "out"
    BY <1>1, <1>2 DEF Alone, Fields
  <1>4. \A q \in Proc : q # p => pc'[q] = pc[q]
    OBVIOUS
  <1> QED BY <1>1, <1>3, <1>4 DEF Waits, RowsStay, shared, ghosts

(* An end that is no crash comes when ~/.multitestdata is not being written. *)
LEMMA EndLeaves ==
  ASSUME RIInv, NEW p \in Proc, Leave(p), ~Rewriting(p),
         UNCHANGED <<web, datacache, recorded, disturbed>>,
         UNCHANGED <<tars, lost>> \/ (AfterCopy(p) /\ EmptyTrash(p))
  PROVE  Leaves(p)
  <1>1. Alone(p) /\ job'[p] = Idle
    BY DEF Leave, Alone, RIInv, RTypeOK
  <1>3. WebGrows
    BY SameWeb DEF RIInv
  <1>4. End(p)
    BY DEF Leave
  <1> QED BY <1>1, <1>3, <1>4 DEF Leaves

(* The early ends of an instance.  First, a tarball that cannot be read. *)
LEMMA UnpackLeaves ==
  ASSUME RIInv, NEW p \in Proc, Unpack(p), Leave(p)
  PROVE  Leaves(p)
  BY EndLeaves DEF Unpack, Rewriting, shared, ghosts

(* The end of an instance that finds no test. *)
LEMMA FindLeaves ==
  ASSUME RIInv, NEW p \in Proc, Find(p), Leave(p)
  PROVE  Leaves(p)
  BY EndLeaves DEF Find, Rewriting, shared, ghosts

(* The end of an instance behind its reports. *)
LEMMA ReportsDoneLeaves ==
  ASSUME RIInv, NEW p \in Proc, ReportsDone(p), Leave(p)
  PROVE  Leaves(p)
  BY EndLeaves DEF ReportsDone, Rewriting, AfterCopy

(* The end of an instance on a summary it cannot read. *)
LEMMA ReadSummaryLeaves ==
  ASSUME RIInv, NEW p \in Proc, ReadSummary(p), Leave(p)
  PROVE  Leaves(p)
  BY EndLeaves DEF ReadSummary, Rewriting, shared, ghosts

(* The end of an instance behind the overview, with the tarballs it was to remove. *)
LEMMA SummaryLeaves ==
  ASSUME RIInv, NEW p \in Proc, Summary(p), Leave(p)
  PROVE  Leaves(p)
  <1>1. UNCHANGED <<tars, lost>> \/ EmptyTrash(p)
    BY Zenon DEF Summary
  <1>2. UNCHANGED <<web, datacache, recorded, disturbed>> /\ job[p].step = "summary"
    BY DEF Summary
  <1> QED BY <1>1, <1>2, EndLeaves DEF Rewriting, AfterCopy

(* The end of an instance that only removes tarballs. *)
LEMMA TrashLeaves ==
  ASSUME RIInv, NEW p \in Proc, Trash(p)
  PROVE  Leaves(p)
  BY EndLeaves DEF Trash, Rewriting, AfterCopy

(* Tests that are put into a folder. *)
LEMMA PutTests ==
  ASSUME NEW tests, HasTests(tests), NEW n \in Nat, NEW t, IsTest(t)
  PROVE  /\ HasTests(Put(tests, n, t)) /\ DOMAIN Put(tests, n, t) = DOMAIN tests \cup {n}
         /\ Put(tests, n, t)[n] = t
         /\ \A k \in DOMAIN tests : k # n => Put(tests, n, t)[k] = tests[k]
  <1>1. IsFiniteSet(DOMAIN tests \cup {n})
    BY FS_AddElement DEF HasTests
  <1> QED BY <1>1 DEF HasTests, Put

(* A folder with nothing in it is one of a test. *)
LEMMA NoFilesTest == IsTest(NoFiles)
  BY DEF IsTest, NoFiles, FileStates, NoDesc

(* A copy that comes from a tarball is of a test. *)
LEMMA GenuineNumber ==
  ASSUME NEW c, Genuine(c)
  PROVE  c.n \in Nat /\ IsTest(c.test)
  <1>1. PICK t \in DOMAIN Tarball : \E mt \in Placed(Tarball[t]) :
          c.n \in DOMAIN mt.tests /\ IsTest(c.test)
    BY DEF Genuine
  <1>2. PICK mt \in Range(Tarball[t]) : c.n \in DOMAIN mt.tests /\ IsTest(c.test)
    BY <1>1 DEF Placed
  <1> QED BY <1>2, ReportAssumption DEF HasTests

(* A crash leaves the data as they were. *)
LEMMA CrashLeaves ==
  ASSUME RIInv, NEW p \in Proc, Crash(p)
  PROVE  Leaves(p)
  <1>1. Alone(p) /\ job'[p] = Idle /\ End(p)
    BY DEF Crash, Leave, Alone, RIInv, RTypeOK
  <1>2. UNCHANGED <<datacache, recorded, tars, lost>> /\ disturbed' = (disturbed \/ Rewriting(p))
    BY DEF Crash
  <1>3. WebGrows
    <2>1. CASE UNCHANGED web
      BY <2>1, SameWeb DEF RIInv
    <2>2. ASSUME NEW c \in job[p].copies, c.to \in DOMAIN web,
                 c.n \notin DOMAIN web[c.to].tests,
                 web' = [web EXCEPT ![c.to].tests = Put(@, c.n, NoFiles)]
          PROVE  WebGrows
      <3>1. c.n \in Nat
        BY GenuineNumber DEF RIInv, CopiesInv
      <3>2. DOMAIN web[c.to] = {"tests", "sum"} /\ HasTests(web[c.to].tests)
        BY <2>2 DEF RIInv, RTypeOK
      <3> DEFINE new == Put(web[c.to].tests, c.n, NoFiles)
      <3>3. /\ HasTests(new) /\ DOMAIN new = DOMAIN web[c.to].tests \cup {c.n}
            /\ \A k \in DOMAIN web[c.to].tests : new[k] = web[c.to].tests[k]
        <4>1. IsTest(NoFiles)
          BY NoFilesTest
        <4> HIDE DEF NoFiles
        <4>2. \A k \in DOMAIN web[c.to].tests : k # c.n
          BY <2>2
        <4>3. HasTests(web[c.to].tests)
          BY <3>2
        <4>4. /\ HasTests(new) /\ DOMAIN new = DOMAIN web[c.to].tests \cup {c.n}
              /\ \A k \in DOMAIN web[c.to].tests : k # c.n => new[k] = web[c.to].tests[k]
          <5> DEFINE tests == web[c.to].tests
                     n == c.n
                     none == NoFiles
          <5>1. HasTests(tests) /\ IsTest(none) /\ n \in Nat
            BY <3>1, <4>1, <4>3
          <5> HIDE DEF tests, n, none
          <5>2. /\ HasTests(Put(tests, n, none))
                /\ DOMAIN Put(tests, n, none) = DOMAIN tests \cup {n}
                /\ \A k \in DOMAIN tests : k # n => Put(tests, n, none)[k] = tests[k]
            BY <5>1, PutTests
          <5> QED BY <5>2, Zenon DEF tests, n, none
        <4> HIDE DEF new
        <4> QED BY <4>2, <4>4
      <3>4. /\ DOMAIN web' = DOMAIN web /\ DOMAIN web'[c.to] = {"tests", "sum"}
            /\ web'[c.to].tests = new
            /\ \A f \in DOMAIN web : f # c.to => web'[f] = web[f]
        BY <2>2, <3>2
      <3> HIDE DEF new
      <3> QED BY <3>2, <3>3, <3>4 DEF WebGrows, RIInv, RTypeOK
    <2> QED BY <2>1, <2>2 DEF Crash, MayCopy
  <1> QED BY <1>1, <1>2, <1>3 DEF Leaves

(* update_data_cache, without what it says of the rows. *)
LEMMA DataMoves ==
  ASSUME RIInv, NEW p \in Proc, DataRead(p) \/ DataOpen(p) \/ DataLock(p) \/ DataFlush(p)
  PROVE  Moves(p)
  <1> USE Fields_ DEF RIInv, RTypeOK
  <1>1. UNCHANGED <<vars, web, tars, lost>> /\ AfterCopy(p) /\ job[p].step # "out"
    BY DEF DataRead, DataOpen, DataLock, DataFlush, AfterCopy, shared, ghosts
  <1>2. \/ \E to \in {"trash", "dclock", "dcflush"} : job' = [job EXCEPT ![p].step = to]
        \/ job' = [job EXCEPT ![p].step = "dcopen", ![p].got = {datacache}]
        \/ job' = [job EXCEPT ![p].step = "trash", ![p].got = {}]
    BY DEF DataRead, DataOpen, DataLock, DataFlush
  <1>3. Works(p) /\ job'[p].copies = job[p].copies /\ AfterCopy(p)'
    <2>1. CASE \E to \in {"trash", "dclock", "dcflush"} : job' = [job EXCEPT ![p].step = to]
      BY <1>1, <2>1 DEF Works, AtWork, Alone, Fields, AfterCopy
    <2>2. CASE job' = [job EXCEPT ![p].step = "dcopen", ![p].got = {datacache}]
      BY <1>1, <2>2 DEF Works, AtWork, Alone, Fields, AfterCopy
    <2>3. CASE job' = [job EXCEPT ![p].step = "trash", ![p].got = {}]
      BY <1>1, <2>3 DEF Works, AtWork, Alone, Fields, AfterCopy
    <2> QED BY <1>2, <2>1, <2>2, <2>3
  <1> QED BY <1>1, <1>3, SameWeb DEF Moves, AfterCopy

(* Read and written by one instance at a time, the rows are all there. *)
LEMMA DataRows ==
  ASSUME RIInv, NEW p \in Proc, DataRead(p) \/ DataOpen(p) \/ DataLock(p) \/ DataFlush(p)
  PROVE  RowsInv'
  <1> USE Fields_ DEF RIInv, RTypeOK
  <1>1. Alone(p)
    BY DataMoves DEF Moves, Works, AtWork
  <1>2. \A q \in Proc : q # p => (Rewriting(q)' <=> Rewriting(q)) /\ job'[q].got = job[q].got
    BY <1>1 DEF Alone, Rewriting
  <1>3. CASE DataRead(p)
    <2>1. CASE job[p].det = NoRows
      <3>1. ~Rewriting(p) /\ ~Rewriting(p)' /\ UNCHANGED <<disturbed, datacache, recorded>>
        BY <1>3, <2>1 DEF DataRead, Rewriting, Fields
      <3> QED BY <1>2, <3>1 DEF RowsInv
    <2>2. CASE job[p].det # NoRows
      <3>1. /\ ~Rewriting(p) /\ Rewriting(p)' /\ job'[p].got = {datacache}
            /\ UNCHANGED <<datacache, recorded>>
            /\ disturbed' = (disturbed \/ \E q \in Proc : Rewriting(q))
        <4>1. /\ job' = [job EXCEPT ![p].step = "dcopen", ![p].got = {datacache}]
              /\ UNCHANGED <<datacache, recorded>> /\ job[p].step = "dcread"
              /\ disturbed' = (disturbed \/ \E q \in Proc : Rewriting(q))
          BY <1>3, <2>2 DEF DataRead
        <4>2. job'[p].step = "dcopen" /\ job'[p].got = {datacache}
          BY <4>1 DEF Fields
        <4> QED BY <4>1, <4>2 DEF Rewriting
      <3> QED BY <1>2, <3>1 DEF RowsInv
    <2> QED BY <2>1, <2>2
  <1>4. CASE DataOpen(p) \/ DataLock(p)
    <2>1. Rewriting(p) /\ Rewriting(p)' /\ job'[p].got = job[p].got
          /\ UNCHANGED <<disturbed, recorded>>
      BY <1>4 DEF DataOpen, DataLock, Rewriting, Fields, ghosts, shared
    <2> QED BY <1>2, <2>1 DEF RowsInv
  <1>5. CASE DataFlush(p)
    <2>1. /\ Rewriting(p) /\ ~Rewriting(p)' /\ UNCHANGED disturbed
          /\ recorded' = MergeRows(recorded, job[p].det)
          /\ datacache' = MergeRows(CHOOSE rows \in job[p].got : TRUE, job[p].det)
      BY <1>5 DEF DataFlush, Rewriting, NewCache, Fields
    <2>2. ASSUME ~disturbed PROVE datacache' = recorded'
      <3>1. job[p].got = {recorded}
        BY <2>1, <2>2 DEF RowsInv
      <3>2. (CHOOSE rows \in {recorded} : TRUE) = recorded
        OBVIOUS
      <3> QED BY <2>1, <3>1, <3>2
    <2> QED BY <1>2, <2>1, <2>2 DEF RowsInv
  <1> QED BY <1>3, <1>4, <1>5

-----------------------------------------------------------------------------
(* From the tarball into the web folder.                                     *)

(* What is read from a dmesg log depends on that log. *)
LEMMA LogData ==
  ASSUME NEW t, NEW u, t.log = u.log, t.desc = u.desc
  PROVE  data_from_test(t, <<"log">>) = data_from_test(u, <<"log">>)
  <1> DEFINE there(x) == {i \in DOMAIN <<"log">> : x[<<"log">>[i]] # "none"}
  <1>1. there(t) = there(u) /\ (there(t) # {} => there(t) = {1})
    OBVIOUS
  <1>2. Min({1}) = 1
    BY DEF Min
  <1>3. there(t) # {} => <<"log">>[Min(there(t))] = "log"
    BY <1>1, <1>2
  <1>4. data_from_dmesg(t) = data_from_dmesg(u)
    BY DEF data_from_dmesg
  <1>5. \A x : data_from_test(x, <<"log">>) =
          IF there(x) = {} \/ x[<<"log">>[Min(there(x))]] = "bad"
          THEN [ok |-> FALSE, data |-> NoData]
          ELSE [ok |-> TRUE, data |-> FullMode(IF <<"log">>[Min(there(x))] = "html"
                                               THEN data_from_html(x) ELSE data_from_dmesg(x))]
    BY Zenon DEF data_from_test
  <1> HIDE DEF there
  <1>6. CASE there(t) = {}
    BY <1>1, <1>5, <1>6
  <1>7. CASE there(t) # {}
    BY <1>1, <1>3, <1>4, <1>5, <1>7
  <1> QED BY <1>6, <1>7

(* A multitest is sorted into the same folder with its timelines made. *)
LEMMA SameFolder ==
  ASSUME NEW mt, DOMAIN mt = {"name", "tests"}, HasTests(mt.tests), NEW failing, NEW new,
         new = WithHtml(mt, failing)
  PROVE  /\ Named(new.tests) = Named(mt.tests)
         /\ Named(mt.tests) # {} =>
              /\ OutDir(new) = OutDir(mt)
              /\ categorize_by_timeline(new.tests) = categorize_by_timeline(mt.tests)
  <1>1. /\ DOMAIN new.tests = DOMAIN mt.tests /\ new.name = mt.name
        /\ \A n \in DOMAIN mt.tests : new.tests[n].log = mt.tests[n].log
        /\ \A n \in DOMAIN mt.tests : new.tests[n].desc = mt.tests[n].desc
    BY FixKeeps, RegeneratedKeeps DEF WithHtml
  <1>2. \A n \in DOMAIN mt.tests :
          data_from_test(new.tests[n], <<"log">>) = data_from_test(mt.tests[n], <<"log">>)
    BY <1>1, LogData
  <1>3. Named(new.tests) = Named(mt.tests)
    BY <1>1, <1>2 DEF Named
  <1>4. ASSUME Named(mt.tests) # {}
        PROVE  /\ OutDir(new) = OutDir(mt)
               /\ categorize_by_timeline(new.tests) = categorize_by_timeline(mt.tests)
    <2>1. Named(mt.tests) \subseteq Nat /\ Named(mt.tests) \subseteq DOMAIN mt.tests
      BY DEF Named, HasTests
    <2>2. Min(Named(mt.tests)) \in DOMAIN mt.tests
      BY <1>4, <2>1, NatMin DEF Min
    <2>3. categorize_by_timeline(new.tests) = categorize_by_timeline(mt.tests)
      BY <1>2, <1>3, <2>2 DEF categorize_by_timeline
    <2> QED BY <1>1, <2>3 DEF OutDir
  <1> QED BY <1>3, <1>4

(* What is unpacked is what the tarballs hold. *)
LEMMA UnpackAll ==
  ASSUME NEW ts \in Seq(DOMAIN Tarball), ts # <<>>
  PROVE  /\ IsSeq(FlattenSeq([i \in DOMAIN ts |-> Tarball[ts[i]]]))
         /\ Range(FlattenSeq([i \in DOMAIN ts |-> Tarball[ts[i]]]))
              = UNION {Range(Tarball[t]) : t \in Range(ts)}
  <1> DEFINE S == UNION {Range(Tarball[t]) : t \in DOMAIN Tarball}
             ss == [i \in DOMAIN ts |-> Tarball[ts[i]]]
  <1>1. \A t \in DOMAIN Tarball : Tarball[t] \in Seq(S)
    <2>1. ASSUME NEW t \in DOMAIN Tarball PROVE Tarball[t] \in Seq(S)
      <3>1. Tarball[t] \in Seq(Range(Tarball[t]))
        BY ReportAssumption
      <3>2. Range(Tarball[t]) \subseteq S
        OBVIOUS
      <3> HIDE DEF S
      <3> QED BY <3>1, <3>2
    <2> QED BY <2>1
  <1>2. ss \in Seq(Seq(S)) /\ Len(ss) = Len(ts) /\ Len(ts) # 0
    <2> HIDE DEF S
    <2> QED BY <1>1
  <1>3. /\ FlattenSeq(ss) \in Seq(S)
        /\ Range(FlattenSeq(ss)) = UNION {Range(ss[i]) : i \in 1..Len(ss)}
    <2> HIDE DEF S, ss
    <2> QED BY <1>2, RangeFlatten
  <1>5. IsSeq(FlattenSeq(ss))
    <2> DEFINE q == FlattenSeq(ss)
    <2>1. q \in Seq(S)
      BY <1>3
    <2> HIDE DEF S, q
    <2>2. IsSeq(q)
      BY <2>1, SeqOfRange DEF IsSeq
    <2> QED BY <2>2 DEF q
  <1>4. UNION {Range(ss[i]) : i \in 1..Len(ss)} = UNION {Range(Tarball[t]) : t \in Range(ts)}
    <2>1. Len(ss) = Len(ts) /\ DOMAIN ts = 1..Len(ts)
      BY <1>2
    <2>2. \A i \in 1..Len(ss) : ss[i] = Tarball[ts[i]] /\ ts[i] \in Range(ts)
      BY <2>1 DEF Range
    <2>3. \A t \in Range(ts) : \E i \in 1..Len(ss) : t = ts[i]
      BY <2>1 DEF Range
    <2> HIDE DEF ss
    <2>4. ASSUME NEW i \in 1..Len(ss)
          PROVE  Range(ss[i]) \subseteq UNION {Range(Tarball[t]) : t \in Range(ts)}
      BY <2>2
    <2>5. ASSUME NEW t \in Range(ts)
          PROVE  Range(Tarball[t]) \subseteq UNION {Range(ss[i]) : i \in 1..Len(ss)}
      BY <2>2, <2>3
    <2> QED BY <2>4, <2>5
  <1> QED BY <1>3, <1>4, <1>5

(* Unpacking brings the tests of the tarballs named, and no others. *)
LEMMA UnpackKeeps ==
  ASSUME RIInv, NEW p \in Proc, Unpack(p), ~Leave(p)
  PROVE  RIInv' /\ (SafeInv => SafeInv')
  <1> USE Fields_ DEF RIInv
  <1>1. /\ job' = [job EXCEPT ![p].step = "timelines",
                              ![p].mts = FlattenSeq([i \in DOMAIN job[p].args.tars |->
                                                       Tarball[job[p].args.tars[i]]])]
        /\ UNCHANGED <<vars, shared, ghosts>> /\ job[p].step = "begin"
        /\ job[p].args.tars # <<>>
    BY DEF Unpack
  <1>2. /\ Works(p) /\ job'[p].step = "timelines" /\ job'[p].copies = job[p].copies
        /\ job'[p].mts = FlattenSeq([i \in DOMAIN job[p].args.tars |->
                                       Tarball[job[p].args.tars[i]]])
    BY <1>1 DEF Works, AtWork, Alone, Fields, RTypeOK
  <1>3. Range(job'[p].mts) = Brought(p)
    BY <1>1, <1>2, UnpackAll DEF Brought, RTypeOK
  <1> HIDE DEF RIInv
  <1>4. RTypeOK'
    BY <1>1, <1>2 DEF RIInv, RTypeOK, Works, AtWork, Alone, Fields, vars, shared
  <1>5. RowsInv'
    <2>1. \A q \in Proc : (Rewriting(q)' <=> Rewriting(q)) /\ (Rewriting(q) => job'[q] = job[q])
      BY <1>1, <1>2 DEF Works, AtWork, Alone, Rewriting
    <2> QED BY <1>1, <2>1 DEF RIInv, RowsInv, shared, ghosts
  <1>6. UnpackInv'
    BY <1>2, <1>3 DEF RIInv, UnpackInv, Brought, Works, AtWork, Alone
  <1>7. CopiesInv'
    BY <1>2 DEF RIInv, CopiesInv, Sourced, Works, AtWork, Alone
  <1>8. ASSUME SafeInv PROVE SafeInv'
    <2>1. HeldInv'
      <3>1. UNCHANGED <<web, tars>> /\ \A q \in Proc : q # p => job'[q] = job[q]
        BY <1>1, <1>2 DEF Works, AtWork, Alone, shared
      <3>2. job'[p].step # "copy" /\ ~AfterCopy(p)'
        BY <1>2 DEF AfterCopy
      <3>3. ASSUME NEW q \in Proc, q # p, job'[q].step = "copy" \/ AfterCopy(q)',
                   NEW mt \in Mine(job'[q]), NEW n \in DOMAIN mt.tests
            PROVE  Held(mt, n)' \/ ToCopy(q, mt, n)'
        <4>1. Held(mt, n) \/ ToCopy(q, mt, n)
          BY <1>8, <3>1, <3>3 DEF SafeInv, HeldInv, AfterCopy
        <4> QED BY <3>1, <3>3, <4>1 DEF Held, ToCopy
      <3> QED BY <3>2, <3>3 DEF HeldInv
    <2>2. TarballSafe'
      BY <1>1, <1>8 DEF SafeInv, TarballSafe, Held, shared, ghosts
    <2> QED BY <2>1, <2>2 DEF SafeInv
  <1> QED BY <1>4, <1>5, <1>6, <1>7, <1>8 DEF RIInv

(* What the work on the copies keeps, whatever it writes into the web folder. *)
LEMMA SortKeeps ==
  ASSUME RIInv, NEW p \in Proc, AtWork(p), RowsStay, ~Rewriting(p), ~Rewriting(p)',
         job'[p].step # "timelines", \A c \in job'[p].copies : Genuine(c), Sourced(p)',
         \A f \in DOMAIN web' : DOMAIN web'[f] = {"tests", "sum"} /\ HasTests(web'[f].tests)
  PROVE  RIInv'
  <1> USE Fields_ DEF RIInv, AtWork, Alone, Fields
  <1>1. RTypeOK'
    BY DEF RTypeOK, vars
  <1>2. RowsInv'
    <2>1. \A q \in Proc : (Rewriting(q)' <=> Rewriting(q)) /\ (Rewriting(q) => job'[q] = job[q])
      BY DEF Rewriting
    <2> QED BY <2>1 DEF RowsInv, RowsStay
  <1>3. UnpackInv'
    BY DEF UnpackInv, Brought
  <1>4. CopiesInv'
    BY DEF CopiesInv, Sourced
  <1> QED BY <1>1, <1>2, <1>3, <1>4

(* A copy is that of a test of a multitest that belongs somewhere. *)
LEMMA OneCopy ==
  ASSUME NEW mts, NEW c
  PROVE  c \in Copies(mts) <=>
           \E i \in DOMAIN mts : /\ Named(mts[i].tests) # {}
                                 /\ \E n \in DOMAIN mts[i].tests : c = CopyOf(mts, i, n)
  <1> DEFINE all(i) == {CopyOf(mts, i, n) : n \in DOMAIN mts[i].tests}
  <1>1. Copies(mts) = UNION {all(i) : i \in {j \in DOMAIN mts : Named(mts[j].tests) # {}}}
    BY DEF Copies
  <1>2. \A i : c \in all(i) <=> \E n \in DOMAIN mts[i].tests : c = CopyOf(mts, i, n)
    OBVIOUS
  <1> HIDE DEF all
  <1> QED BY <1>1, <1>2

Contents(ts) == UNION {Range(Tarball[t]) : t \in Range(ts)}

\* The copies are those of the tests of tarballs, and all of those of ts.
AllCopies(copies, ts) ==
  /\ \A c \in copies : Genuine(c)
  /\ \A mt \in UNION {Placed(Tarball[t]) : t \in Range(ts)} : \A n \in DOMAIN mt.tests :
       \E c \in copies : c.to = OutDir(mt) /\ c.n = n

(* The copies to make are those of the tests of the tarballs, all of them. *)
LEMMA CopiesOfTarballs ==
  ASSUME NEW ts \in Seq(DOMAIN Tarball), NEW failing, NEW old, NEW new,
         Range(old) = Contents(ts), new = AllWithHtml(old, failing)
  PROVE  AllCopies(Copies(new), ts)
  <1>1. \A t \in Range(ts) : t \in DOMAIN Tarball
    BY DEF Range
  <1>2. \A i \in DOMAIN old : \E t \in DOMAIN Tarball : old[i] \in Range(Tarball[t])
    <2>1. ASSUME NEW i \in DOMAIN old PROVE \E t \in DOMAIN Tarball : old[i] \in Range(Tarball[t])
      <3>1. old[i] \in Range(old)
        BY DEF Range
      <3> QED BY <1>1, <3>1 DEF Contents
    <2> QED BY <2>1
  <1>3. ASSUME NEW i \in DOMAIN old
        PROVE  /\ DOMAIN old[i] = {"name", "tests"} /\ HasTests(old[i].tests)
               /\ new[i] = WithHtml(old[i], failing)
    BY <1>2, ReportAssumption DEF AllWithHtml
  <1>4. ASSUME NEW i \in DOMAIN old
        PROVE  /\ Named(new[i].tests) = Named(old[i].tests)
               /\ Named(old[i].tests) # {} => OutDir(new[i]) = OutDir(old[i])
               /\ DOMAIN new[i].tests = DOMAIN old[i].tests
               /\ \A n \in DOMAIN old[i].tests :
                    IsTest(new[i].tests[n]) /\ new[i].tests[n].log = old[i].tests[n].log
    <2>1. Named(new[i].tests) = Named(old[i].tests)
          /\ (Named(old[i].tests) # {} => OutDir(new[i]) = OutDir(old[i]))
      <3>1. /\ DOMAIN old[i] = {"name", "tests"} /\ HasTests(old[i].tests)
            /\ new[i] = WithHtml(old[i], failing)
        BY <1>3, <1>4
      <3> QED BY <3>1, SameFolder, ZenonT(60)
    <2>2. /\ DOMAIN new[i].tests = DOMAIN old[i].tests /\ HasTests(new[i].tests)
          /\ \A n \in DOMAIN old[i].tests : new[i].tests[n].log = old[i].tests[n].log
      BY <1>3, FixKeeps
    <2> QED BY <2>1, <2>2 DEF HasTests
  <1>5. DOMAIN new = DOMAIN old
    BY DEF AllWithHtml
  <1>6. ASSUME NEW c \in Copies(new) PROVE Genuine(c)
    <2>1. PICK i \in DOMAIN new :
            Named(new[i].tests) # {} /\ \E n \in DOMAIN new[i].tests : c = CopyOf(new, i, n)
      BY OneCopy
    <2>2. PICK n \in DOMAIN new[i].tests : c = CopyOf(new, i, n)
      BY <2>1
    <2>3. PICK t \in DOMAIN Tarball : old[i] \in Range(Tarball[t])
      BY <1>2, <1>5
    <2>4. c.to = OutDir(new[i]) /\ c.n = n /\ c.test = new[i].tests[n]
      BY <2>2 DEF CopyOf
    <2>5. /\ Named(old[i].tests) # {} /\ OutDir(new[i]) = OutDir(old[i])
          /\ n \in DOMAIN old[i].tests /\ IsTest(new[i].tests[n])
          /\ new[i].tests[n].log = old[i].tests[n].log
      BY <1>4, <1>5, <2>1
    <2>6. old[i] \in Placed(Tarball[t])
      BY <2>3, <2>5 DEF Placed
    <2> QED BY <2>4, <2>5, <2>6 DEF Genuine
  <1>7. ASSUME NEW t \in Range(ts), NEW mt \in Placed(Tarball[t]), NEW n \in DOMAIN mt.tests
        PROVE  \E c \in Copies(new) : c.to = OutDir(mt) /\ c.n = n
    <2>1. mt \in Range(old) /\ Named(mt.tests) # {}
      BY DEF Placed, Contents
    <2>2. PICK i \in DOMAIN old : mt = old[i]
      BY <2>1 DEF Range
    <2> DEFINE c == CopyOf(new, i, n)
    <2>3. Named(new[i].tests) # {} /\ n \in DOMAIN new[i].tests /\ OutDir(new[i]) = OutDir(mt)
      BY <1>4, <2>1, <2>2
    <2>4. c \in Copies(new)
      BY <1>5, <2>3, OneCopy
    <2> QED BY <2>3, <2>4 DEF CopyOf
  <1> QED BY <1>6, <1>7 DEF AllCopies

(* Making the timelines again changes the html of the unpacked tests only, and lists the
   copies that are due. *)
LEMMA TimelinesKeep ==
  ASSUME RIInv, NEW p \in Proc, Timelines(p), job[p].args.tars # <<>>
  PROVE  RIInv' /\ (SafeInv => SafeInv')
  <1> USE Fields_
  <1>1. PICK failing :
          job' = [job EXCEPT ![p].step = "copy", ![p].mts = AllWithHtml(job[p].mts, failing),
                             ![p].copies = Copies(AllWithHtml(job[p].mts, failing))]
    BY Zenon DEF Timelines
  <1> DEFINE mts == AllWithHtml(job[p].mts, failing)
  <1>2. job' = [job EXCEPT ![p].step = "copy", ![p].mts = mts, ![p].copies = Copies(mts)]
    BY <1>1
  <1>3. UNCHANGED <<vars, web, tars, datacache, ghosts>> /\ job[p].step = "timelines"
    BY DEF Timelines
  <1>4. /\ \A c \in Copies(mts) : /\ Genuine(c)
                                   /\ c.at \in DOMAIN mts /\ c.to = OutDir(mts[c.at])
        /\ \A mt \in Unpacked(job[p].args) : \A n \in DOMAIN mt.tests :
             \E c \in Copies(mts) : c.to = OutDir(mt) /\ c.n = n
    <2>1. Range(job[p].mts) = Contents(job[p].args.tars)
      BY <1>3 DEF RIInv, UnpackInv, Brought, Contents
    <2>2. job[p].args.tars \in Seq(DOMAIN Tarball)
      BY DEF RIInv, RTypeOK
    <2>3. AllCopies(Copies(mts), job[p].args.tars)
      BY <2>1, <2>2, CopiesOfTarballs
    <2> HIDE DEF mts
    <2>4. ASSUME NEW c \in Copies(mts) PROVE c.at \in DOMAIN mts /\ c.to = OutDir(mts[c.at])
      BY OneCopy DEF CopyOf
    <2> QED BY <2>3, <2>4 DEF AllCopies, Unpacked
  <1> HIDE DEF mts
  <1>5. /\ Works(p) /\ job'[p].step = "copy" /\ job'[p].copies = Copies(mts)
        /\ job'[p].mts = mts
    BY <1>2, <1>3 DEF Works, AtWork, Alone, Fields, RIInv, RTypeOK
  <1>6. RIInv'
    <2>1. (\A c \in job'[p].copies : Genuine(c)) /\ Sourced(p)'
      BY <1>4, <1>5 DEF Sourced
    <2> QED BY <1>3, <1>5, <2>1, SortKeeps DEF RowsStay, Rewriting, ghosts, RIInv, RTypeOK, Works
  <1>7. ASSUME SafeInv PROVE SafeInv'
    <2>1. ASSUME NEW q \in Proc, job'[q].step = "copy" \/ AfterCopy(q)',
                 NEW mt \in Mine(job'[q]), NEW n \in DOMAIN mt.tests
          PROVE  Held(mt, n)' \/ ToCopy(q, mt, n)'
      <3>1. CASE q = p
        <4>1. mt \in Unpacked(job[p].args)
          BY <1>5, <2>1, <3>1 DEF Works, AtWork, Mine
        <4> QED BY <1>4, <1>5, <3>1, <4>1 DEF ToCopy
      <3>2. CASE q # p
        BY <1>3, <1>5, <1>7, <2>1, <3>2
           DEF Works, AtWork, Alone, SafeInv, HeldInv, Held, ToCopy, AfterCopy
      <3> QED BY <3>1, <3>2
    <2>2. HeldInv'
      BY <2>1 DEF HeldInv
    <2>3. TarballSafe'
      BY <1>3, <1>7 DEF SafeInv, TarballSafe, Held, ghosts
    <2> QED BY <2>2, <2>3 DEF SafeInv
  <1> QED BY <1>6, <1>7

(* A test is written into its folder, over what is there, and into no other. *)
LEMMA CopyWrites ==
  ASSUME RTypeOK, NEW c, Genuine(c), web' = CopyOne(c)
  PROVE  /\ \A f \in DOMAIN web' : DOMAIN web'[f] = {"tests", "sum"} /\ HasTests(web'[f].tests)
         /\ DOMAIN web \subseteq DOMAIN web' /\ c.to \in DOMAIN web'
         /\ \A f \in DOMAIN web : f # c.to => web'[f] = web[f]
         /\ c.to \in DOMAIN web =>
              \A n \in DOMAIN web[c.to].tests :
                /\ n \in DOMAIN web'[c.to].tests
                /\ n # c.n => web'[c.to].tests[n] = web[c.to].tests[n]
         /\ c.n \in DOMAIN web'[c.to].tests /\ web'[c.to].tests[c.n] = c.test
  <1>1. c.n \in Nat /\ IsTest(c.test)
    BY GenuineNumber
  <1>2. CASE c.to \in DOMAIN web
    <2> DEFINE old == web[c.to].tests
               new == Put(old, c.n, c.test)
    <2>1. DOMAIN web[c.to] = {"tests", "sum"} /\ HasTests(old)
      BY <1>2 DEF RTypeOK
    <2>2. /\ HasTests(new) /\ DOMAIN new = DOMAIN old \cup {c.n} /\ new[c.n] = c.test
          /\ \A k \in DOMAIN old : k # c.n => new[k] = old[k]
      <3> DEFINE n == c.n
                 t == c.test
      <3>1. n \in Nat /\ IsTest(t) /\ HasTests(old)
        BY <1>1, <2>1
      <3> HIDE DEF old, n, t
      <3>2. /\ HasTests(Put(old, n, t)) /\ DOMAIN Put(old, n, t) = DOMAIN old \cup {n}
            /\ Put(old, n, t)[n] = t
            /\ \A k \in DOMAIN old : k # n => Put(old, n, t)[k] = old[k]
        BY <3>1, PutTests
      <3> QED BY <3>2, Zenon DEF n, t
    <2>3. web' = [web EXCEPT ![c.to].tests = new]
      BY <1>2 DEF CopyOne
    <2> HIDE DEF new
    <2>4. /\ DOMAIN web' = DOMAIN web /\ DOMAIN web'[c.to] = {"tests", "sum"}
          /\ web'[c.to].tests = new
          /\ \A f \in DOMAIN web : f # c.to => web'[f] = web[f]
      BY <1>2, <2>1, <2>3
    <2> QED BY <1>2, <2>2, <2>4 DEF RTypeOK
  <1>3. CASE c.to \notin DOMAIN web
    <2> DEFINE new == Put(NoRows, c.n, c.test)
    <2>1. DOMAIN NoRows = {}
      BY DEF NoRows
    <2>2. HasTests(NoRows)
      BY <2>1, FS_EmptySet DEF HasTests
    <2>3. HasTests(new) /\ DOMAIN new = {c.n} /\ new[c.n] = c.test
      <3> DEFINE n == c.n
                 t == c.test
      <3>1. n \in Nat /\ IsTest(t)
        BY <1>1
      <3> HIDE DEF n, t
      <3> DEFINE none == NoRows
      <3>2. HasTests(none)
        BY <2>2
      <3>5. DOMAIN none = {}
        BY <2>1
      <3> HIDE DEF none
      <3>3. /\ HasTests(Put(none, n, t)) /\ DOMAIN Put(none, n, t) = DOMAIN none \cup {n}
            /\ Put(none, n, t)[n] = t
            /\ \A k \in DOMAIN none : k # n => Put(none, n, t)[k] = none[k]
        BY <3>1, <3>2, PutTests
      <3>4. DOMAIN none \cup {n} = {n}
        BY <3>5
      <3> QED BY <3>3, <3>4, Zenon DEF none, n, t
    <2>4. web' = Put(web, c.to, [tests |-> new, sum |-> NoSum])
      BY <1>3 DEF CopyOne
    <2> HIDE DEF new
    <2>5. /\ DOMAIN web' = DOMAIN web \cup {c.to} /\ web'[c.to] = [tests |-> new, sum |-> NoSum]
          /\ \A f \in DOMAIN web : web'[f] = web[f]
      BY <1>3, <2>4 DEF Put
    <2> QED BY <1>3, <2>3, <2>5 DEF RTypeOK
  <1> QED BY <1>2, <1>3

(* What is held stays, as what is written over it is the same test. *)
LEMMA CopyHolds ==
  ASSUME SameTests, RTypeOK, NEW c, Genuine(c), web' = CopyOne(c),
         NEW t \in DOMAIN Tarball, NEW mt \in Placed(Tarball[t]), NEW n \in DOMAIN mt.tests,
         Held(mt, n) \/ (c.to = OutDir(mt) /\ c.n = n)
  PROVE  Held(mt, n)'
  <1>1. CASE c.to = OutDir(mt) /\ c.n = n
    <2>1. PICK u \in DOMAIN Tarball : \E nt \in Placed(Tarball[u]) :
            c.to = OutDir(nt) /\ c.n \in DOMAIN nt.tests /\ c.test.log = nt.tests[c.n].log
      BY DEF Genuine
    <2>2. PICK nt \in Placed(Tarball[u]) :
            c.to = OutDir(nt) /\ c.n \in DOMAIN nt.tests /\ c.test.log = nt.tests[c.n].log
      BY <2>1
    <2>3. nt.tests[n].log = mt.tests[n].log
      BY <1>1, <2>2, ZenonT(60) DEF SameTests
    <2> QED BY <1>1, <2>2, <2>3, CopyWrites DEF Held
  <1>2. CASE c.to = OutDir(mt) /\ c.n # n /\ Held(mt, n)
    <2>1. OutDir(mt) \in DOMAIN web /\ n \in DOMAIN web[OutDir(mt)].tests
          /\ web[OutDir(mt)].tests[n].log = mt.tests[n].log
      BY <1>2 DEF Held
    <2> QED BY <1>2, <2>1, CopyWrites DEF Held
  <1>3. CASE c.to # OutDir(mt) /\ Held(mt, n)
    <2>1. OutDir(mt) \in DOMAIN web /\ n \in DOMAIN web[OutDir(mt)].tests
          /\ web[OutDir(mt)].tests[n].log = mt.tests[n].log
      BY <1>3 DEF Held
    <2>2. OutDir(mt) \in DOMAIN web' /\ web'[OutDir(mt)] = web[OutDir(mt)]
      BY <1>3, <2>1, CopyWrites
    <2> QED BY <2>1, <2>2 DEF Held
  <1> QED BY <1>1, <1>2, <1>3

(* A copy puts one test that is due into its folder, in whatever order. *)
LEMMA CopyKeeps ==
  ASSUME RIInv, NEW p \in Proc, Copy(p)
  PROVE  RIInv' /\ (SameTests /\ SafeInv => SafeInv')
  <1> USE Fields_
  <1>1. UNCHANGED <<vars, tars, datacache, ghosts>> /\ job[p].step = "copy"
    BY DEF Copy
  <1>2. \/ \E c \in MayCopy(job[p].copies) :
             web' = CopyOne(c) /\ job' = [job EXCEPT ![p].copies = @ \ {c}]
        \/ /\ job[p].copies = {} /\ UNCHANGED web
           /\ job' = [job EXCEPT ![p].step = "tcread",
                                 ![p].mts = OutDirs(Sortable(job[p].mts)),
                                 ![p].det = Details(Sortable(job[p].mts))]
    BY DEF Copy
  <1>3. ASSUME NEW c \in job[p].copies, web' = CopyOne(c),
               job' = [job EXCEPT ![p].copies = @ \ {c}]
        PROVE  RIInv' /\ (SameTests /\ SafeInv => SafeInv')
    <2>1. Genuine(c)
      BY <1>3 DEF RIInv, CopiesInv
    <2>2. /\ Works(p) /\ job'[p].step = "copy" /\ job'[p].copies = job[p].copies \ {c}
          /\ job'[p].mts = job[p].mts
      BY <1>1, <1>3 DEF Works, AtWork, Alone, Fields, RIInv, RTypeOK
    <2>3. \A f \in DOMAIN web' : DOMAIN web'[f] = {"tests", "sum"} /\ HasTests(web'[f].tests)
      BY <1>3, <2>1, CopyWrites DEF RIInv
    <2>4. RIInv'
      BY <1>1, <2>2, <2>3, SortKeeps
         DEF RowsStay, Rewriting, ghosts, RIInv, CopiesInv, Sourced, Works
    <2>5. ASSUME SameTests, SafeInv PROVE SafeInv'
      <3>1. ASSUME NEW q \in Proc, job'[q].step = "copy" \/ AfterCopy(q)',
                   NEW mt \in Mine(job'[q]), NEW n \in DOMAIN mt.tests
            PROVE  Held(mt, n)' \/ ToCopy(q, mt, n)'
        <4>1. /\ job'[q].args = job[q].args /\ job'[q].step = job[q].step
              /\ mt \in Mine(job[q])
          BY <1>1, <2>2, <3>1 DEF Works, AtWork, Alone, Mine
        <4>2. Held(mt, n) \/ ToCopy(q, mt, n)
          BY <2>5, <3>1, <4>1 DEF SafeInv, HeldInv, AfterCopy
        <4>3. PICK t \in Range(job[q].args.tars) : mt \in Placed(Tarball[t])
          BY <4>1 DEF Mine, Unpacked
        <4>4. t \in DOMAIN Tarball
          BY <4>3 DEF Range, RIInv, RTypeOK
        <4>5. Held(mt, n) => Held(mt, n)'
          BY <1>3, <2>1, <2>5, <4>3, <4>4, CopyHolds DEF RIInv
        <4>6. c.to = OutDir(mt) /\ c.n = n => Held(mt, n)'
          BY <1>3, <2>1, <2>5, <4>3, <4>4, CopyHolds DEF RIInv
        <4>7. ToCopy(q, mt, n) /\ ~(c.to = OutDir(mt) /\ c.n = n) => ToCopy(q, mt, n)'
          <5>1. CASE q # p
            BY <2>2, <5>1 DEF ToCopy, Works, AtWork, Alone
          <5>2. CASE q = p
            BY <2>2, <5>2 DEF ToCopy
          <5> QED BY <5>1, <5>2
        <4> QED BY <4>2, <4>5, <4>6, <4>7
      <3>2. HeldInv'
        BY <3>1 DEF HeldInv
      <3>3. TarballSafe'
        <4>1. ASSUME NEW t \in DOMAIN Tarball \ tars, NEW mt \in Placed(Tarball[t]),
                     <<t, OutDir(mt)>> \notin lost, NEW n \in DOMAIN mt.tests
              PROVE  Held(mt, n)'
          <5>1. Held(mt, n)
            BY <2>5, <4>1 DEF SafeInv, TarballSafe
          <5> QED BY <1>3, <2>1, <2>5, <5>1, CopyHolds DEF RIInv
        <4> QED BY <1>1, <4>1 DEF TarballSafe, ghosts
      <3> QED BY <3>2, <3>3 DEF SafeInv
    <2> QED BY <2>4, <2>5
  <1>4. ASSUME NEW a, NEW b, job[p].copies = {}, UNCHANGED web,
               job' = [job EXCEPT ![p].step = "tcread", ![p].mts = a, ![p].det = b]
        PROVE  RIInv' /\ (SafeInv => SafeInv')
    <2>1. Works(p) /\ job'[p].step = "tcread" /\ job'[p].copies = {}
      BY <1>1, <1>4 DEF Works, AtWork, Alone, Fields, RIInv, RTypeOK
    <2>2. RIInv'
      BY <1>1, <1>4, <2>1, SortKeeps
         DEF RowsStay, Rewriting, ghosts, RIInv, RTypeOK, Sourced, Works
    <2>3. ASSUME SafeInv PROVE SafeInv'
      <3>1. HeldInv'
        BY <1>1, <1>4, <2>1, <2>3
           DEF SafeInv, HeldInv, ToCopy, AfterCopy, Held, Works, AtWork, Alone, Mine
      <3>2. TarballSafe'
        BY <1>1, <1>4, <2>3 DEF SafeInv, TarballSafe, Held, ghosts
      <3> QED BY <3>1, <3>2 DEF SafeInv
    <2> QED BY <2>2, <2>3
  <1> QED BY <1>2, <1>3, <1>4 DEF MayCopy

(* What a skip does to the local variables, and what stays to be copied. *)
LEMMA SkipMoves ==
  ASSUME RIInv, NEW p \in Proc, Skip(p)
  PROVE  /\ AtWork(p) /\ job[p].step = "copy" /\ job'[p].step = "copy"
         /\ UNCHANGED <<shared, done, lost, recorded, disturbed>>
         /\ job'[p].targets = job[p].targets /\ job'[p].todo = job[p].todo
         /\ job'[p].det = job[p].det /\ job'[p].got = job[p].got /\ job'[p].list = job[p].list
         /\ \E c \in job[p].copies :
              /\ c.at \in DOMAIN job[p].mts /\ c.to = OutDir(job[p].mts[c.at])
              /\ c.to \notin DOMAIN web
              /\ job'[p].copies = {d \in job[p].copies : d.at # c.at}
              /\ job'[p].skipped = job[p].skipped \cup {c.to}
              /\ job'[p].mts = [job[p].mts EXCEPT ![c.at] = NoMultitest]
  <1> USE Fields_ DEF RIInv, RTypeOK
  <1>1. PICK c \in job[p].copies :
          /\ c.to \notin DOMAIN web
          /\ job' = [job EXCEPT ![p].copies = {d \in @ : d.at # c.at},
                                ![p].mts[c.at] = NoMultitest,
                                ![p].skipped = @ \cup {c.to}]
    BY DEF Skip, MayCopy
  <1>2. /\ UNCHANGED <<vars, shared, done, lost, recorded, disturbed>> /\ job[p].step = "copy"
    BY DEF Skip
  <1>3. c.at \in DOMAIN job[p].mts /\ c.to = OutDir(job[p].mts[c.at])
    BY <1>2 DEF CopiesInv, Sourced
  <1>4. /\ Alone(p) /\ DOMAIN job'[p] = Fields /\ job'[p].args = job[p].args
        /\ job'[p].step = job[p].step
        /\ job'[p].targets = job[p].targets /\ job'[p].todo = job[p].todo
        /\ job'[p].det = job[p].det /\ job'[p].got = job[p].got /\ job'[p].list = job[p].list
    BY <1>1 DEF Alone, Fields
  <1>5. /\ job'[p].copies = {d \in job[p].copies : d.at # c.at}
        /\ job'[p].skipped = job[p].skipped \cup {c.to}
        /\ job'[p].mts = [job[p].mts EXCEPT ![c.at] = NoMultitest]
    BY <1>1 DEF Fields
  <1> QED BY <1>1, <1>2, <1>3, <1>4, <1>5 DEF AtWork

(* What a skip gives up is the folder it notes. *)
LEMMA SkipKeeps ==
  ASSUME RIInv, NEW p \in Proc, Skip(p)
  PROVE  RIInv' /\ (SafeInv => SafeInv')
  <1>1. /\ AtWork(p) /\ job[p].step = "copy" /\ job'[p].step = "copy"
        /\ UNCHANGED <<web, tars, datacache, lost, recorded, disturbed>>
    BY SkipMoves DEF shared
  <1>2. PICK c \in job[p].copies :
          /\ c.at \in DOMAIN job[p].mts /\ c.to = OutDir(job[p].mts[c.at])
          /\ job'[p].copies = {d \in job[p].copies : d.at # c.at}
          /\ job'[p].skipped = job[p].skipped \cup {c.to}
          /\ job'[p].mts = [job[p].mts EXCEPT ![c.at] = NoMultitest]
    BY SkipMoves
  <1>3. RIInv'
    <2>1. Sourced(p)'
      BY <1>1, <1>2 DEF RIInv, CopiesInv, Sourced
    <2>2. \A d \in job'[p].copies : Genuine(d)
      BY <1>2 DEF RIInv, CopiesInv
    <2> QED BY <1>1, <2>1, <2>2, SortKeeps DEF RowsStay, Rewriting, RIInv, RTypeOK
  <1>4. ASSUME SafeInv PROVE SafeInv'
    <2>1. ASSUME NEW q \in Proc, job'[q].step = "copy" \/ AfterCopy(q)',
                 NEW mt \in Mine(job'[q]), NEW n \in DOMAIN mt.tests
          PROVE  Held(mt, n)' \/ ToCopy(q, mt, n)'
      <3>1. CASE q # p
        BY <1>1, <1>4, <2>1, <3>1
           DEF AtWork, Alone, SafeInv, HeldInv, Held, ToCopy, AfterCopy
      <3>2. CASE q = p
        <4>1. mt \in Mine(job[p]) /\ OutDir(mt) # c.to
          BY <1>1, <1>2, <2>1, <3>2 DEF Mine, AtWork
        <4>2. CASE Held(mt, n)
          BY <1>1, <4>2 DEF Held
        <4>3. CASE ToCopy(p, mt, n)
          <5>1. PICK d \in job[p].copies : d.to = OutDir(mt) /\ d.n = n
            BY <4>3 DEF ToCopy
          <5>2. d.to = OutDir(job[p].mts[d.at])
            BY <1>1 DEF RIInv, CopiesInv, Sourced
          <5>3. d \in job'[p].copies
            BY <1>2, <4>1, <5>1, <5>2
          <5> QED BY <1>1, <3>2, <5>1, <5>3 DEF ToCopy
        <4> QED BY <1>1, <1>4, <4>1, <4>2, <4>3 DEF SafeInv, HeldInv
      <3> QED BY <3>1, <3>2
    <2>2. HeldInv'
      BY <2>1 DEF HeldInv
    <2>3. TarballSafe'
      BY <1>1, <1>4 DEF SafeInv, TarballSafe, Held
    <2> QED BY <2>2, <2>3 DEF SafeInv
  <1> QED BY <1>3, <1>4

-----------------------------------------------------------------------------
(* Where multitests belong, and the category of a folder.                    *)

(* Multitests that go into one folder are of one category, if they are of one machine. *)
LEMMA SameCategory ==
  ASSUME NEW mt, NEW nt, OutDir(mt) = OutDir(nt),
         categorize_by_timeline(mt.tests).machine = categorize_by_timeline(nt.tests).machine
  PROVE  categorize_by_timeline(mt.tests) = categorize_by_timeline(nt.tests)
  <1> DEFINE a == categorize_by_timeline(mt.tests)
             b == categorize_by_timeline(nt.tests)
  <1>1. /\ OutDir(mt) = Path(a, mt.name) /\ OutDir(nt) = Path(b, nt.name)
        /\ \E d : a = Category(d) /\ \E e : b = Category(e)
    BY DEF OutDir, categorize_by_timeline
  <1>2. a.machine = b.machine
    OBVIOUS
  <1> HIDE DEF a, b
  <1>3. a.kernel = b.kernel /\ a.mode = b.mode
    <2>1. Path(a, mt.name) = Path(b, nt.name)
      BY <1>1
    <2>2. \A c, n : Path(c, n).kernel = c.kernel /\ Path(c, n).mode = c.mode
      BY DEF Path
    <2> QED BY <2>1, <2>2
  <1>4. PICK d, e : a = Category(d) /\ b = Category(e)
    BY <1>1
  <1>5. d["kernel"] = e["kernel"] /\ d["mode"] = e["mode"] /\ d["sysinfo"] = e["sysinfo"]
    BY <1>2, <1>3, <1>4 DEF Category
  <1> QED BY <1>4, <1>5 DEF Category, a, b

(* The last one of the multitests that are sorted into a folder tells its category. *)
LEMMA DetailsOf ==
  ASSUME NEW mts, IsSeq(mts)
  PROVE  /\ Range(OutDirs(mts)) = {OutDir(mt) : mt \in Range(mts)} /\ IsSeq(OutDirs(mts))
         /\ DOMAIN Details(mts) = Range(OutDirs(mts))
         /\ \A f \in Range(OutDirs(mts)) : \E mt \in Range(mts) :
              OutDir(mt) = f /\ Details(mts)[f] = categorize_by_timeline(mt.tests)
  <1>1. Len(mts) \in Nat /\ DOMAIN mts = 1..Len(mts) /\ mts \in Seq(Range(mts))
    BY DEF IsSeq
  <1>2. Range(OutDirs(mts)) = {OutDir(mt) : mt \in Range(mts)}
    BY DEF OutDirs, Range
  <1>3. IsSeq(OutDirs(mts))
    BY <1>1 DEF OutDirs, IsSeq, Range
  <1>4. ASSUME NEW f \in Range(OutDirs(mts))
        PROVE  \E mt \in Range(mts) :
                 OutDir(mt) = f /\ Details(mts)[f] = categorize_by_timeline(mt.tests)
    <2> DEFINE S == {mt \in Range(mts) : OutDir(mt) = f}
               q == Among(mts, S)
    <2>1. S # {} /\ Range(mts) \cap S = S
      BY <1>2
    <2>2. q \in Seq(Range(mts)) /\ Range(q) = S
      <3> HIDE DEF S
      <3> QED BY <1>1, <2>1, AmongElements
    <2> HIDE DEF q
    <2>3. Len(q) \in DOMAIN q
      BY <2>1, <2>2 DEF Range
    <2>4. Last(q) \in S
      BY <2>2, <2>3 DEF Last, Range
    <2>5. Details(mts)[f] = categorize_by_timeline(Last(q).tests)
      BY DEF Details, q
    <2> QED BY <2>4, <2>5
  <1> QED BY <1>2, <1>3, <1>4 DEF Details

(* With their timelines made, the multitests belong where they did. *)
LEMMA PlacesStay ==
  ASSUME NEW ts \in Seq(DOMAIN Tarball), NEW failing, NEW old, NEW new,
         Range(old) = Contents(ts), IsSeq(old), new = AllWithHtml(old, failing)
  PROVE  /\ IsSeq(new)
         /\ Places(Placed(new)) = Places(UNION {Placed(Tarball[t]) : t \in Range(ts)})
  <1> DEFINE All == UNION {Placed(Tarball[t]) : t \in Range(ts)}
             At(mt) == [to |-> OutDir(mt), is |-> categorize_by_timeline(mt.tests)]
  <1>1. Len(old) \in Nat /\ DOMAIN old = 1..Len(old) /\ DOMAIN new = DOMAIN old
    BY DEF IsSeq, AllWithHtml
  <1>2. IsSeq(new)
    <2>1. new = [i \in 1..Len(old) |-> new[i]]
      BY <1>1 DEF AllWithHtml
    <2>2. new \in [1..Len(old) -> Range(new)]
      BY <1>1, <2>1 DEF Range
    <2> QED BY <1>1, <2>2 DEF IsSeq
  <1>3. ASSUME NEW i \in DOMAIN old
        PROVE  /\ Named(new[i].tests) = Named(old[i].tests)
               /\ Named(old[i].tests) # {} => At(new[i]) = At(old[i])
    <2>1. old[i] \in Range(old)
      BY DEF Range
    <2>2. PICK t \in Range(ts) : old[i] \in Range(Tarball[t])
      BY <2>1 DEF Contents
    <2>3. t \in DOMAIN Tarball
      BY DEF Range
    <2>4. /\ DOMAIN old[i] = {"name", "tests"} /\ HasTests(old[i].tests)
          /\ new[i] = WithHtml(old[i], failing)
      BY <2>2, <2>3, ReportAssumption DEF AllWithHtml
    <2>5. /\ Named(new[i].tests) = Named(old[i].tests)
          /\ Named(old[i].tests) # {} =>
               /\ OutDir(new[i]) = OutDir(old[i])
               /\ categorize_by_timeline(new[i].tests) = categorize_by_timeline(old[i].tests)
      BY <2>4, SameFolder, ZenonT(60)
    <2> QED BY <2>5
  <1>4. All = Placed(old)
    BY DEF Placed, Contents
  <1> HIDE DEF At
  <1>5. {At(mt) : mt \in Placed(new)} = {At(mt) : mt \in Placed(old)}
    <2>1. ASSUME NEW mt \in Placed(new) PROVE \E nt \in Placed(old) : At(mt) = At(nt)
      <3>1. PICK i \in DOMAIN old : mt = new[i]
        BY <1>1 DEF Placed, Range
      <3>2. Named(old[i].tests) # {} /\ old[i] \in Range(old)
        BY <1>3, <3>1 DEF Placed, Range
      <3> QED BY <1>3, <3>1, <3>2 DEF Placed
    <2>2. ASSUME NEW nt \in Placed(old) PROVE \E mt \in Placed(new) : At(mt) = At(nt)
      <3>1. PICK i \in DOMAIN old : nt = old[i]
        BY DEF Placed, Range
      <3>2. Named(new[i].tests) # {} /\ new[i] \in Range(new)
        BY <1>1, <1>3, <3>1 DEF Placed, Range
      <3> QED BY <1>3, <3>1, <3>2 DEF Placed
    <2> QED BY <2>1, <2>2
  <1>6. Places(Placed(new)) = {At(mt) : mt \in Placed(new)} /\ Places(All) = {At(mt) : mt \in All}
    BY DEF Places, At
  <1> QED BY <1>2, <1>4, <1>5, <1>6

-----------------------------------------------------------------------------
(* What is known of the multitests an instance brings.                       *)

\* No line, link or folder is taken away.
Grows ==
  /\ IsSeq(testcache') /\ Range(testcache) \subseteq Range(testcache')
  /\ links \subseteq links' /\ IsFiniteSet(DOMAIN web')

(* What can be found can still be found. *)
LEMMA FindableStays ==
  ASSUME Grows, NEW mt, Findable(mt)
  PROVE  Findable(mt)'
  BY DEF Grows, Findable

(* A step of one instance keeps what is known of the others. *)
LEMMA OthersFind ==
  ASSUME FindInv, NEW p \in Proc, Alone(p), Grows, LocalInv(p)', FoundInv(p)',
         \A w \in done' \ done : \A mt \in Mine(w) : Findable(mt)'
  PROVE  FindInv'
  <1>1. ASSUME NEW q \in Proc, q # p PROVE LocalInv(q)' /\ FoundInv(q)'
    <2>1. job'[q] = job[q] /\ LocalInv(q) /\ FoundInv(q)
      BY <1>1 DEF Alone, FindInv
    <2>2. LocalInv(q)'
      BY <2>1 DEF LocalInv, Listing, Grows
    <2>3. \A mt : (Noted(q, mt)' <=> Noted(q, mt)) /\ (Findable(mt) => Findable(mt)')
      BY <2>1, FindableStays DEF Noted
    <2>4. FoundInv(q)'
      BY <2>1, <2>3 DEF FoundInv, Sorting, Listing, Sorted, AfterCopy, Grows
    <2> QED BY <2>2, <2>4
  <1>2. WorkFound'
    <2>1. ASSUME NEW w \in done, NEW mt \in Mine(w) PROVE Findable(mt)'
      BY FindableStays DEF FindInv, WorkFound
    <2> QED BY <2>1 DEF WorkFound
  <1> QED BY <1>1, <1>2 DEF FindInv, Grows

\* The list of multitests and the links stay as they are, and the folders.
ListsStay == UNCHANGED <<testcache, links>> /\ DOMAIN web' = DOMAIN web

(* They have not become less then. *)
LEMMA StayGrows == FindInv /\ ListsStay => Grows
  BY DEF FindInv, ListsStay, Grows, IsSeq

(* An instance that is not at work yet, or no longer. *)
LEMMA RestFinds ==
  ASSUME FindInv, NEW p \in Proc, Alone(p), ListsStay,
         job'[p].step \in {"out", "begin"}, job'[p].args \in Jobs[p] \cup {NoArgs},
         job'[p].targets = <<>>,
         \A w \in done' \ done : \A mt \in Mine(w) : Findable(mt)
  PROVE  FindInv'
  <1>1. Grows
    BY StayGrows
  <1>2. LocalInv(p)'
    BY DEF LocalInv, Listing
  <1>3. FoundInv(p)'
    BY DEF FoundInv, Sorting, Listing, Sorted, AfterCopy
  <1>4. \A w \in done' \ done : \A mt \in Mine(w) : Findable(mt)'
    BY <1>1, FindableStays
  <1> QED BY <1>1, <1>2, <1>3, <1>4, OthersFind

\* The links are there.
Late(p) == AfterCopy(p) /\ job[p].step \notin {"categorize", "link", "tcread", "tcappend"}

(* An instance that skips nothing brings what it brought. *)
LEMMA SameMine ==
  ASSUME NEW p, job'[p].args = job[p].args, job'[p].skipped = job[p].skipped
  PROVE  Mine(job'[p]) = Mine(job[p])
  BY DEF Mine

(* The work after the links. *)
LEMMA LateFinds ==
  ASSUME FindInv, NEW p \in Proc, Works(p), ListsStay, UNCHANGED done, Late(p),
         \/ Late(p)'
         \/ job'[p].step = "tcread" /\ IsSeq(job'[p].mts) /\ job'[p].targets # <<>>
  PROVE  FindInv'
  <1>1. Grows
    BY StayGrows
  <1>2. LocalInv(p)'
    BY DEF LocalInv, Listing, Works, AtWork, Late, AfterCopy, FindInv
  <1>3. FoundInv(p)'
    <2>1. Sorted(p) /\ Sorted(p)' /\ ~Sorting(p)'
      BY DEF Late, Sorted, Sorting, Listing, AfterCopy
    <2>2. job'[p].step \notin {"copy", "link"}
      BY DEF Late, AfterCopy
    <2>3. ASSUME NEW mt \in Mine(job'[p]) PROVE Findable(mt)'
      <3>1. Findable(mt)
        BY <2>1, <2>3, SameMine DEF FindInv, FoundInv, Works, AtWork
      <3> QED BY <1>1, <3>1, FindableStays
    <2> QED BY <2>1, <2>2, <2>3 DEF FoundInv
  <1> QED BY <1>1, <1>2, <1>3, OthersFind DEF Works, AtWork

(* Without tarballs there is nothing an instance brings. *)
LEMMA NothingMine ==
  ASSUME NEW w, w.args.tars = <<>>
  PROVE  Mine(w) = {}
  BY DEF Mine, Unpacked, Range

(* The tarballs are unpacked. *)
LEMMA UnpackFinds ==
  ASSUME RIInv, FindInv, NEW p \in Proc, Unpack(p), ~Leave(p)
  PROVE  FindInv'
  <1> USE Fields_
  <1> DEFINE q == FlattenSeq([i \in DOMAIN job[p].args.tars |-> Tarball[job[p].args.tars[i]]])
  <1>1. /\ job' = [job EXCEPT ![p].step = "timelines", ![p].mts = q]
        /\ UNCHANGED <<vars, shared, ghosts>> /\ job[p].step = "begin"
        /\ job[p].args.tars # <<>>
    BY DEF Unpack
  <1>2. IsSeq(q)
    BY <1>1, UnpackAll DEF RIInv, RTypeOK
  <1> HIDE DEF q
  <1>3. /\ Alone(p) /\ job'[p].step = "timelines" /\ job'[p].mts = q
        /\ job'[p].args = job[p].args /\ job'[p].targets = job[p].targets
        /\ job'[p].skipped = job[p].skipped
    BY <1>1 DEF Alone, Fields, RIInv, RTypeOK
  <1>4. ListsStay /\ done' = done
    BY <1>1 DEF ListsStay, shared, ghosts
  <1>5. LocalInv(p)'
    BY <1>1, <1>2, <1>3 DEF LocalInv, Listing, FindInv, IsSeq
  <1>6. FoundInv(p)'
    BY <1>3 DEF FoundInv, Sorting, Listing, Sorted, AfterCopy
  <1> QED BY <1>3, <1>4, <1>5, <1>6, StayGrows, OthersFind

(* The web folder is walked, or the list of multitests read. *)
LEMMA FindFinds ==
  ASSUME RIInv, FindInv, NEW p \in Proc, Find(p), ~Leave(p)
  PROVE  FindInv'
  <1> USE Fields_
  <1> DEFINE q == Found(p, NoName)
             s == IF job[p].args.cache THEN "timelines" ELSE "tcread"
  <1>1. /\ job' = [job EXCEPT ![p].step = s, ![p].mts = q]
        /\ UNCHANGED <<vars, shared, ghosts>> /\ job[p].step = "begin"
        /\ job[p].args.tars = <<>>
    BY DEF Find
  <1>2. ~job[p].args.cache => IsSeq(q)
    <2>1. \A S : IsFiniteSet(S) => IsSeq(SetToSeq(S))
      BY SequenceOfSet DEF IsSeq
    <2>2. IsFiniteSet({f \in DOMAIN web : NoName = NoName \/ f.kernel = NoName})
      BY FS_Subset DEF FindInv
    <2> QED BY <2>1, <2>2 DEF Found, WalkWeb
  <1> HIDE DEF q
  <1>3. /\ Alone(p) /\ job'[p].step = s /\ job'[p].mts = q
        /\ job'[p].args = job[p].args /\ job'[p].targets = job[p].targets
        /\ job'[p].skipped = job[p].skipped
    BY <1>1 DEF Alone, Fields, RIInv, RTypeOK
  <1>4. ListsStay /\ done' = done
    BY <1>1 DEF ListsStay, shared, ghosts
  <1>5. LocalInv(p)'
    BY <1>1, <1>2, <1>3 DEF LocalInv, Listing, FindInv, IsSeq
  <1>6. FoundInv(p)'
    <2>1. Mine(job'[p]) = {}
      BY <1>1, <1>3, NothingMine
    <2> QED BY <1>3, <2>1 DEF FoundInv
  <1> QED BY <1>3, <1>4, <1>5, <1>6, StayGrows, OthersFind

(* The lines of ~/.multitests are read. *)
LEMMA CacheReadFinds ==
  ASSUME RIInv, FindInv, NEW p \in Proc, CacheRead(p)
  PROVE  FindInv'
  <1> USE Fields_
  <1> DEFINE q == Range(load_cache(NoName))
  <1>1. /\ job' = [job EXCEPT ![p].step = "tcappend", ![p].got = q]
        /\ UNCHANGED <<vars, shared, ghosts>> /\ job[p].step = "tcread"
    BY DEF CacheRead
  <1>2. q \subseteq Range(testcache)
    <2>1. testcache \in Seq(Range(testcache))
      BY DEF FindInv, IsSeq
    <2> QED BY <2>1, AmongElements DEF load_cache
  <1> HIDE DEF q
  <1>3. /\ Alone(p) /\ job'[p].step = "tcappend" /\ job'[p].got = q
        /\ job'[p].args = job[p].args /\ job'[p].targets = job[p].targets
        /\ job'[p].skipped = job[p].skipped
        /\ job'[p].mts = job[p].mts /\ job'[p].det = job[p].det
    BY <1>1 DEF Alone, Fields, RIInv, RTypeOK
  <1>4. ListsStay /\ done' = done
    BY <1>1 DEF ListsStay, shared, ghosts
  <1>5. LocalInv(p)'
    BY <1>1, <1>2, <1>3, <1>4 DEF LocalInv, Listing, FindInv, ListsStay
  <1>6. FoundInv(p)'
    <2>1. /\ (Sorting(p) <=> Sorting(p)') /\ (Sorted(p) <=> Sorted(p)')
          /\ job'[p].step \notin {"copy", "link"}
      BY <1>1, <1>3 DEF Sorting, Listing, Sorted, AfterCopy
    <2>2. \A mt : (Noted(p, mt) <=> Noted(p, mt)') /\ (Findable(mt) => Findable(mt)')
      BY <1>3, <1>4, StayGrows, FindableStays DEF Noted
    <2> QED BY <1>3, <2>1, <2>2, SameMine DEF FoundInv, FindInv
  <1> QED BY <1>3, <1>4, <1>5, <1>6, StayGrows, OthersFind

(* The folders that are not in ~/.multitests are appended. *)
LEMMA CacheAppendFinds ==
  ASSUME RIInv, FindInv, NEW p \in Proc, CacheAppend(p)
  PROVE  FindInv'
  <1> USE Fields_
  <1> DEFINE new == Among(job[p].mts, Range(job[p].mts) \ job[p].got)
             s == IF job[p].targets # <<>> THEN "sumread"
                  ELSE IF job[p].args.tars # <<>> THEN "link" ELSE "timelines"
  <1>1. /\ job' = [job EXCEPT ![p].got = {}, ![p].step = s]
        /\ testcache' = testcache \o new /\ UNCHANGED <<web, links, ghosts>>
        /\ job[p].step = "tcappend"
    BY DEF CacheAppend
  <1>2. /\ testcache' \in Seq(Range(testcache) \cup Range(job[p].mts))
        /\ Range(testcache') = Range(testcache) \cup Range(new)
        /\ Range(new) = Range(job[p].mts) \ job[p].got
    <2> DEFINE T == Range(testcache) \cup Range(job[p].mts)
    <2>1. testcache \in Seq(T) /\ job[p].mts \in Seq(T)
      BY <1>1 DEF FindInv, LocalInv, Listing, IsSeq
    <2> HIDE DEF T
    <2>2. new \in Seq(T) /\ Range(new) = Range(job[p].mts) \cap (Range(job[p].mts) \ job[p].got)
      BY <2>1, AmongElements
    <2> HIDE DEF new
    <2>3. testcache \o new \in Seq(T) /\ Range(testcache \o new) = Range(testcache) \cup Range(new)
      BY <2>1, <2>2, RangeConcat
    <2> QED BY <1>1, <2>2, <2>3 DEF T
  <1> HIDE DEF new
  <1>3. Grows
    <2>1. IsSeq(testcache')
      <3> DEFINE T == Range(testcache) \cup Range(job[p].mts)
                 c == testcache'
      <3>1. c \in Seq(T)
        BY <1>2
      <3> HIDE DEF T, c
      <3>2. IsSeq(c)
        BY <3>1, SeqOfRange DEF IsSeq
      <3> QED BY <3>2 DEF c
    <2> QED BY <1>1, <1>2, <2>1 DEF Grows, FindInv
  <1>4. /\ Alone(p) /\ job'[p].step = s
        /\ job'[p].args = job[p].args /\ job'[p].targets = job[p].targets
        /\ job'[p].skipped = job[p].skipped
        /\ job'[p].mts = job[p].mts /\ job'[p].det = job[p].det
    BY <1>1 DEF Alone, Fields, RIInv, RTypeOK
  <1>5. Range(job[p].mts) \subseteq Range(testcache')
    <2>1. job[p].got \subseteq Range(testcache)
      BY <1>1 DEF FindInv, LocalInv
    <2> QED BY <1>2, <2>1
  <1>6. LocalInv(p)'
    BY <1>1, <1>4 DEF LocalInv, Listing, FindInv
  <1>7. FoundInv(p)'
    <2>1. CASE job[p].targets # <<>>
      <3>1. Sorted(p) /\ ~Sorting(p)' /\ job'[p].step \notin {"copy", "link"}
        BY <1>1, <1>4, <2>1 DEF Sorting, Listing, Sorted, AfterCopy
      <3>2. \A mt \in Mine(job[p]) : Findable(mt)'
        BY <1>3, <3>1, FindableStays DEF FindInv, FoundInv
      <3> QED BY <1>4, <3>1, <3>2, SameMine DEF FoundInv
    <2>2. CASE job[p].targets = <<>> /\ job[p].args.tars # <<>>
      <3>1. Sorting(p) /\ job'[p].step = "link" /\ ~Sorting(p)' /\ ~Sorted(p)'
        BY <1>1, <1>4, <2>2 DEF Sorting, Listing, Sorted, AfterCopy
      <3>2. \A mt \in Mine(job[p]) : Noted(p, mt)' /\ OutDir(mt) \in Range(testcache')
        BY <1>4, <1>5, <3>1 DEF FindInv, FoundInv, Noted
      <3> QED BY <1>4, <3>1, <3>2, SameMine DEF FoundInv
    <2>3. CASE job[p].targets = <<>> /\ job[p].args.tars = <<>>
      <3>1. Mine(job'[p]) = {} /\ job'[p].step = "timelines"
        BY <1>4, <2>3, NothingMine
      <3> QED BY <3>1 DEF FoundInv
    <2> QED BY <2>1, <2>2, <2>3
  <1>8. done' = done
    BY <1>1 DEF ghosts
  <1> QED BY <1>3, <1>4, <1>6, <1>7, <1>8, OthersFind

(* The timelines of what was unpacked, and of what is in the web folder. *)
LEMMA TimelinesFind ==
  ASSUME RIInv, FindInv, NEW p \in Proc, Timelines(p)
  PROVE  FindInv'
  <1> USE Fields_
  <1>1. UNCHANGED <<vars, testcache, links, ghosts>> /\ job[p].step = "timelines"
    BY DEF Timelines
  <1>2. CASE job[p].args.tars = <<>>
    <2>1. Works(p) /\ DOMAIN web' = DOMAIN web
          /\ job' = [job EXCEPT ![p].step = "categorize"]
      <3>1. job' = [job EXCEPT ![p].step = "categorize"]
            /\ \E failing : web' = [f \in DOMAIN web |->
                         IF f \in Range(job[p].mts) THEN WithHtml(web[f], failing) ELSE web[f]]
        BY <1>2, Zenon DEF Timelines
      <3>2. Works(p)
        BY <1>1, <3>1 DEF Works, AtWork, Alone, Fields, RIInv, RTypeOK
      <3> QED BY <3>1, <3>2
    <2>2. job'[p].step = "categorize" /\ job'[p].targets = job[p].targets
      BY <2>1 DEF Fields, RIInv, RTypeOK
    <2>3. ListsStay /\ done' = done
      BY <1>1, <2>1 DEF ListsStay, ghosts
    <2>4. Mine(job'[p]) = {}
      BY <1>2, <2>1, NothingMine DEF Works, AtWork
    <2>5. LocalInv(p)'
      BY <1>1, <1>2, <2>1, <2>2 DEF LocalInv, Listing, FindInv, Works, AtWork
    <2>6. FoundInv(p)'
      BY <2>2, <2>4 DEF FoundInv
    <2> QED BY <2>1, <2>3, <2>5, <2>6, StayGrows, OthersFind DEF Works, AtWork
  <1>3. CASE job[p].args.tars # <<>>
    <2>1. PICK failing :
            /\ job' = [job EXCEPT ![p].step = "copy", ![p].mts = AllWithHtml(job[p].mts, failing),
                              ![p].copies = Copies(AllWithHtml(job[p].mts, failing))]
            /\ UNCHANGED web
      BY <1>3, Zenon DEF Timelines
    <2> DEFINE mts == AllWithHtml(job[p].mts, failing)
    <2>2. job' = [job EXCEPT ![p].step = "copy", ![p].mts = mts, ![p].copies = Copies(mts)]
      BY <2>1
    <2>3. IsSeq(mts) /\ Places(Placed(mts)) = Places(Unpacked(job[p].args))
      <3>1. Range(job[p].mts) = Contents(job[p].args.tars) /\ IsSeq(job[p].mts)
        BY <1>1, <1>3 DEF RIInv, UnpackInv, Brought, Contents, FindInv, LocalInv
      <3>2. job[p].args.tars \in Seq(DOMAIN Tarball)
        BY DEF RIInv, RTypeOK
      <3>3. IsSeq(mts) /\ Places(Placed(mts))
              = Places(UNION {Placed(Tarball[t]) : t \in Range(job[p].args.tars)})
        BY <3>1, <3>2, PlacesStay
      <3> QED BY <3>3 DEF Unpacked
    <2> HIDE DEF mts
    <2>4. /\ Works(p) /\ job'[p].step = "copy" /\ job'[p].mts = mts
          /\ job'[p].targets = job[p].targets
      BY <1>1, <2>2 DEF Works, AtWork, Alone, Fields, RIInv, RTypeOK
    <2>5. ListsStay /\ done' = done
      BY <1>1, <2>1 DEF ListsStay, ghosts
    <2>6. LocalInv(p)'
      BY <1>1, <2>3, <2>4 DEF LocalInv, Listing, FindInv, Works, AtWork, IsSeq
    <2>7. FoundInv(p)'
      <3>1. Places(Mine(job'[p])) \subseteq Places(Unpacked(job'[p].args))
        BY DEF Places, Mine
      <3> QED BY <2>3, <2>4, <3>1
              DEF FoundInv, Sorting, Listing, Sorted, AfterCopy, Works, AtWork
    <2> QED BY <2>4, <2>5, <2>6, <2>7, StayGrows, OthersFind DEF Works, AtWork
  <1> QED BY <1>2, <1>3

(* What is known of the new folders is the category of every multitest that
   belongs there. *)
LEMMA NotesRight ==
  ASSUME SameMachine, NEW p \in Proc, NEW a \in Jobs[p] \cup {NoArgs}, NEW mts, IsSeq(mts),
         Places(Placed(mts)) \subseteq Places(Unpacked(a)),
         NEW mt \in Unpacked(a), Places({mt}) \subseteq Places(Placed(mts))
  PROVE  /\ OutDir(mt) \in Range(OutDirs(Sortable(mts)))
         /\ OutDir(mt) \in DOMAIN Details(Sortable(mts))
         /\ Details(Sortable(mts))[OutDir(mt)] = categorize_by_timeline(mt.tests)
  <1> DEFINE q == Sortable(mts)
             At(x) == [to |-> OutDir(x), is |-> categorize_by_timeline(x.tests)]
  <1>1. IsSeq(q) /\ Range(q) = Placed(mts)
    <2>1. q \in Seq(Range(mts)) /\ Range(q) = Range(mts) \cap Placed(mts)
      BY AmongElements DEF Sortable, IsSeq
    <2> HIDE DEF q
    <2>2. IsSeq(q)
      <3> DEFINE T == Range(mts)
      <3>1. q \in Seq(T)
        BY <2>1
      <3> HIDE DEF T
      <3> QED BY <3>1, SeqOfRange DEF IsSeq
    <2>3. Range(mts) \cap Placed(mts) = Placed(mts)
      BY DEF Placed
    <2> QED BY <2>1, <2>2, <2>3
  <1> HIDE DEF q
  <1>2. /\ \A x \in Placed(mts) : \E y \in Unpacked(a) : At(x) = At(y)
        /\ \E x \in Placed(mts) : At(x) = At(mt)
    <2>1. /\ {At(x) : x \in Placed(mts)} \subseteq {At(y) : y \in Unpacked(a)}
          /\ {At(y) : y \in {mt}} \subseteq {At(x) : x \in Placed(mts)}
      BY DEF Places
    <2> HIDE DEF At
    <2> QED BY <2>1
  <1>3. PICK nt \in Placed(mts) : OutDir(nt) = OutDir(mt)
    BY <1>2
  <1>4. OutDir(mt) \in Range(OutDirs(q)) /\ DOMAIN Details(q) = Range(OutDirs(q))
    BY <1>1, <1>3, DetailsOf
  <1>5. PICK lt \in Placed(mts) :
          OutDir(lt) = OutDir(mt) /\ Details(q)[OutDir(mt)] = categorize_by_timeline(lt.tests)
    BY <1>1, <1>4, DetailsOf
  <1>6. PICK kt \in Unpacked(a) :
          /\ OutDir(kt) = OutDir(lt)
          /\ categorize_by_timeline(kt.tests) = categorize_by_timeline(lt.tests)
    BY <1>2
  <1>7. a \in Jobs[p]
    BY DEF NoArgs, Unpacked, Range
  <1>8. categorize_by_timeline(kt.tests).machine = categorize_by_timeline(mt.tests).machine
    BY <1>5, <1>6, <1>7 DEF SameMachine
  <1>9. categorize_by_timeline(kt.tests) = categorize_by_timeline(mt.tests)
    BY <1>5, <1>6, <1>8, SameCategory
  <1> QED BY <1>4, <1>5, <1>6, <1>9 DEF q

(* A test is copied, or the last one was. *)
LEMMA CopyFinds ==
  ASSUME SameMachine, RIInv, FindInv, NEW p \in Proc, Copy(p)
  PROVE  FindInv'
  <1> USE Fields_
  <1>1. UNCHANGED <<vars, testcache, links, ghosts>> /\ job[p].step = "copy"
    BY DEF Copy
  <1>2. ASSUME NEW c \in job[p].copies, web' = CopyOne(c),
               job' = [job EXCEPT ![p].copies = @ \ {c}]
        PROVE  FindInv'
    <2>1. /\ Alone(p) /\ job'[p].step = "copy" /\ job'[p].mts = job[p].mts
          /\ job'[p].args = job[p].args /\ job'[p].targets = job[p].targets
          /\ job'[p].skipped = job[p].skipped
      BY <1>1, <1>2 DEF Alone, Fields, RIInv, RTypeOK
    <2>2. IsFiniteSet(DOMAIN web')
      <3>1. DOMAIN web' = DOMAIN web \/ DOMAIN web' = DOMAIN web \cup {c.to}
        BY <1>2 DEF CopyOne, Put
      <3> QED BY <3>1, FS_AddElement DEF FindInv
    <2>3. Grows
      BY <1>1, <2>2 DEF Grows, FindInv, IsSeq
    <2>4. LocalInv(p)'
      BY <1>1, <2>1 DEF LocalInv, Listing, FindInv
    <2>5. FoundInv(p)'
      BY <1>1, <2>1, SameMine DEF FoundInv, Sorting, Listing, Sorted, AfterCopy, FindInv
    <2>6. done' = done
      BY <1>1 DEF ghosts
    <2> QED BY <2>1, <2>3, <2>4, <2>5, <2>6, OthersFind
  <1> DEFINE mts == OutDirs(Sortable(job[p].mts))
             det == Details(Sortable(job[p].mts))
  <1>3. ASSUME UNCHANGED web,
               job' = [job EXCEPT ![p].step = "tcread", ![p].mts = mts, ![p].det = det]
        PROVE  FindInv'
    <2>1. /\ LocalInv(p) /\ FoundInv(p) /\ IsSeq(job[p].mts)
          /\ Places(Placed(job[p].mts)) \subseteq Places(Unpacked(job[p].args))
          /\ Places(Mine(job[p])) \subseteq Places(Placed(job[p].mts))
      BY <1>1 DEF FindInv, LocalInv, FoundInv
    <2>2. IsSeq(mts)
      <3>1. Sortable(job[p].mts) \in Seq(Range(job[p].mts))
        BY <2>1, AmongElements DEF Sortable, IsSeq
      <3>2. IsSeq(Sortable(job[p].mts))
        BY <3>1, SeqOfRange DEF IsSeq
      <3> QED BY <3>2, DetailsOf
    <2>3. \A mt \in Mine(job[p]) :
            /\ OutDir(mt) \in Range(mts) /\ OutDir(mt) \in DOMAIN det
            /\ det[OutDir(mt)] = categorize_by_timeline(mt.tests)
      <3>1. job[p].args \in Jobs[p] \cup {NoArgs}
        BY <2>1 DEF LocalInv
      <3>2. ASSUME NEW mt \in Mine(job[p])
            PROVE  /\ OutDir(mt) \in Range(mts) /\ OutDir(mt) \in DOMAIN det
                   /\ det[OutDir(mt)] = categorize_by_timeline(mt.tests)
        <4>1. mt \in Unpacked(job[p].args) /\ Places({mt}) \subseteq Places(Placed(job[p].mts))
          BY <2>1 DEF Mine, Places
        <4> QED BY <2>1, <3>1, <4>1, NotesRight
      <3> QED BY <3>2
    <2> HIDE DEF mts, det
    <2>4. /\ Alone(p) /\ job'[p].step = "tcread" /\ job'[p].mts = mts /\ job'[p].det = det
          /\ job'[p].args = job[p].args /\ job'[p].targets = job[p].targets
          /\ job'[p].skipped = job[p].skipped
      BY <1>1, <1>3 DEF Alone, Fields, RIInv, RTypeOK
    <2>5. LocalInv(p)'
      BY <1>1, <2>1, <2>2, <2>4 DEF LocalInv, Listing, IsSeq
    <2>6. FoundInv(p)'
      <3>1. job'[p].targets = <<>>
        BY <1>1, <2>1, <2>4 DEF LocalInv
      <3>2. ~Sorted(p)' /\ job'[p].step \notin {"copy", "link"}
        BY <2>4, <3>1 DEF Sorted, Sorting, Listing
      <3> QED BY <2>3, <2>4, <3>2, SameMine DEF FoundInv, Noted
    <2>7. ListsStay /\ done' = done
      BY <1>1, <1>3 DEF ListsStay, ghosts
    <2> QED BY <2>4, <2>5, <2>6, <2>7, StayGrows, OthersFind
  <1>4. \/ \E c \in MayCopy(job[p].copies) :
             web' = CopyOne(c) /\ job' = [job EXCEPT ![p].copies = @ \ {c}]
        \/ UNCHANGED web /\ job' = [job EXCEPT ![p].step = "tcread", ![p].mts = mts, ![p].det = det]
    BY DEF Copy
  <1> HIDE DEF mts, det
  <1> QED BY <1>2, <1>3, <1>4 DEF MayCopy

(* A multitest is skipped: what is left belongs where it did. *)
LEMMA SkipFinds ==
  ASSUME RIInv, FindInv, NEW p \in Proc, Skip(p)
  PROVE  FindInv'
  <1>1. /\ AtWork(p) /\ job[p].step = "copy" /\ job'[p].step = "copy"
        /\ UNCHANGED <<web, testcache, links, done>> /\ job'[p].targets = job[p].targets
    BY SkipMoves DEF shared
  <1>2. PICK c \in job[p].copies :
          /\ c.at \in DOMAIN job[p].mts /\ c.to = OutDir(job[p].mts[c.at])
          /\ job'[p].skipped = job[p].skipped \cup {c.to}
          /\ job'[p].mts = [job[p].mts EXCEPT ![c.at] = NoMultitest]
    BY SkipMoves
  <1> DEFINE old == job[p].mts
             new == job'[p].mts
  <1>3. /\ IsSeq(old) /\ job[p].args \in Jobs[p] \cup {NoArgs} /\ job[p].targets = <<>>
        /\ Places(Placed(old)) \subseteq Places(Unpacked(job[p].args))
        /\ Places(Mine(job[p])) \subseteq Places(Placed(old))
    BY <1>1 DEF FindInv, LocalInv, FoundInv
  <1> HIDE DEF old, new
  <1>4. /\ c.at \in DOMAIN old /\ c.to = OutDir(old[c.at])
        /\ new = [old EXCEPT ![c.at] = NoMultitest]
    BY <1>2 DEF old, new
  <1>5. IsSeq(new)
    <2>1. Len(old) \in Nat /\ DOMAIN old = 1..Len(old) /\ new \in [1..Len(old) -> Range(new)]
      BY <1>3, <1>4 DEF IsSeq, Range
    <2> QED BY <2>1 DEF IsSeq
  <1>6. Named(NoMultitest.tests) = {}
    BY DEF Named, NoMultitest, NoRows
  <1>7. Placed(new) \subseteq Placed(old)
    <2>1. ASSUME NEW mt \in Placed(new) PROVE mt \in Placed(old)
      <3>1. PICK i \in DOMAIN new : mt = new[i] /\ Named(mt.tests) # {}
        BY DEF Placed, Range
      <3>2. i # c.at /\ i \in DOMAIN old /\ mt = old[i]
        BY <1>4, <1>6, <3>1
      <3> QED BY <3>1, <3>2 DEF Placed, Range
    <2> QED BY <2>1
  <1>8. ASSUME NEW mt \in Placed(old), OutDir(mt) # c.to PROVE mt \in Placed(new)
    <2>1. PICK i \in DOMAIN old : mt = old[i]
      BY DEF Placed, Range
    <2>2. i # c.at
      BY <1>4, <1>8, <2>1
    <2> QED BY <1>4, <2>1, <2>2 DEF Placed, Range
  <1>9. Places(Mine(job'[p])) \subseteq Places(Placed(new))
    <2>1. ASSUME NEW mt \in Mine(job'[p])
          PROVE  \E nt \in Placed(new) :
                   /\ OutDir(nt) = OutDir(mt)
                   /\ categorize_by_timeline(nt.tests) = categorize_by_timeline(mt.tests)
      <3>1. mt \in Mine(job[p]) /\ OutDir(mt) # c.to
        BY <1>1, <1>2 DEF Mine, AtWork
      <3> DEFINE At(x) == [to |-> OutDir(x), is |-> categorize_by_timeline(x.tests)]
      <3>2. PICK nt \in Placed(old) : At(nt) = At(mt)
        <4>1. {At(x) : x \in Mine(job[p])} \subseteq {At(x) : x \in Placed(old)}
          BY <1>3 DEF Places
        <4> HIDE DEF At
        <4> QED BY <3>1, <4>1
      <3>3. /\ OutDir(nt) = OutDir(mt)
            /\ categorize_by_timeline(nt.tests) = categorize_by_timeline(mt.tests)
        BY <3>2
      <3> QED BY <1>8, <3>1, <3>3
    <2> QED BY <2>1 DEF Places
  <1>10. LocalInv(p)'
    BY <1>1, <1>3, <1>5 DEF LocalInv, Listing, AtWork, IsSeq, new
  <1>11. FoundInv(p)'
    <2>1. Places(Placed(new)) \subseteq Places(Unpacked(job[p].args))
      BY <1>3, <1>7 DEF Places
    <2> QED BY <1>1, <1>9, <2>1 DEF FoundInv, Sorting, Listing, Sorted, AfterCopy, AtWork, new
  <1> QED BY <1>1, <1>10, <1>11, StayGrows, OthersFind DEF AtWork, ListsStay

(* The categories of what was in the web folder already. *)
LEMMA CategorizeFinds ==
  ASSUME RIInv, FindInv, NEW p \in Proc, Categorize(p)
  PROVE  FindInv'
  <1> USE Fields_
  <1>1. /\ job[p].step = "categorize" /\ UNCHANGED <<vars, shared, ghosts>>
        /\ \E det : job' = [job EXCEPT ![p].step = "link", ![p].det = det]
    BY DEF Categorize
  <1>2. Works(p) /\ job'[p].step = "link"
    BY <1>1 DEF Works, AtWork, Alone, Fields, RIInv, RTypeOK
  <1>3. Mine(job'[p]) = {}
    BY <1>1, <1>2, NothingMine DEF Works, AtWork, FindInv, LocalInv
  <1>4. LocalInv(p)' /\ FoundInv(p)'
    BY <1>2, <1>3 DEF LocalInv, Listing, FoundInv, FindInv, Works, AtWork
  <1>5. ListsStay /\ done' = done
    BY <1>1 DEF ListsStay, shared, ghosts
  <1> QED BY <1>2, <1>4, <1>5, StayGrows, OthersFind DEF Works, AtWork

(* The links are made, after which all can be found. *)
LEMMA LinkFinds ==
  ASSUME RIInv, FindInv, NEW p \in Proc, Link(p)
  PROVE  FindInv'
  <1> USE Fields_
  <1>1. /\ job[p].step = "link" /\ UNCHANGED <<vars, web, testcache, ghosts>>
        /\ links' = links \cup datasort(job[p].det)
        /\ \E s \in {"catsum", "report"} : \E todo :
             job' = [job EXCEPT ![p].step = s, ![p].todo = todo]
    BY DEF Link
  <1>2. Works(p) /\ job'[p].step \in {"catsum", "report"}
    BY <1>1 DEF Works, AtWork, Alone, Fields, RIInv, RTypeOK
  <1>3. Grows
    BY <1>1 DEF Grows, FindInv, IsSeq
  <1>4. LocalInv(p)'
    BY <1>2 DEF LocalInv, Listing, FindInv, Works, AtWork
  <1>5. ASSUME NEW mt \in Mine(job[p]) PROVE Findable(mt)'
    <2> DEFINE f == OutDir(mt)
               c == categorize_by_timeline(mt.tests)
    <2>1. Noted(p, mt) /\ f \in Range(testcache)
      BY <1>1 DEF FindInv, FoundInv
    <2>2. f \in DOMAIN job[p].det /\ job[p].det[f] = c
      BY <2>1 DEF Noted
    <2> HIDE DEF f, c
    <2>3. /\ c.rc # NoName => <<"rc", c.rc, f>> \in datasort(job[p].det)
          /\ c.machine # NoName => <<"machine", c.machine, f>> \in datasort(job[p].det)
      BY <2>2 DEF datasort
    <2>4. /\ f \in Range(testcache') /\ (c.rc # NoName => <<"rc", c.rc, f>> \in links')
          /\ c.machine # NoName => <<"machine", c.machine, f>> \in links'
      BY <1>1, <2>1, <2>3
    <2> QED BY <2>4 DEF Findable, f, c
  <1>6. FoundInv(p)'
    BY <1>2, <1>5, SameMine DEF FoundInv, Sorting, Listing, Works, AtWork
  <1>7. done' = done
    BY <1>1 DEF ghosts
  <1> QED BY <1>2, <1>3, <1>4, <1>6, <1>7, OthersFind DEF Works, AtWork

\* It goes on after the links, and does nothing to the lists.
GoesOn(p) == Works(p) /\ ListsStay /\ UNCHANGED done /\ Late(p) /\ Late(p)'

(* The reports go on after the links. *)
LEMMA ReportsGoOn ==
  ASSUME RIInv, NEW p \in Proc,
         Report(p) \/ ReportWrite(p) \/ (ReportsDone(p) /\ ~Leave(p))
  PROVE  GoesOn(p)
  <1> USE Fields_ DEF RIInv, RTypeOK
  <1>1. CASE Report(p)
    <2>1. /\ Works(p) /\ DOMAIN web' = DOMAIN web
          /\ job'[p].step \in {"repwrite", "report"}
      BY <1>1, ReportPlain DEF Plain, Moves
    <2>2. job[p].step = "report" /\ UNCHANGED <<testcache, links, done>>
      BY <1>1 DEF Report, ghosts
    <2> QED BY <2>1, <2>2 DEF GoesOn, ListsStay, Late, AfterCopy
  <1>2. CASE ReportWrite(p)
    <2>1. Works(p)
      BY <1>2, ReportWritePlain DEF Plain, Moves
    <2>2. /\ job[p].step = "repwrite" /\ job'[p].step = "report"
          /\ UNCHANGED <<testcache, links, done>> /\ DOMAIN web' = DOMAIN web
      BY <1>2 DEF ReportWrite, ghosts, Fields
    <2> QED BY <2>1, <2>2 DEF GoesOn, ListsStay, Late, AfterCopy
  <1>3. CASE ReportsDone(p) /\ ~Leave(p)
    <2>1. Works(p)
      BY <1>3, ReportsDonePlain DEF Plain, Moves
    <2>2. /\ job[p].step = "report" /\ job'[p].step \in {"summary", "catsum"}
          /\ UNCHANGED <<testcache, links, done, web>>
      BY <1>3 DEF ReportsDone, Fields
    <2> QED BY <2>1, <2>2 DEF GoesOn, ListsStay, Late, AfterCopy
  <1> QED BY <1>1, <1>2, <1>3

(* So does the work on the summaries. *)
LEMMA SummariesGoOn ==
  ASSUME RIInv, NEW p \in Proc,
         (ReadSummary(p) /\ ~Leave(p)) \/ CatSumDone(p) \/ SummaryWrite(p)
  PROVE  GoesOn(p)
  <1> USE Fields_ DEF RIInv, RTypeOK
  <1>1. CASE ReadSummary(p) /\ ~Leave(p)
    <2>1. Works(p) /\ job'[p].step = job[p].step
      BY <1>1, ReadSummaryPlain DEF Plain, Moves
    <2>2. job[p].step \in {"catsum", "sumread"} /\ UNCHANGED <<testcache, links, done, web>>
      BY <1>1 DEF ReadSummary, shared, ghosts
    <2> QED BY <2>1, <2>2 DEF GoesOn, ListsStay, Late, AfterCopy
  <1>2. CASE CatSumDone(p)
    <2>1. Works(p)
      BY <1>2, CatSumDonePlain DEF Plain, Moves
    <2>2. /\ job[p].step = "catsum" /\ job'[p].step = "dcread"
          /\ UNCHANGED <<testcache, links, done, web>>
      BY <1>2 DEF CatSumDone, shared, ghosts, Fields
    <2> QED BY <2>1, <2>2 DEF GoesOn, ListsStay, Late, AfterCopy
  <1>3. CASE SummaryWrite(p)
    <2>1. Works(p)
      BY <1>3, SummaryWritePlain DEF Plain, Moves
    <2>2. /\ job[p].step = "sumread" /\ job'[p].step = "summary"
          /\ UNCHANGED <<testcache, links, done, web>>
      <3>1. job' = [job EXCEPT ![p].step = "summary", ![p].targets = Tail(@), ![p].list = <<>>,
                              ![p].got = {}]
        BY <1>3 DEF SummaryWrite
      <3>2. job[p].step = "sumread" /\ UNCHANGED <<testcache, links, done, web>>
        BY <1>3 DEF SummaryWrite, ghosts
      <3>3. job'[p].step = "summary"
        BY <3>1 DEF Fields
      <3> QED BY <3>2, <3>3
    <2> QED BY <2>1, <2>2 DEF GoesOn, ListsStay, Late, AfterCopy
  <1> QED BY <1>1, <1>2, <1>3

(* So does update_data_cache. *)
LEMMA DataGoesOn ==
  ASSUME RIInv, NEW p \in Proc, DataRead(p) \/ DataOpen(p) \/ DataLock(p) \/ DataFlush(p)
  PROVE  GoesOn(p)
  <1> USE Fields_ DEF RIInv, RTypeOK
  <1>1. Works(p)
    BY DataMoves DEF Moves
  <1>2. /\ job[p].step \in {"dcread", "dcopen", "dclock", "dcflush"}
        /\ UNCHANGED <<testcache, links, done, web>>
    BY DEF DataRead, DataOpen, DataLock, DataFlush, shared, ghosts
  <1>3. \/ \E to \in {"trash", "dclock", "dcflush"} : job' = [job EXCEPT ![p].step = to]
        \/ job' = [job EXCEPT ![p].step = "dcopen", ![p].got = {datacache}]
        \/ job' = [job EXCEPT ![p].step = "trash", ![p].got = {}]
    BY DEF DataRead, DataOpen, DataLock, DataFlush
  <1>4. job'[p].step \in {"trash", "dclock", "dcflush", "dcopen"}
    BY <1>3 DEF Fields
  <1> QED BY <1>1, <1>2, <1>4 DEF GoesOn, ListsStay, Late, AfterCopy

(* The next summary: the folder of a kernel is walked, for which the list of
   multitests is read again, or looked up in the list; or the links are followed. *)
LEMMA NextSummary ==
  ASSUME RIInv, NEW p \in Proc, Summary(p), ~Leave(p)
  PROVE  \/ job'[p].step = "dcread"
         \/ /\ job[p].targets # <<>> /\ job'[p].targets = job[p].targets
            /\ job'[p].list = <<>> /\ job'[p].todo = job'[p].mts
            /\ job'[p].step \in {"sumread", "tcread"}
            /\ IF Head(job[p].targets)[1] = "kernel"
               THEN job'[p].mts = Found(p, Head(job[p].targets)[2])
                    /\ (job'[p].step = "tcread" => ~job[p].args.cache)
               ELSE job'[p].step = "sumread"
  <1> USE Fields_ DEF RIInv, RTypeOK
  <1>1. CASE job[p].targets = <<>>
    <2>1. job' = [job EXCEPT ![p].step = "dcread"]
      BY <1>1, Zenon DEF Summary
    <2> QED BY <2>1 DEF Fields
  <1>2. CASE job[p].targets # <<>>
    <2> DEFINE t == Head(job[p].targets)
               bykernel == t[1] = "kernel"
               linked == SetToSeq({l[3] : l \in {k \in links : k[1] = t[1] /\ k[2] = t[2]}})
               fs == IF bykernel THEN Found(p, t[2]) ELSE linked
               next == IF bykernel /\ ~job[p].args.cache THEN "tcread" ELSE "sumread"
    <2>1. job' = [job EXCEPT ![p].mts = fs, ![p].todo = fs, ![p].list = <<>>, ![p].step = next]
      BY <1>2, Zenon DEF Summary
    <2>2. /\ job'[p].mts = fs /\ job'[p].todo = fs /\ job'[p].list = <<>>
          /\ job'[p].step = next /\ job'[p].targets = job[p].targets
      <3> HIDE DEF fs, next
      <3> QED BY <2>1 DEF Fields
    <2>3. (bykernel => fs = Found(p, t[2])) /\ next \in {"sumread", "tcread"}
          /\ (next = "tcread" => bykernel /\ ~job[p].args.cache)
      OBVIOUS
    <2> HIDE DEF fs, next
    <2> QED BY <1>2, <2>2, <2>3
  <1> QED BY <1>1, <1>2

(* The walk of a folder finds what is there. *)
LEMMA WalkSeq ==
  ASSUME FindInv, NEW k
  PROVE  /\ IsSeq(WalkWeb(k))
         /\ Range(WalkWeb(k)) = {f \in DOMAIN web : k = NoName \/ f.kernel = k}
  <1> DEFINE S == {f \in DOMAIN web : k = NoName \/ f.kernel = k}
  <1>1. IsFiniteSet(S)
    BY FS_Subset DEF FindInv
  <1> HIDE DEF S
  <1>2. SetToSeq(S) \in Seq(S) /\ Range(SetToSeq(S)) = S
    BY <1>1, SequenceOfSet
  <1>3. WalkWeb(k) = SetToSeq(S)
    BY DEF WalkWeb, S
  <1> QED BY <1>2, <1>3 DEF IsSeq, S

(* The links are all there while it is looked for. *)
LEMMA SummaryFinds ==
  ASSUME RIInv, FindInv, NEW p \in Proc, Summary(p), ~Leave(p)
  PROVE  FindInv'
  <1>1. UNCHANGED <<web, testcache, links, done>> /\ job[p].step = "summary"
    BY DEF Summary
  <1>2. Works(p)
    BY SummaryPlain DEF Plain, Moves, RIInv
  <1>3. \/ job'[p].step \in {"dcread", "sumread"}
        \/ job'[p].step = "tcread" /\ IsSeq(job'[p].mts) /\ job'[p].targets # <<>>
    BY NextSummary, WalkSeq DEF Found
  <1> QED BY <1>1, <1>2, <1>3, LateFinds DEF ListsStay, Late, AfterCopy

(* The end of an instance: it can be the end of main only when its multitests
   can be found. *)
LEMMA LeavesFind ==
  ASSUME FindInv, NEW p \in Proc, Leaves(p), ListsStay,
         \A w \in done' \ done : \A mt \in Mine(w) : Findable(mt)
  PROVE  FindInv'
  <1>1. /\ Alone(p) /\ job'[p].step = "out" /\ job'[p].args = NoArgs
        /\ job'[p].targets = <<>>
    BY Fields_ DEF Leaves, Idle
  <1> QED BY <1>1, RestFinds

(* A crash changes no list. *)
LEMMA CrashFinds ==
  ASSUME RIInv, FindInv, NEW p \in Proc, Crash(p)
  PROVE  FindInv'
  <1>1. UNCHANGED <<testcache, links, done>>
    BY DEF Crash
  <1>2. DOMAIN web' = DOMAIN web
    BY DEF Crash
  <1> QED BY <1>1, <1>2, CrashLeaves, LeavesFind DEF ListsStay

(* At the end of main all has been sorted. *)
LEMMA TrashFinds ==
  ASSUME RIInv, FindInv, NEW p \in Proc, Trash(p)
  PROVE  FindInv'
  <1>1. /\ UNCHANGED <<testcache, links, web>> /\ Sorted(p)
        /\ done' = done \cup {[args |-> job[p].args, skipped |-> job[p].skipped]}
    BY DEF Trash, Sorted, AfterCopy, Sorting, Listing
  <1>2. ASSUME NEW w \in done' \ done, NEW mt \in Mine(w) PROVE Findable(mt)
    <2>1. w.args = job[p].args /\ w.skipped = job[p].skipped
      BY <1>1
    <2> QED BY <1>1, <2>1 DEF Mine, FindInv, FoundInv
  <1> QED BY <1>1, <1>2, TrashLeaves, LeavesFind DEF ListsStay

(* The early ends leave the lists as they are. *)
LEMMA EndsFind ==
  ASSUME RIInv, FindInv, NEW p \in Proc, Leave(p),
         Unpack(p) \/ Find(p) \/ ReportsDone(p) \/ ReadSummary(p) \/ Summary(p)
  PROVE  FindInv'
  <1>1. Leaves(p)
    BY UnpackLeaves, FindLeaves, ReportsDoneLeaves, ReadSummaryLeaves, SummaryLeaves
  <1>2. UNCHANGED <<testcache, links, web, done>>
    <2>1. CASE Unpack(p) \/ Find(p)
      BY <2>1 DEF Unpack, Find, shared, ghosts
    <2>2. CASE ReportsDone(p) \/ Summary(p)
      BY <2>2 DEF ReportsDone, Summary
    <2>3. CASE ReadSummary(p)
      BY <2>3 DEF ReadSummary, shared, ghosts
    <2> QED BY <2>1, <2>2, <2>3
  <1> QED BY <1>1, <1>2, LeavesFind DEF ListsStay

(* An instance that waits for a slot has sorted nothing yet. *)
LEMMA WaitsFind ==
  ASSUME IInv, RIInv, FindInv, NEW p \in Proc, Start(p) \/ Try(p) \/ WaitOne(p)
  PROVE  FindInv'
  <1> USE Fields_
  <1>1. Waits(p)
    BY StartWaits, TryWaits, WaitOneWaits
  <1>2. UNCHANGED <<testcache, links, web, done>>
    BY DEF Start, Try, WaitOne, shared, ghosts
  <1>3. job[p].args \in Jobs[p] \cup {NoArgs} /\ job[p].targets = <<>>
    BY <1>1 DEF Waits, FindInv, LocalInv
  <1>4. job'[p].args \in Jobs[p] \cup {NoArgs} /\ job'[p].targets = <<>>
    <2>1. CASE Start(p)
      <3>1. PICK a \in Jobs[p] : job' = [job EXCEPT ![p].args = a]
        BY <2>1 DEF Start
      <3> QED BY <1>3, <3>1 DEF RIInv, RTypeOK, Fields
    <2>2. CASE Try(p)
      <3>1. job' = [job EXCEPT ![p].step = "begin"] \/ job' = job
        BY <2>2 DEF Try
      <3> QED BY <1>3, <3>1 DEF RIInv, RTypeOK, Fields
    <2>3. CASE WaitOne(p)
      <3>1. job' = [job EXCEPT ![p] = Idle] \/ job' = job
        BY <2>3 DEF WaitOne
      <3> QED BY <1>3, <3>1 DEF RIInv, RTypeOK, Idle
    <2> QED BY <2>1, <2>2, <2>3
  <1> QED BY <1>1, <1>2, <1>4, RestFinds DEF Waits, ListsStay

(* Nothing is to be found when the first instance is started. *)
LEMMA FindInit ==
  ASSUME RInit
  PROVE  FindInv
  <1> USE DEF RInit
  <1>1. \A p \in Proc : /\ job[p].step = "out" /\ job[p].args = NoArgs
                        /\ job[p].targets = <<>>
    BY DEF Idle
  <1>2. IsSeq(testcache) /\ IsFiniteSet(DOMAIN web)
    BY ReportAssumption DEF IsSeq
  <1>3. WorkFound
    BY DEF WorkFound
  <1>4. \A p \in Proc : LocalInv(p)
    BY <1>1 DEF LocalInv, Listing
  <1>5. \A p \in Proc : FoundInv(p)
    BY <1>1 DEF FoundInv, Sorting, Listing, Sorted, AfterCopy
  <1> QED BY <1>2, <1>3, <1>4, <1>5 DEF FindInv

(* Every step keeps what is known of the multitests. *)
LEMMA FindStep ==
  ASSUME SameMachine, IInv, RIInv, FindInv, NEW p \in Proc, RStep(p)
  PROVE  FindInv'
  <1>1. CASE Start(p) \/ Try(p) \/ WaitOne(p)
    BY <1>1, WaitsFind
  <1>2. CASE Crash(p) \/ Trash(p)
    BY <1>2, CrashFinds, TrashFinds
  <1>3. CASE Unpack(p) \/ Find(p)
    BY <1>3, EndsFind, UnpackFinds, FindFinds
  <1>4. CASE CacheRead(p) \/ CacheAppend(p)
    BY <1>4, CacheReadFinds, CacheAppendFinds
  <1>5. CASE Timelines(p) \/ Skip(p) \/ Copy(p)
    BY <1>5, TimelinesFind, SkipFinds, CopyFinds
  <1>6. CASE Categorize(p) \/ Link(p)
    BY <1>6, CategorizeFinds, LinkFinds
  <1>7. CASE Summary(p)
    BY <1>7, EndsFind, SummaryFinds
  <1>8. CASE GoesOn(p)
    BY <1>8, LateFinds DEF GoesOn
  <1>9. CASE Report(p) \/ ReportWrite(p) \/ ReportsDone(p)
    BY <1>8, <1>9, ReportsGoOn, EndsFind
  <1>10. CASE ReadSummary(p) \/ CatSumDone(p) \/ SummaryWrite(p)
    BY <1>8, <1>10, SummariesGoOn, EndsFind
  <1>11. CASE DataRead(p) \/ DataOpen(p) \/ DataLock(p) \/ DataFlush(p)
    BY <1>8, <1>11, DataGoesOn
  <1> QED BY <1>1, <1>2, <1>3, <1>4, <1>5, <1>6, <1>7, <1>9, <1>10, <1>11 DEF RStep

(* Nor does a step that changes nothing lose any of it. *)
LEMMA FindStutter ==
  ASSUME FindInv, UNCHANGED rvars
  PROVE  FindInv'
  <1>1. UNCHANGED <<job, web, testcache, links, done>>
    BY DEF rvars, shared, ghosts
  <1>2. \A mt : (Findable(mt) <=> Findable(mt)') /\ \A p : Noted(p, mt) <=> Noted(p, mt)'
    BY <1>1 DEF Noted, Findable
  <1>3. \A p \in Proc : LocalInv(p)'
    BY <1>1 DEF FindInv, LocalInv, Listing
  <1>4. \A p \in Proc : FoundInv(p)'
    BY <1>1, <1>2 DEF FindInv, FoundInv, Sorting, Listing, Sorted, AfterCopy
  <1>5. WorkFound'
    BY <1>1, <1>2 DEF FindInv, WorkFound
  <1> QED BY <1>1, <1>3, <1>4, <1>5 DEF FindInv, IsSeq

-----------------------------------------------------------------------------
(* What the summary of a kernel has to show.                                 *)

(* What one instance does changes nothing in what another has to see. *)
LEMMA OthersSum ==
  ASSUME SumsInv, NEW p \in Proc, Alone(p), UNCHANGED overview, SumInv(p)'
  PROVE  SumsInv'
  <1>1. ASSUME NEW q \in Proc, q # p PROVE SumInv(q)'
    <2>1. job'[q] = job[q] /\ SumInv(q)
      BY <1>1 DEF Alone, SumsInv
    <2> QED BY <2>1 DEF SumInv, Summing, Listing, ToSee, SeenIn
  <1>2. WorkSummed'
    BY DEF SumsInv, WorkSummed, SeenIn
  <1> QED BY <1>1, <1>2 DEF SumsInv

\* It changes no summary and is not at work on one.
NoSummary(p) == Alone(p) /\ UNCHANGED overview /\ ~Summing(p)'

(* Then there is nothing it has to see. *)
LEMMA NoSummarySums ==
  ASSUME SumsInv, NEW p \in Proc, NoSummary(p)
  PROVE  SumsInv'
  BY OthersSum DEF NoSummary, SumInv

(* The ends, and the wait for a slot. *)
LEMMA RestNoSummary ==
  ASSUME IInv, RIInv, NEW p \in Proc,
         \/ Start(p) \/ Try(p) \/ WaitOne(p) \/ Crash(p) \/ Trash(p)
         \/ /\ Leave(p)
            /\ Unpack(p) \/ Find(p) \/ ReportsDone(p) \/ ReadSummary(p) \/ Summary(p)
  PROVE  NoSummary(p)
  <1>1. CASE Start(p) \/ Try(p) \/ WaitOne(p)
    <2>1. Alone(p) /\ job'[p].step \in {"out", "begin"}
      BY <1>1, StartWaits, TryWaits, WaitOneWaits DEF Waits
    <2>2. UNCHANGED overview
      BY <1>1 DEF Start, Try, WaitOne, shared
    <2> QED BY <2>1, <2>2 DEF NoSummary, Summing, Listing
  <1>2. ASSUME Leaves(p), UNCHANGED overview PROVE NoSummary(p)
    BY <1>2, Fields_ DEF NoSummary, Summing, Listing, Leaves
  <1>3. CASE Crash(p) \/ Trash(p)
    <2>1. UNCHANGED overview
      BY <1>3 DEF Crash, Trash
    <2> QED BY <1>2, <1>3, <2>1, CrashLeaves, TrashLeaves
  <1>4. CASE Leave(p) /\ (Unpack(p) \/ Find(p) \/ ReadSummary(p))
    <2>1. UNCHANGED overview
      BY <1>4 DEF Unpack, Find, ReadSummary, shared
    <2> QED BY <1>2, <1>4, <2>1, UnpackLeaves, FindLeaves, ReadSummaryLeaves
  <1>5. CASE Leave(p) /\ (ReportsDone(p) \/ Summary(p))
    <2>1. UNCHANGED overview
      BY <1>5 DEF ReportsDone, Summary
    <2> QED BY <1>2, <1>5, <2>1, ReportsDoneLeaves, SummaryLeaves
  <1> QED BY <1>1, <1>3, <1>4, <1>5

(* The way from the tarballs to the links. *)
LEMMA SortNoSummary ==
  ASSUME RIInv, FindInv, NEW p \in Proc,
         \/ (Unpack(p) \/ Find(p)) /\ ~Leave(p)
         \/ Timelines(p) \/ Skip(p) \/ Copy(p) \/ Categorize(p) \/ Link(p)
  PROVE  NoSummary(p)
  <1> USE Fields_ DEF RIInv, RTypeOK
  <1>1. UNCHANGED overview
    BY DEF Unpack, Find, Timelines, Skip, Copy, Categorize, Link, shared
  <1>2. job[p].step \in {"begin", "timelines", "copy"} => job[p].targets = <<>>
    BY DEF FindInv, LocalInv
  <1>3. CASE Unpack(p) /\ ~Leave(p)
    <2>1. \E mts : job' = [job EXCEPT ![p].step = "timelines", ![p].mts = mts]
      BY <1>3, Zenon DEF Unpack
    <2> QED BY <1>1, <2>1 DEF NoSummary, Alone, Summing, Listing, Fields
  <1>4. CASE Find(p) /\ ~Leave(p)
    <2> DEFINE mts == Found(p, NoName)
               s == IF job[p].args.cache THEN "timelines" ELSE "tcread"
    <2>1. job' = [job EXCEPT ![p].step = s, ![p].mts = mts] /\ job[p].step = "begin"
      BY <1>4 DEF Find
    <2> HIDE DEF mts
    <2>2. Alone(p) /\ job'[p].step = s /\ job'[p].targets = job[p].targets
      BY <2>1 DEF Alone, Fields
    <2> QED BY <1>1, <1>2, <2>1, <2>2 DEF NoSummary, Summing, Listing
  <1>5. CASE Timelines(p)
    <2>1. CASE job[p].args.tars = <<>>
      <3>1. job' = [job EXCEPT ![p].step = "categorize"]
        BY <1>5, <2>1, Zenon DEF Timelines
      <3> QED BY <1>1, <3>1 DEF NoSummary, Alone, Summing, Listing, Fields
    <2>2. CASE job[p].args.tars # <<>>
      <3>1. PICK failing :
              job' = [job EXCEPT ![p].step = "copy", ![p].mts = AllWithHtml(job[p].mts, failing),
                                 ![p].copies = Copies(AllWithHtml(job[p].mts, failing))]
        BY <1>5, <2>2, Zenon DEF Timelines
      <3> DEFINE mts == AllWithHtml(job[p].mts, failing)
                 cs == Copies(mts)
      <3>2. job' = [job EXCEPT ![p].step = "copy", ![p].mts = mts, ![p].copies = cs]
        BY <3>1
      <3> HIDE DEF mts, cs
      <3>3. Alone(p) /\ job'[p].step = "copy"
        BY <3>2 DEF Alone, Fields
      <3> QED BY <1>1, <3>3 DEF NoSummary, Summing, Listing
    <2> QED BY <2>1, <2>2
  <1>6. CASE Copy(p)
    <2> DEFINE mts == OutDirs(Sortable(job[p].mts))
               det == Details(Sortable(job[p].mts))
    <2>1. \/ \E c \in MayCopy(job[p].copies) : job' = [job EXCEPT ![p].copies = @ \ {c}]
          \/ job' = [job EXCEPT ![p].step = "tcread", ![p].mts = mts, ![p].det = det]
      BY <1>6 DEF Copy
    <2> HIDE DEF mts, det
    <2>2. job[p].step = "copy"
      BY <1>6 DEF Copy
    <2>3. Alone(p) /\ job'[p].step \in {"copy", "tcread"} /\ job'[p].targets = job[p].targets
      BY <2>1, <2>2 DEF Alone, Fields
    <2> QED BY <1>1, <1>2, <2>2, <2>3 DEF NoSummary, Summing, Listing
  <1>7. CASE Categorize(p)
    <2>1. \E det : job' = [job EXCEPT ![p].step = "link", ![p].det = det]
      BY <1>7 DEF Categorize
    <2> QED BY <1>1, <2>1 DEF NoSummary, Alone, Summing, Listing, Fields
  <1>8. CASE Link(p)
    <2>1. \E s \in {"catsum", "report"} : \E todo :
             job' = [job EXCEPT ![p].step = s, ![p].todo = todo]
      BY <1>8 DEF Link
    <2> QED BY <1>1, <2>1 DEF NoSummary, Alone, Summing, Listing, Fields
  <1>9. CASE Skip(p)
    <2>1. Alone(p) /\ job'[p].step = "copy"
      BY <1>9, SkipMoves DEF AtWork
    <2> QED BY <1>1, <2>1 DEF NoSummary, Summing, Listing
  <1> QED BY <1>3, <1>4, <1>5, <1>6, <1>7, <1>8, <1>9

(* The reports and ~/.multitestdata. *)
LEMMA WorkNoSummary ==
  ASSUME RIInv, NEW p \in Proc,
         \/ Report(p) \/ ReportWrite(p) \/ (ReportsDone(p) /\ ~Leave(p)) \/ CatSumDone(p)
         \/ DataRead(p) \/ DataOpen(p) \/ DataLock(p) \/ DataFlush(p)
  PROVE  NoSummary(p)
  <1> USE Fields_ DEF RIInv, RTypeOK
  <1>1. UNCHANGED overview
    BY DEF Report, ReportWrite, ReportsDone, CatSumDone, DataRead, DataOpen, DataLock,
           DataFlush, shared
  <1>2. ASSUME Works(p), job'[p].step \notin {"sumread", "tcread", "tcappend"}
        PROVE  NoSummary(p)
    BY <1>1, <1>2 DEF NoSummary, Summing, Listing, Works, AtWork
  <1>3. CASE Report(p)
    BY <1>2, <1>3, ReportPlain DEF Plain, Moves
  <1>4. CASE ReportWrite(p)
    <2>1. job' = [job EXCEPT ![p].step = "report", ![p].got = {}]
      BY <1>4 DEF ReportWrite
    <2>2. job'[p].step = "report"
      BY <2>1 DEF Fields
    <2> QED BY <1>2, <1>4, <2>2, ReportWritePlain DEF Plain, Moves
  <1>5. CASE ReportsDone(p) /\ ~Leave(p)
    <2>1. \E s \in {"summary", "catsum"} : \E todo, targets :
            \/ job' = [job EXCEPT ![p].step = s, ![p].targets = targets]
            \/ job' = [job EXCEPT ![p].step = s, ![p].todo = todo]
      BY <1>5 DEF ReportsDone
    <2>2. job'[p].step \in {"summary", "catsum"}
      BY <2>1 DEF Fields
    <2> QED BY <1>2, <1>5, <2>2, ReportsDonePlain DEF Plain, Moves
  <1>6. CASE CatSumDone(p)
    <2>1. job' = [job EXCEPT ![p].step = "dcread", ![p].list = <<>>, ![p].got = {}]
      BY <1>6 DEF CatSumDone
    <2>2. job'[p].step = "dcread"
      BY <2>1 DEF Fields
    <2> QED BY <1>2, <1>6, <2>2, CatSumDonePlain DEF Plain, Moves
  <1>7. CASE DataRead(p) \/ DataOpen(p) \/ DataLock(p) \/ DataFlush(p)
    <2>1. GoesOn(p)
      BY <1>7, DataGoesOn
    <2>2. \/ \E to \in {"trash", "dclock", "dcflush"} : job' = [job EXCEPT ![p].step = to]
          \/ job' = [job EXCEPT ![p].step = "dcopen", ![p].got = {datacache}]
          \/ job' = [job EXCEPT ![p].step = "trash", ![p].got = {}]
      BY <1>7 DEF DataRead, DataOpen, DataLock, DataFlush
    <2>3. job'[p].step \in {"trash", "dclock", "dcflush", "dcopen"}
      BY <2>2 DEF Fields
    <2> QED BY <1>2, <2>1, <2>3 DEF GoesOn
  <1> QED BY <1>3, <1>4, <1>5, <1>6, <1>7

(* The list of multitests is read and brought up to date before a summary, which
   changes nothing in what is to be read for it. *)
LEMMA ListingSums ==
  ASSUME RIInv, SumsInv, NEW p \in Proc, CacheRead(p) \/ CacheAppend(p)
  PROVE  SumsInv'
  <1> USE Fields_ DEF RIInv, RTypeOK
  <1>1. /\ Alone(p) /\ job'[p].args = job[p].args /\ job'[p].targets = job[p].targets
        /\ job'[p].skipped = job[p].skipped
        /\ job'[p].todo = job[p].todo /\ job'[p].list = job[p].list
        /\ job'[p].step \in {"tcappend", "timelines", "link"} \/ job[p].targets # <<>>
    <2>1. CASE CacheRead(p)
      <3> DEFINE q == Range(load_cache(NoName))
      <3>1. job' = [job EXCEPT ![p].step = "tcappend", ![p].got = q]
        BY <2>1 DEF CacheRead
      <3> HIDE DEF q
      <3> QED BY <3>1 DEF Alone, Fields
    <2>2. CASE CacheAppend(p)
      <3> DEFINE s == IF job[p].targets # <<>> THEN "sumread"
                      ELSE IF job[p].args.tars # <<>> THEN "link" ELSE "timelines"
      <3>1. job' = [job EXCEPT ![p].got = {}, ![p].step = s]
        BY <2>2 DEF CacheAppend
      <3> QED BY <3>1 DEF Alone, Fields
    <2> QED BY <2>1, <2>2
  <1>2. UNCHANGED overview /\ Listing(p)
    BY DEF CacheRead, CacheAppend, shared, Listing
  <1>3. SumInv(p)'
    <2>1. Summing(p)' => Summing(p)
      BY <1>2, <1>1 DEF Summing, Listing
    <2>2. ToSee(p) \subseteq ToSee(p)'
      BY <1>2, <1>1 DEF ToSee, Listing
    <2>3. SumInv(p)
      BY DEF SumsInv
    <2> QED BY <1>1, <2>1, <2>2, <2>3, SameMine DEF SumInv
  <1> QED BY <1>1, <1>2, <1>3, OthersSum

(* What was sorted is found under its kernel. *)
LEMMA NextSums ==
  ASSUME RIInv, SafeInv, FindInv, SumsInv, NEW p \in Proc, Summary(p), ~Leave(p)
  PROVE  SumsInv'
  <1>1. UNCHANGED <<vars, overview>> /\ job[p].step = "summary" /\ Works(p)
    <2>1. Works(p)
      BY SummaryPlain DEF Plain, Moves, RIInv
    <2> QED BY <2>1 DEF Summary, Works, AtWork
  <1>2. ASSUME NEW k
        PROVE  /\ IsSeq(Found(p, k))
               /\ \A mt \in Mine(job[p]) :
                    OutDir(mt).kernel = k => OutDir(mt) \in Range(Found(p, k))
    <2> DEFINE S == {g \in DOMAIN web : k = NoName \/ g.kernel = k}
    <2>1. ASSUME NEW mt \in Mine(job[p])
          PROVE  OutDir(mt) \in DOMAIN web /\ OutDir(mt) \in Range(testcache)
      <3>1. Named(mt.tests) # {} /\ Named(mt.tests) \subseteq DOMAIN mt.tests
        BY DEF Mine, Unpacked, Placed, Named
      <3>2. \A n \in DOMAIN mt.tests : Held(mt, n)
        BY <1>1 DEF SafeInv, HeldInv, AfterCopy, ToCopy
      <3>3. Sorted(p)
        BY <1>1 DEF Sorted, AfterCopy, Sorting, Listing
      <3>4. Findable(mt)
        BY <3>3 DEF FindInv, FoundInv
      <3> QED BY <3>1, <3>2, <3>4 DEF Held, Findable
    <2>2. CASE job[p].args.cache
      <3>1. Found(p, k) = Among(testcache, S)
        BY <2>2 DEF Found, load_cache
      <3>2. testcache \in Seq(Range(testcache))
        BY DEF FindInv, IsSeq
      <3>3. \A mt \in Mine(job[p]) : OutDir(mt).kernel = k => OutDir(mt) \in S
        BY <2>1
      <3> HIDE DEF S
      <3> DEFINE c == Among(testcache, S)
      <3>4. c \in Seq(Range(testcache)) /\ Range(c) = Range(testcache) \cap S
        BY <3>2, AmongElements
      <3>5. IsSeq(c)
        <4> HIDE DEF c
        <4> QED BY <3>4, SeqOfRange DEF IsSeq
      <3> QED BY <2>1, <3>1, <3>3, <3>4, <3>5
    <2>3. CASE ~job[p].args.cache
      <3>1. Found(p, k) = WalkWeb(k)
        BY <2>3 DEF Found
      <3>2. IsSeq(WalkWeb(k)) /\ Range(WalkWeb(k)) = S
        BY WalkSeq
      <3> QED BY <2>1, <3>1, <3>2
    <2> QED BY <2>2, <2>3
  <1>3. SumInv(p)'
    <2>1. SUFFICES ASSUME Summing(p)' PROVE SumInv(p)'
      BY DEF SumInv
    <2> DEFINE k == Head(job[p].targets)[2]
    <2>2. /\ job'[p].targets = job[p].targets /\ job'[p].list = <<>>
          /\ job'[p].todo = Found(p, k) /\ Head(job[p].targets)[1] = "kernel"
      BY <2>1, NextSummary DEF Summing, Listing
    <2>3. IsSeq(job'[p].todo) /\ IsSeq(job'[p].list)
      BY <1>2, <2>2 DEF IsSeq
    <2>4. \A mt \in Mine(job'[p]) :
            OutDir(mt).kernel = Head(job'[p].targets)[2] => OutDir(mt) \in ToSee(p)'
      BY <1>1, <1>2, <2>2, SameMine DEF ToSee, Works, AtWork
    <2> QED BY <2>3, <2>4 DEF SumInv
  <1> QED BY <1>1, <1>3, OthersSum DEF Works, AtWork

(* A multitest that has been read is in the summary or had no figures. *)
LEMMA ReadSums ==
  ASSUME RIInv, SumsInv, NEW p \in Proc, ReadSummary(p), ~Leave(p)
  PROVE  SumsInv'
  <1> USE Fields_ DEF RIInv, RTypeOK
  <1> DEFINE f == Head(job[p].todo)
             entry == [of |-> f, fig |-> info(web[f].sum)]
  <1>1. UNCHANGED overview /\ job[p].todo # <<>>
    BY DEF ReadSummary, shared
  <1>2. \/ job' = [job EXCEPT ![p].todo = Tail(@), ![p].got = @ \cup {f}]
        \/ \E det : job' = [job EXCEPT ![p].todo = Tail(@), ![p].det = det,
                                      ![p].list = Append(@, entry)]
    BY Zenon DEF ReadSummary
  <1>3. entry.of = f
    OBVIOUS
  <1> HIDE DEF f, entry
  <1>4. /\ Alone(p) /\ job'[p].step = job[p].step /\ job'[p].args = job[p].args
        /\ job'[p].skipped = job[p].skipped
        /\ job'[p].targets = job[p].targets /\ job'[p].todo = Tail(job[p].todo)
        /\ \/ job'[p].list = job[p].list /\ job'[p].got = job[p].got \cup {f}
           \/ job'[p].list = Append(job[p].list, entry) /\ job'[p].got = job[p].got
    <2>1. CASE job' = [job EXCEPT ![p].todo = Tail(@), ![p].got = @ \cup {f}]
      BY <2>1 DEF Alone, Fields
    <2>2. ASSUME NEW det, job' = [job EXCEPT ![p].todo = Tail(@), ![p].det = det,
                                             ![p].list = Append(@, entry)]
          PROVE  /\ Alone(p) /\ job'[p].step = job[p].step /\ job'[p].args = job[p].args
                 /\ job'[p].skipped = job[p].skipped
                 /\ job'[p].targets = job[p].targets /\ job'[p].todo = Tail(job[p].todo)
                 /\ job'[p].list = Append(job[p].list, entry) /\ job'[p].got = job[p].got
      BY <2>2 DEF Alone, Fields
    <2> QED BY <1>2, <2>1, <2>2
  <1>5. SumInv(p)'
    <2>1. SUFFICES ASSUME Summing(p)' PROVE SumInv(p)'
      BY DEF SumInv
    <2>2. Summing(p) /\ job[p].step = "sumread"
      BY <1>4, <2>1 DEF Summing, ReadSummary, Listing
    <2>3. IsSeq(job[p].todo) /\ IsSeq(job[p].list)
      BY <2>2 DEF SumsInv, SumInv
    <2>4. IsSeq(Tail(job[p].todo)) /\ Range(job[p].todo) \subseteq {f} \cup Range(Tail(job[p].todo))
      <3> DEFINE s == job[p].todo
      <3>1. s \in Seq(Range(s)) /\ s # <<>>
        BY <1>1, <2>3 DEF IsSeq
      <3>2. f = s[1]
        BY <3>1 DEF f
      <3> HIDE DEF s
      <3>3. Tail(s) \in Seq(Range(s))
        BY <3>1
      <3>4. \A i \in DOMAIN s : i = 1 \/ (i - 1 \in DOMAIN Tail(s) /\ Tail(s)[i - 1] = s[i])
        BY <3>1
      <3>5. IsSeq(Tail(s))
        BY <3>3, SeqOfRange DEF IsSeq
      <3>6. Range(s) \subseteq {f} \cup Range(Tail(s))
        <4> DEFINE t == Tail(s)
        <4>1. \A i \in DOMAIN s : i = 1 \/ (i - 1 \in DOMAIN t /\ t[i - 1] = s[i])
          BY <3>4
        <4> HIDE DEF t
        <4>2. ASSUME NEW i \in DOMAIN s PROVE s[i] \in {f} \cup {t[j] : j \in DOMAIN t}
          BY <3>2, <4>1
        <4> QED BY <4>2 DEF Range, t
      <3> QED BY <3>5, <3>6 DEF s
    <2>5. /\ IsSeq(job'[p].list)
          /\ {e.of : e \in Range(job[p].list)} \subseteq {e.of : e \in Range(job'[p].list)}
          /\ f \in {e.of : e \in Range(job'[p].list)} \cup job'[p].got
      <3>1. CASE job'[p].list = job[p].list /\ job'[p].got = job[p].got \cup {f}
        BY <2>3, <3>1
      <3>2. CASE job'[p].list = Append(job[p].list, entry)
        <4> DEFINE s == job[p].list
                   T == Range(s) \cup {entry}
        <4>1. s \in Seq(Range(s))
          BY <2>3 DEF IsSeq
        <4>2. s \in Seq(T) /\ entry \in T
          BY <4>1
        <4> HIDE DEF s, T
        <4>3. Append(s, entry) \in Seq(T)
          BY <4>2
        <4>4. Range(s) \subseteq Range(Append(s, entry)) /\ entry \in Range(Append(s, entry))
          <5> DEFINE n == Len(s)
          <5>1. n \in Nat /\ DOMAIN s = 1..n /\ DOMAIN Append(s, entry) = 1..(n + 1)
                /\ Append(s, entry)[n + 1] = entry
                /\ \A i \in 1..n : Append(s, entry)[i] = s[i]
            BY <4>2
          <5> HIDE DEF n
          <5> QED BY <5>1 DEF Range
        <4>5. IsSeq(Append(s, entry))
          BY <4>3, SeqOfRange DEF IsSeq
        <4> QED BY <1>3, <3>2, <4>4, <4>5 DEF s
      <3> QED BY <1>4, <3>1, <3>2
    <2>6. ToSee(p) \subseteq ToSee(p)'
      <3>1. job[p].got \subseteq job'[p].got
        BY <1>4
      <3> QED BY <1>4, <2>2, <2>4, <2>5, <3>1 DEF ToSee, SeenIn
    <2> QED BY <1>4, <2>2, <2>4, <2>5, <2>6, SameMine DEF SumInv, SumsInv
  <1> QED BY <1>1, <1>4, <1>5, OthersSum

(* The summary is written when all has been read. *)
LEMMA WrittenSums ==
  ASSUME RIInv, SumsInv, NEW p \in Proc, SummaryWrite(p)
  PROVE  SumsInv'
  <1> USE Fields_ DEF RIInv, RTypeOK
  <1> DEFINE key == Head(job[p].targets)
  <1>1. /\ job' = [job EXCEPT ![p].step = "summary", ![p].targets = Tail(@), ![p].list = <<>>,
                              ![p].got = {}]
        /\ job[p].step = "sumread" /\ job[p].todo = <<>>
    BY DEF SummaryWrite
  <1>2. PICK s : /\ s.args = job[p].args /\ s.skipped = job[p].skipped
                 /\ s.blank = job[p].got /\ s.list = job[p].list
                 /\ UNCHANGED overview \/ overview' = Put(overview, key, s)
    <2> DEFINE dev == FoldLeft(LAMBDA a, e : MergeDevice(a, e.fig.dev),
                               [count |-> 0, total |-> 0, worst |-> 0], job[p].list)
               s == [args |-> job[p].args, skipped |-> job[p].skipped,
                     blank |-> job[p].got, list |-> job[p].list, dev |-> dev]
    <2>1. UNCHANGED overview \/ overview' = Put(overview, key, s)
      BY Zenon DEF SummaryWrite
    <2> HIDE DEF dev
    <2>2. /\ s.args = job[p].args /\ s.skipped = job[p].skipped
          /\ s.blank = job[p].got /\ s.list = job[p].list
      OBVIOUS
    <2> QED BY <2>1, <2>2
  <1>3. Alone(p) /\ job'[p].step = "summary"
    BY <1>1 DEF Alone, Fields
  <1>4. \A q \in Proc : SumInv(q)'
    <2>1. ASSUME NEW q \in Proc, q # p PROVE SumInv(q)'
      <3>1. job'[q] = job[q] /\ SumInv(q)
        BY <1>3, <2>1 DEF Alone, SumsInv
      <3> QED BY <3>1 DEF SumInv, Summing, Listing, ToSee, SeenIn
    <2>2. SumInv(p)'
      BY <1>3 DEF SumInv, Summing, Listing
    <2> QED BY <2>1, <2>2
  <1>5. ASSUME key[1] = "kernel", NEW mt \in Mine(s), OutDir(mt).kernel = key[2]
        PROVE  OutDir(mt) \in SeenIn(s)
    <2>1. Summing(p) /\ SumInv(p)
      BY <1>1, <1>5 DEF Summing, SumsInv
    <2>2. OutDir(mt) \in ToSee(p)
      BY <1>2, <1>5, <2>1 DEF SumInv, Mine
    <2> QED BY <1>1, <1>2, <2>2 DEF ToSee, SeenIn, Range
  <1>6. WorkSummed'
    <2>1. CASE UNCHANGED overview
      BY <2>1 DEF SumsInv, WorkSummed, SeenIn
    <2>2. CASE overview' = Put(overview, key, s)
      <3> HIDE DEF key
      <3>1. ASSUME NEW k \in DOMAIN overview', k[1] = "kernel", NEW mt \in Mine(overview'[k]),
                   OutDir(mt).kernel = k[2]
            PROVE  OutDir(mt) \in SeenIn(overview'[k])
        <4>1. CASE k = key
          BY <1>5, <2>2, <3>1, <4>1 DEF Put
        <4>2. CASE k # key
          <5>1. k \in DOMAIN overview /\ overview'[k] = overview[k]
            BY <2>2, <4>2 DEF Put
          <5> QED BY <3>1, <5>1 DEF SumsInv, WorkSummed
        <4> QED BY <4>1, <4>2
      <3> QED BY <3>1 DEF WorkSummed, SeenIn
    <2> QED BY <1>2, <2>1, <2>2
  <1> QED BY <1>4, <1>6 DEF SumsInv

(* Every step keeps what the summaries are to show. *)
LEMMA SumsStep ==
  ASSUME IInv, RIInv, SafeInv, FindInv, SumsInv, NEW p \in Proc, RStep(p)
  PROVE  SumsInv'
  <1>1. CASE \/ Start(p) \/ Try(p) \/ WaitOne(p) \/ Crash(p) \/ Trash(p)
             \/ Leave(p) /\ (Unpack(p) \/ Find(p) \/ ReportsDone(p))
             \/ Leave(p) /\ (ReadSummary(p) \/ Summary(p))
    BY <1>1, RestNoSummary, NoSummarySums
  <1>2. CASE \/ (Unpack(p) \/ Find(p)) /\ ~Leave(p)
             \/ Timelines(p) \/ Skip(p) \/ Copy(p) \/ Categorize(p) \/ Link(p)
    BY <1>2, SortNoSummary, NoSummarySums
  <1>3. CASE \/ Report(p) \/ ReportWrite(p) \/ (ReportsDone(p) /\ ~Leave(p)) \/ CatSumDone(p)
             \/ DataRead(p) \/ DataOpen(p) \/ DataLock(p) \/ DataFlush(p)
    BY <1>3, WorkNoSummary, NoSummarySums, Zenon
  <1>4. CASE CacheRead(p) \/ CacheAppend(p)
    BY <1>4, ListingSums
  <1>5. CASE (Summary(p) \/ ReadSummary(p)) /\ ~Leave(p)
    BY <1>5, NextSums, ReadSums
  <1>6. CASE SummaryWrite(p)
    BY <1>6, WrittenSums
  <1> QED BY <1>1, <1>2, <1>3, <1>4, <1>5, <1>6 DEF RStep

(* So does a step that changes nothing. *)
LEMMA SumsStutter ==
  ASSUME SumsInv, UNCHANGED rvars
  PROVE  SumsInv'
  <1>1. UNCHANGED <<job, overview>>
    BY DEF rvars, shared
  <1> QED BY <1>1 DEF SumsInv, SumInv, Summing, Listing, ToSee, SeenIn, WorkSummed

-----------------------------------------------------------------------------
(* Recursion over a number and folds over a set.                           *)

(* What starts in its set and goes from each set to the next is in all of them. *)
LEMMA Upward ==
  ASSUME NEW n \in Nat, NEW f, NEW V, f[0] \in V[0],
         \A i \in 1..n : f[i - 1] \in V[i - 1] => f[i] \in V[i]
  PROVE  \A i \in 0..n : f[i] \in V[i]
  <1> DEFINE Right == {k \in Nat : k \in 0..n => f[k] \in V[k]}
  <1>1. 0 \in Right
    OBVIOUS
  <1>2. ASSUME NEW k \in Nat, k \in Right PROVE k + 1 \in Right
    <2>1. k + 1 \in 0..n => k \in 0..n /\ k + 1 \in 1..n /\ (k + 1) - 1 = k
      OBVIOUS
    <2> QED BY <1>2, <2>1
  <1>3. Nat \subseteq Right
    <2> HIDE DEF Right
    <2> QED BY <1>1, <1>2, NatInd
  <1> QED BY <1>3

\* f is the function over 0..n that starts with b and takes the steps F; it stays in
\* the sets V, as the steps do.
Recursive(f, n, b, F) == f = [i \in 0..n |-> IF i = 0 THEN b ELSE F[<<i, f[i - 1]>>]]
StaysIn(f, n, V) == \A i \in 0..n : f[i] \in V[i]
StepsIn(F, n, V) == \A i \in 1..n : \A v \in V[i - 1] : F[<<i, v>>] \in V[i]

(* Steps that go from each set to the next have their recursive function. *)
LEMMA Recursion ==
  ASSUME NEW n \in Nat, NEW V, NEW b, b \in V[0], NEW F, StepsIn(F, n, V)
  PROVE  \E f : Recursive(f, n, b, F) /\ StaysIn(f, n, V)
  <1>0. \A i \in 1..n : \A v \in V[i - 1] : F[<<i, v>>] \in V[i]
    BY Zenon DEF StepsIn
  <1> DEFINE Upto(k, f) ==
               /\ f = [i \in 0..n |-> f[i]]
               /\ \A i \in 0..n : i <= k =>
                    f[i] \in V[i] /\ f[i] = IF i = 0 THEN b ELSE F[<<i, f[i - 1]>>]
             Reached == {k \in Nat : k <= n => \E f : Upto(k, f)}
  <1>1. 0 \in Reached
    <2>1. Upto(0, [i \in 0..n |-> b])
      OBVIOUS
    <2> HIDE DEF Upto
    <2> QED BY <2>1
  <1>2. ASSUME NEW k \in Nat, k \in Reached PROVE k + 1 \in Reached
    <2> HIDE DEF Upto
    <2>1. SUFFICES ASSUME k + 1 <= n PROVE \E f : Upto(k + 1, f)
      OBVIOUS
    <2>2. PICK f : Upto(k, f)
      BY <1>2, <2>1
    <2> USE DEF Upto
    <2>3. k \in 0..n /\ k + 1 \in 1..n /\ (k + 1) - 1 = k
      BY <2>1
    <2> DEFINE v == F[<<k + 1, f[k]>>]
               g == [i \in 0..n |-> IF i = k + 1 THEN v ELSE f[i]]
    <2>4. v \in V[k + 1]
      <3>1. f[k] \in V[(k + 1) - 1]
        <4>1. f[k] \in V[k]
          <5>1. k <= k
            OBVIOUS
          <5> QED BY <2>2, <2>3, <5>1, Zenon
        <4> QED BY <2>3, <4>1
      <3>2. \A u \in V[(k + 1) - 1] : F[<<k + 1, u>>] \in V[k + 1]
        BY <1>0, <2>3, Zenon
      <3> QED BY <3>1, <3>2
    <2>5. g = [i \in 0..n |-> g[i]] /\ g[k + 1] = v /\ \A i \in 0..n : i # k + 1 => g[i] = f[i]
      <3> HIDE DEF v
      <3> QED BY <2>1
    <2>6. ASSUME NEW i \in 0..n, i <= k + 1
          PROVE  g[i] \in V[i] /\ g[i] = IF i = 0 THEN b ELSE F[<<i, g[i - 1]>>]
      <3> HIDE DEF g, v
      <3>1. CASE i = k + 1
        <4>1. g[k] = f[k] /\ k = i - 1 /\ i # 0
          BY <2>1, <2>5, <3>1
        <4> QED BY <2>4, <2>5, <3>1, <4>1 DEF v
      <3>2. CASE i <= k
        <4>1. g[i] = f[i] /\ (i # 0 => g[i - 1] = f[i - 1])
          BY <2>5, <3>2
        <4> QED BY <2>2, <3>2, <4>1
      <3> QED BY <2>6, <3>1, <3>2
    <2>7. Upto(k + 1, g)
      <3> HIDE DEF g
      <3> QED BY <2>5, <2>6
    <2> HIDE DEF Upto, g
    <2> QED BY <2>7
  <1>3. PICK f : Upto(n, f)
    <2> HIDE DEF Upto
    <2>1. Nat \subseteq Reached
      <3> HIDE DEF Reached
      <3> QED BY <1>1, <1>2, NatInd
    <2> QED BY <2>1
  <1>4. f = [i \in 0..n |-> IF i = 0 THEN b ELSE F[<<i, f[i - 1]>>]]
    BY <1>3, SMTT(30)
  <1>5. \A i \in 0..n : f[i] \in V[i]
    <2>1. \A i \in 0..n : i <= n
      OBVIOUS
    <2> QED BY <1>3, <2>1, Zenon
  <1> HIDE DEF Upto
  <1> QED BY <1>4, <1>5, Zenon DEF Recursive, StaysIn

(* Induction over the subsets of a finite set, for a set of them. *)
LEMMA SubsetInd ==
  ASSUME NEW S, IsFiniteSet(S), NEW P, {} \in P,
         \A T \in SUBSET S : \A x \in T : T \ {x} \in P => T \in P
  PROVE  \A T \in SUBSET S : T \in P
  <1> DEFINE Right == {n \in Nat : \A T \in SUBSET S : Cardinality(T) = n => T \in P}
  <1>1. 0 \in Right
    <2>1. \A T \in SUBSET S : Cardinality(T) = 0 => T = {}
      BY FS_Subset, FS_EmptySet
    <2> QED BY <2>1
  <1>2. ASSUME NEW n \in Nat, n \in Right PROVE n + 1 \in Right
    <2>1. SUFFICES ASSUME NEW T \in SUBSET S, Cardinality(T) = n + 1 PROVE T \in P
      OBVIOUS
    <2>2. IsFiniteSet(T)
      BY FS_Subset
    <2>3. PICK x : x \in T
      <3>1. T # {}
        BY <2>1, FS_EmptySet
      <3> QED BY <3>1
    <2>4. Cardinality(T \ {x}) = n
      <3>1. Cardinality(T \ {x}) = Cardinality(T) - 1
        BY <2>2, <2>3, FS_RemoveElement
      <3> QED BY <2>1, <3>1
    <2>5. T \ {x} \in P
      <3>1. T \ {x} \in SUBSET S
        OBVIOUS
      <3> QED BY <1>2, <2>4, <3>1
    <2> QED BY <2>3, <2>5
  <1>3. Nat \subseteq Right
    <2> HIDE DEF Right
    <2> QED BY <1>1, <1>2, NatInd
  <1>4. ASSUME NEW T \in SUBSET S PROVE T \in P
    <2>1. Cardinality(T) \in Nat
      BY FS_Subset, FS_CardinalityType
    <2> QED BY <1>3, <2>1
  <1> QED BY <1>4

(* The least of a finite set of numbers, and the largest. *)
LEMMA Extremes ==
  ASSUME NEW S, S \subseteq Nat, S # {}, IsFiniteSet(S)
  PROVE  /\ Min(S) \in S /\ \A k \in S : Min(S) <= k
         /\ Max(S) \in S /\ \A k \in S : k <= Max(S)
  <1>1. \E m \in S : \A k \in S : m <= k
    BY NatMin
  <1>2. \E m \in S : \A k \in S : m >= k
    <2>1. PICK n \in Nat : \A k \in S : k <= n
      <3> DEFINE P == {T \in SUBSET S : \E n \in Nat : \A k \in T : k <= n}
      <3>1. {} \in P
        OBVIOUS
      <3>2. ASSUME NEW T \in SUBSET S, NEW x \in T, T \ {x} \in P PROVE T \in P
        <4>1. PICK n \in Nat : \A k \in T \ {x} : k <= n
          BY <3>2
        <4>2. CASE x <= n
          BY <4>1, <4>2
        <4>3. CASE ~(x <= n)
          <5>1. x \in Nat /\ \A k \in T : k <= x
            BY <4>1, <4>3
          <5> QED BY <5>1
        <4> QED BY <4>2, <4>3
      <3>3. S \in P
        <4> HIDE DEF P
        <4> QED BY <3>1, <3>2, SubsetInd
      <3> QED BY <3>3
    <2> DEFINE D == {n - k : k \in S}
    <2>2. D \subseteq Nat /\ D # {}
      <3>1. \A k \in S : k \in Nat /\ n - k \in Nat
        BY <2>1
      <3> QED BY <3>1
    <2>3. PICK d \in D : \A e \in D : d <= e
      <3> HIDE DEF D
      <3> QED BY <2>2, NatMin
    <2>4. PICK m \in S : d = n - m
      OBVIOUS
    <2>5. \A k \in S : n - m <= n - k
      BY <2>3, <2>4
    <2> QED BY <2>4, <2>5
  <1> QED BY <1>1, <1>2 DEF Min, Max

\* f is the function over the subsets of S that starts with b and takes the steps G,
\* each time without the element that c chooses; it stays in the sets V, as the
\* steps do.
Without(c, s) == s \ {c[s]}
FoldedBy(f, S, b, c, G) ==
  f = [s \in SUBSET S |-> IF s = {} THEN b ELSE G[<<s, f[Without(c, s)]>>]]
StaysOver(f, S, V) == \A s \in SUBSET S : f[s] \in V[s]
StepsOver(G, S, c, V) ==
  \A s \in SUBSET S : s # {} => c[s] \in s /\ \A v \in V[Without(c, s)] : G[<<s, v>>] \in V[s]

(* Steps that go from each set without an element on have their recursive function. *)
LEMMA Folding ==
  ASSUME NEW S, IsFiniteSet(S), NEW V, NEW b, b \in V[{}], NEW c, NEW G,
         StepsOver(G, S, c, V)
  PROVE  \E f : FoldedBy(f, S, b, c, G) /\ StaysOver(f, S, V)
  <1>0. \A s \in SUBSET S : s # {} =>
          c[s] \in s /\ \A v \in V[Without(c, s)] : G[<<s, v>>] \in V[s]
    BY Zenon DEF StepsOver
  <1> DEFINE Step(f, s) == IF s = {} THEN b ELSE G[<<s, f[Without(c, s)]>>]
             Upto(k, f) ==
               /\ f = [s \in SUBSET S |-> f[s]]
               /\ \A s \in SUBSET S : Cardinality(s) <= k => f[s] \in V[s] /\ f[s] = Step(f, s)
             Reached == {k \in Nat : \E f : Upto(k, f)}
  <1>1. \A s \in SUBSET S : /\ IsFiniteSet(s) /\ Cardinality(s) \in Nat
                            /\ Cardinality(s) = 0 <=> s = {}
                            /\ Cardinality(s) <= Cardinality(S)
    BY FS_Subset, FS_EmptySet, FS_CardinalityType
  <1>2. ASSUME NEW s \in SUBSET S, s # {}
        PROVE  /\ Without(c, s) \in SUBSET S
               /\ Cardinality(Without(c, s)) = Cardinality(s) - 1
    BY <1>0, <1>1, <1>2, FS_RemoveElement DEF Without
  <1>3. 0 \in Reached
    <2> DEFINE f == [s \in SUBSET S |-> b]
    <2>1. \A s \in SUBSET S : Cardinality(s) <= 0 => s = {}
      BY <1>1
    <2>2. Upto(0, f)
      BY <2>1
    <2> HIDE DEF Upto
    <2> QED BY <2>2
  <1>4. ASSUME NEW k \in Nat, k \in Reached PROVE k + 1 \in Reached
    <2> HIDE DEF Upto
    <2>1. PICK f : Upto(k, f)
      BY <1>4
    <2>2. \A s \in SUBSET S : Cardinality(s) <= k => f[s] \in V[s] /\ f[s] = Step(f, s)
      BY <2>1, Zenon DEF Upto
    <2> DEFINE g == [s \in SUBSET S |-> Step(f, s)]
    <2>3. g = [s \in SUBSET S |-> g[s]] /\ \A s \in SUBSET S : g[s] = Step(f, s)
      OBVIOUS
    <2>4. \A s \in SUBSET S : Cardinality(s) <= k => g[s] = f[s]
      BY <2>2, <2>3
    <2>5. ASSUME NEW s \in SUBSET S, Cardinality(s) <= k + 1
          PROVE  g[s] \in V[s] /\ g[s] = Step(g, s)
      <3> HIDE DEF g
      <3>1. CASE s = {}
        BY <2>3, <3>1
      <3>2. CASE s # {}
        <4> DEFINE r == Without(c, s)
        <4>1. r \in SUBSET S /\ Cardinality(r) <= k
          BY <1>1, <1>2, <2>5, <3>2
        <4>2. g[r] = f[r] /\ f[r] \in V[r]
          BY <2>2, <2>4, <4>1
        <4>3. g[s] = G[<<s, f[r]>>]
          BY <2>3, <3>2
        <4>4. G[<<s, f[r]>>] \in V[s]
          BY <1>0, <3>2, <4>2
        <4> QED BY <3>2, <4>2, <4>3, <4>4
      <3> QED BY <3>1, <3>2
    <2>6. Upto(k + 1, g)
      <3> HIDE DEF g, Step
      <3> QED BY <2>3, <2>5, Zenon DEF Upto
    <2> QED BY <2>6
  <1>5. PICK f : Upto(Cardinality(S), f)
    <2> HIDE DEF Upto
    <2>1. Nat \subseteq Reached
      <3> HIDE DEF Reached
      <3> QED BY <1>3, <1>4, NatInd
    <2> QED BY <1>1, <2>1
  <1>6. \A s \in SUBSET S : f[s] \in V[s] /\ f[s] = Step(f, s)
    <2> HIDE DEF Step
    <2> QED BY <1>1, <1>5, Zenon
  <1>7. f = [s \in SUBSET S |-> Step(f, s)]
    <2>1. f = [s \in SUBSET S |-> f[s]]
      BY <1>5, Zenon
    <2> HIDE DEF Step
    <2> QED BY <1>6, <2>1, Zenon
  <1> HIDE DEF Upto
  <1> QED BY <1>6, <1>7, Zenon DEF FoldedBy, StaysOver

(* What starts in its set and goes from each set without an element on stays in V. *)
LEMMA Folded ==
  ASSUME NEW S, IsFiniteSet(S), NEW V, NEW f, f[{}] \in V[{}], NEW c,
         \A s \in SUBSET S : s # {} =>
           c[s] \in s /\ (f[Without(c, s)] \in V[Without(c, s)] => f[s] \in V[s])
  PROVE  StaysOver(f, S, V)
  <1> DEFINE P == {s \in SUBSET S : f[s] \in V[s]}
             Right == {n \in Nat : \A s \in SUBSET S : Cardinality(s) = n => s \in P}
  <1>1. \A s \in SUBSET S : /\ IsFiniteSet(s) /\ Cardinality(s) \in Nat
                            /\ Cardinality(s) = 0 <=> s = {}
    BY FS_Subset, FS_EmptySet, FS_CardinalityType
  <1>2. 0 \in Right
    BY <1>1
  <1>3. ASSUME NEW k \in Nat, k \in Right PROVE k + 1 \in Right
    <2>1. ASSUME NEW s \in SUBSET S, Cardinality(s) = k + 1 PROVE s \in P
      <3>1. s # {} /\ c[s] \in s
        BY <1>1, <2>1
      <3> DEFINE r == Without(c, s)
      <3>2. r \in SUBSET S /\ Cardinality(r) = k
        <4>1. Cardinality(r) = Cardinality(s) - 1
          BY <1>1, <3>1, FS_RemoveElement DEF Without
        <4> QED BY <2>1, <4>1 DEF Without
      <3>3. r \in P
        BY <1>3, <3>2
      <3> QED BY <3>1, <3>3
    <2> QED BY <2>1
  <1>4. Nat \subseteq Right
    <2> HIDE DEF Right
    <2> QED BY <1>2, <1>3, NatInd
  <1> QED BY <1>1, <1>4 DEF StaysOver

(* The ranks of the numbers of a finite set are those from 1 to their count. *)
LEMMA Ranks ==
  ASSUME NEW S, S \subseteq Nat, IsFiniteSet(S), NEW i \in 1..Cardinality(S)
  PROVE  \E v \in S : Cardinality({w \in S : w < v}) = i - 1
  <1> DEFINE n == Cardinality(S)
             Below(v) == {w \in S : w < v}
             r == [v \in S |-> Cardinality(Below(v)) + 1]
  <1>1. n \in Nat
    BY FS_CardinalityType
  <1>2. ASSUME NEW v \in S
        PROVE  IsFiniteSet(Below(v)) /\ Cardinality(Below(v)) \in Nat
    BY FS_Subset, FS_CardinalityType
  <1>3. ASSUME NEW v \in S PROVE Cardinality(Below(v)) < n
    <2>1. Below(v) \in SUBSET S /\ v \in S /\ v \notin Below(v)
      OBVIOUS
    <2>2. Cardinality(Below(v)) <= n /\ Cardinality(Below(v)) # n
      BY <2>1, FS_Subset
    <2> QED BY <1>1, <1>2, <2>2
  <1>4. ASSUME NEW u \in S, NEW v \in S, u < v
        PROVE  Cardinality(Below(u)) < Cardinality(Below(v))
    <2>1. Below(u) \in SUBSET Below(v) /\ u \in Below(v) /\ u \notin Below(u)
      <3>1. u \in Nat /\ v \in Nat /\ \A w \in S : w \in Nat
        OBVIOUS
      <3>2. \A w \in S : w < u => w < v
        BY <1>4, <3>1
      <3>3. ~(u < u)
        BY <3>1
      <3> QED BY <1>4, <3>2, <3>3
    <2>2. Cardinality(Below(u)) <= Cardinality(Below(v))
          /\ Cardinality(Below(u)) # Cardinality(Below(v))
      <3> HIDE DEF Below
      <3> QED BY <1>2, <2>1, FS_Subset
    <2> QED BY <1>2, <2>2
  <1>5. r \in Injection(S, 1..n)
    <2> HIDE DEF Below, n
    <2>1. r \in [S -> 1..n]
      BY <1>1, <1>2, <1>3
    <2>2. \A u, v \in S : r[u] = r[v] => u = v
      <3>1. ASSUME NEW u \in S, NEW v \in S, u < v PROVE r[u] # r[v]
        BY <1>2, <1>4, <3>1
      <3>2. \A u, v \in S : u < v \/ v < u \/ u = v
        OBVIOUS
      <3> HIDE DEF r
      <3> QED BY <3>1, <3>2
    <2> HIDE DEF r
    <2> QED BY <2>1, <2>2 DEF Injection, IsInjective
  <1>6. IsFiniteSet(1..n) /\ Cardinality(1..n) = n
    BY <1>1, FS_Interval
  <1>7. r \in Surjection(S, 1..n)
    <2> HIDE DEF r
    <2> QED BY <1>5, <1>6, FS_Injection
  <1>8. PICK v \in S : r[v] = i
    <2> HIDE DEF r
    <2> QED BY <1>7 DEF Surjection
  <1>9. Cardinality(Below(v)) + 1 = i /\ Cardinality(Below(v)) \in Nat
    BY <1>2, <1>8
  <1>10. Cardinality(Below(v)) = i - 1
    <2> HIDE DEF Below
    <2> QED BY <1>9
  <1> QED BY <1>10

(* The numbers of a finite set in ascending order. *)
LEMMA AscendingSeq ==
  ASSUME NEW S, S \subseteq Nat, IsFiniteSet(S)
  PROVE  /\ Ascending(S) \in Seq(S) /\ Len(Ascending(S)) = Cardinality(S)
         /\ DOMAIN Ascending(S) = 1..Cardinality(S)
  <1>1. Cardinality(S) \in Nat
    BY FS_CardinalityType
  <1> DEFINE q == Ascending(S)
             n == Cardinality(S)
  <1> DEFINE At(i) == CHOOSE v \in S : Cardinality({w \in S : w < v}) = i - 1
  <1>2. q = [i \in 1..n |-> At(i)]
    BY Zenon DEF Ascending
  <1>3. ASSUME NEW i \in 1..n PROVE At(i) \in S
    <2>1. \E v \in S : Cardinality({w \in S : w < v}) = i - 1
      BY Ranks
    <2> QED BY <2>1, Zenon
  <1> HIDE DEF q, n, At
  <1>4. q \in [1..n -> S] /\ n \in Nat
    BY <1>1, <1>2, <1>3 DEF n
  <1> QED BY <1>4 DEF q, n

-----------------------------------------------------------------------------
(* The tests of a folder, and what is reported on them.                    *)

\* What a test folder says of its test.
Outcome(t) == IF t.html = "good" THEN IF t.pass THEN "pass" ELSE "fail"
              ELSE IF t.net THEN "hang" ELSE "error"

\* The words W that the rows of tests may hold.
Speaks(W, t) ==
  /\ {NoName, "ms", "NETLOST"} \subseteq W /\ t.desc \in [Keys -> W]
  /\ {baseMode(t.desc["mode"]), t.msg, t.lpi, t.wifi} \subseteq W
Row(W) == [desc : [Keys -> W], result : Results \cup {NoName}, suspend : Nat,
           resume : Nat, dev : Nat, msg : W, lpi : W, wifi : W]

\* A row that says what the test did.
RowRight(t, row) ==
  /\ row.result = Outcome(t)
  /\ row.result = "pass" => row.suspend > 0 /\ row.resume > 0

(* The results have names. *)
LEMMA ResultNames == \A r \in Results : r # NoName
  <1>1. "pass" # NoName /\ "fail" # NoName /\ "hang" # NoName /\ "error" # NoName
    BY Zenon DEF NoName
  <1> QED BY <1>1 DEF Results

(* A mode that is told has a name. *)
LEMMA ModeNames == \A m : m # NoName => baseMode(m) # NoName
  <1>1. "freeze" # NoName /\ "mem" # NoName
    BY Zenon DEF NoName
  <1> QED BY <1>1 DEF baseMode

(* The file of a test that is read: its html if there is one, else its log. *)
LEMMA FileOfTest ==
  ASSUME NEW t, IsTest(t)
  PROVE  data_from_test(t, HtmlFirst) =
           IF t.html = "good" THEN [ok |-> TRUE, data |-> FullMode(data_from_html(t))]
           ELSE IF t.html = "none" /\ t.log = "good"
           THEN [ok |-> TRUE, data |-> FullMode(data_from_dmesg(t))]
           ELSE [ok |-> FALSE, data |-> NoData]
  <1> DEFINE there == {i \in DOMAIN HtmlFirst : t[HtmlFirst[i]] # "none"}
             r == data_from_test(t, HtmlFirst)
             src == HtmlFirst[Min(there)]
             d == IF src = "html" THEN data_from_html(t) ELSE data_from_dmesg(t)
  <1>1. r = IF there = {} \/ t[src] = "bad" THEN [ok |-> FALSE, data |-> NoData]
            ELSE [ok |-> TRUE, data |-> FullMode(d)]
    BY Zenon DEF data_from_test
  <1>2. there = {i \in {1, 2} : (i = 1 /\ t.html # "none") \/ (i = 2 /\ t.log # "none")}
    BY DEF HtmlFirst
  <1>3. /\ t.html # "none" => there # {} /\ src = "html"
        /\ t.html = "none" /\ t.log # "none" => there # {} /\ src = "log"
        /\ t.html = "none" /\ t.log = "none" => there = {}
    <2> HIDE DEF there
    <2>1. ASSUME t.html # "none" PROVE Min(there) = 1 /\ there # {}
      <3>1. 1 \in there /\ \A y \in there : 1 <= y
        BY <1>2, <2>1
      <3>2. \A x \in there : (\A y \in there : x <= y) => x = 1
        BY <1>2, <3>1
      <3> QED BY <3>1, <3>2, Zenon DEF Min
    <2>2. ASSUME t.html = "none", t.log # "none" PROVE Min(there) = 2 /\ there # {}
      <3>1. there = {2}
        BY <1>2, <2>2
      <3> QED BY <3>1 DEF Min
    <2>3. HtmlFirst[1] = "html" /\ HtmlFirst[2] = "log"
      BY DEF HtmlFirst
    <2>4. t.html = "none" /\ t.log = "none" => there = {}
      BY <1>2
    <2> QED BY <2>1, <2>2, <2>3, <2>4
  <1>4. t.html \in {"none", "bad", "good"} /\ t.log \in {"none", "bad", "good"}
    BY DEF IsTest, FileStates
  <1>5. t["html"] = t.html /\ t["log"] = t.log
    OBVIOUS
  <1> HIDE DEF there, src, r
  <1>6. r = IF t.html = "good" THEN [ok |-> TRUE, data |-> FullMode(data_from_html(t))]
            ELSE IF t.html = "none" /\ t.log = "good"
            THEN [ok |-> TRUE, data |-> FullMode(data_from_dmesg(t))]
            ELSE [ok |-> FALSE, data |-> NoData]
    BY <1>1, <1>3, <1>4, <1>5
  <1> QED BY <1>6 DEF r

(* What the files of a test say: a html that is good gives the result and the *)
(* times, and what can be read names the kernel and the mode. *)
LEMMA DataOfTest ==
  ASSUME NEW t, IsTest(t), NEW W, Speaks(W, t), NEW r, r = data_from_test(t, HtmlFirst)
  PROVE  /\ r.ok \in BOOLEAN /\ r.data \in Row(W)
         /\ r.data.result = IF t.html = "good" THEN Outcome(t) ELSE NoName
         /\ r.ok => r.data.desc["kernel"] # NoName /\ r.data.desc["fullmode"] # NoName
         /\ t.html = "good" => r.data.suspend > 0 /\ r.data.resume > 0
  <1>1. /\ t.desc \in [Keys -> W] /\ {NoName, "ms", "NETLOST"} \subseteq W
        /\ {baseMode(t.desc["mode"]), t.msg, t.lpi, t.wifi} \subseteq W
        /\ "mode" \in Keys /\ "fullmode" \in Keys /\ "kernel" \in Keys
    BY DEF Speaks, Keys
  <1>2. /\ t.suspend \in Nat /\ t.resume \in Nat /\ t.dev \in Nat
        /\ "good" \in {t.html, t.log} =>
             /\ t.desc["kernel"] # NoName /\ t.desc["mode"] # NoName
             /\ t.suspend > 0 /\ t.resume > 0
    BY DEF IsTest
  <1>3. ASSUME NEW d \in Row(W)
        PROVE  /\ FullMode(d) \in Row(W) /\ FullMode(d).result = d.result
               /\ FullMode(d).suspend = d.suspend /\ FullMode(d).resume = d.resume
               /\ FullMode(d).desc["kernel"] = d.desc["kernel"]
               /\ d.desc["mode"] # NoName => FullMode(d).desc["fullmode"] # NoName
    <2> DEFINE v == IF d.desc["fullmode"] # NoName THEN d.desc["fullmode"] ELSE d.desc["mode"]
               e == [d.desc EXCEPT !["fullmode"] = v]
    <2>1. FullMode(d) = [d EXCEPT !.desc = e]
      BY Zenon DEF FullMode
    <2>2. e \in [Keys -> W] /\ e["kernel"] = d.desc["kernel"] /\ e["fullmode"] = v
      BY <1>1 DEF Row, Keys
    <2>3. d.desc["mode"] # NoName => v # NoName
      OBVIOUS
    <2> HIDE DEF e, v
    <2> QED BY <2>1, <2>2, <2>3 DEF Row
  <1>4. CASE t.html = "good"
    <2> DEFINE d == data_from_html(t)
    <2>1. /\ d \in Row(W) /\ d.result = Outcome(t) /\ d.suspend = t.suspend
          /\ d.resume = t.resume /\ d.desc["kernel"] = t.desc["kernel"]
          /\ d.desc["mode"] = baseMode(t.desc["mode"])
      <3> DEFINE e == [t.desc EXCEPT !["mode"] = baseMode(@)]
                 w == IF t.wifi = "reconnected" THEN "ms" ELSE t.wifi
                 res == IF t.pass THEN "pass" ELSE "fail"
      <3>1. d = [desc |-> e, result |-> res, suspend |-> t.suspend, resume |-> t.resume,
                 dev |-> t.dev, msg |-> t.msg, lpi |-> t.lpi, wifi |-> w]
        <4> DEFINE out == FromHtml(t)
        <4>1. out = [desc |-> t.desc, result |-> res, suspend |-> t.suspend,
                     resume |-> t.resume, dev |-> t.dev, msg |-> t.msg, lpi |-> t.lpi,
                     wifi |-> t.wifi]
          BY DEF FromHtml
        <4>2. d = [out EXCEPT !.desc["mode"] = baseMode(out.desc["mode"]),
                              !.wifi = IF out.wifi = "reconnected" THEN "ms" ELSE out.wifi]
          BY Zenon DEF data_from_html
        <4> HIDE DEF out, d, res
        <4>3. out.desc = t.desc /\ out.wifi = t.wifi
          BY <4>1
        <4>4. d = [out EXCEPT !.desc = e, !.wifi = w]
          BY <4>1, <4>2, <4>3
        <4> HIDE DEF e, w
        <4> QED BY <4>1, <4>4
      <3>2. /\ e \in [Keys -> W] /\ w \in W /\ e["mode"] = baseMode(t.desc["mode"])
            /\ e["kernel"] = t.desc["kernel"]
        BY <1>1 DEF Keys
      <3>3. res \in Results /\ res = Outcome(t)
        BY <1>4 DEF Results, Outcome
      <3> HIDE DEF e, w, res, d
      <3> QED BY <1>1, <1>2, <3>1, <3>2, <3>3 DEF Row
    <2>2. r = [ok |-> TRUE, data |-> FullMode(d)]
      BY <1>4, FileOfTest, Zenon
    <2>3. t.desc["mode"] # NoName /\ t.desc["kernel"] # NoName
      BY <1>2, <1>4
    <2>4. d.desc["mode"] # NoName
      BY <2>1, <2>3, ModeNames
    <2> HIDE DEF d
    <2> QED BY <1>2, <1>3, <1>4, <2>1, <2>2, <2>3, <2>4
  <1>5. NoData \in Row(W) /\ NoData.result = NoName
    BY <1>1 DEF NoData, Row, NoDesc
  <1>6. CASE t.html = "none" /\ t.log = "good"
    <2> DEFINE d == data_from_dmesg(t)
    <2>1. d \in Row(W) /\ d.result = NoName /\ d.desc = t.desc
      <3>1. d = [NoData EXCEPT !.desc = t.desc]
        BY DEF data_from_dmesg
      <3> QED BY <1>1, <1>5, <3>1 DEF Row
    <2>2. r = [ok |-> TRUE, data |-> FullMode(d)]
      BY <1>6, FileOfTest, Zenon
    <2> HIDE DEF d
    <2> QED BY <1>2, <1>3, <1>6, <2>1, <2>2
  <1>7. CASE t.html # "good" /\ ~(t.html = "none" /\ t.log = "good")
    <2>1. r = [ok |-> FALSE, data |-> NoData]
      BY <1>7, FileOfTest, Zenon
    <2> QED BY <1>5, <1>7, <2>1
  <1> QED BY <1>4, <1>6, <1>7

\* Issues among n tests.
Issues(W, n) == UNION {[D -> [count : Nat, tests : SUBSET (1..n)]] : D \in SUBSET W}
State(W, n) == [ok : BOOLEAN, desc : [Keys -> W], rows : Seq(Row(W)), issues : Issues(W, n)]

\* What is known when i tests are read.
OneName(tests, s, i) ==
  i >= 1 /\ data_from_test(tests[1], HtmlFirst).ok =>
    \A k \in {"kernel", "fullmode"} :
      s.desc[k] # NoName /\ \A j \in 1..i : s.rows[j].desc[k] = s.desc[k]
Reading(W, tests, i) ==
  {s \in State(W, Len(tests)) : s.ok =>
     /\ Len(s.rows) = i /\ \A j \in 1..i : RowRight(tests[j], s.rows[j])
     /\ OneName(tests, s, i)}

(* An issue that is met once more. *)
LEMMA MetIssue ==
  ASSUME NEW W, NEW n, NEW issues \in Issues(W, n), NEW i \in W, NEW k \in 1..n
  PROVE  Met(issues, i, k) \in Issues(W, n)
  <1> DEFINE R == [count : Nat, tests : SUBSET (1..n)]
  <1>1. PICK D \in SUBSET W : issues \in [D -> R]
    BY DEF Issues
  <1>2. ASSUME NEW E \in SUBSET W, NEW x \in [E -> R] PROVE x \in Issues(W, n)
    <2> HIDE DEF R
    <2> QED BY DEF Issues, R
  <1>3. CASE i \in D
    <2> DEFINE v == [count |-> issues[i].count + 1, tests |-> issues[i].tests \cup {k}]
    <2>1. issues[i] \in R
      BY <1>1, <1>3
    <2>2. v \in R
      BY <2>1
    <2>3. Met(issues, i, k) = [issues EXCEPT ![i] = v]
      BY <1>1, <1>3, Zenon DEF Met
    <2> HIDE DEF v, R
    <2>4. [issues EXCEPT ![i] = v] \in [D -> R]
      BY <1>1, <2>2
    <2> QED BY <1>2, <2>3, <2>4
  <1>4. CASE i \notin D
    <2> DEFINE v == [count |-> 1, tests |-> {k}]
    <2>1. v \in R
      OBVIOUS
    <2>2. Met(issues, i, k) = [j \in D \cup {i} |-> IF j = i THEN v ELSE issues[j]]
      <3>1. DOMAIN issues = D
        BY <1>1
      <3> QED BY <1>4, <3>1, Zenon DEF Met
    <2> HIDE DEF v, R
    <2>3. D \cup {i} \in SUBSET W
      OBVIOUS
    <2>4. [j \in D \cup {i} |-> IF j = i THEN v ELSE issues[j]] \in [D \cup {i} -> R]
      BY <1>1, <2>1
    <2> QED BY <1>2, <2>2, <2>3, <2>4
  <1> QED BY <1>3, <1>4

(* One test more is read. *)
LEMMA ReadOne ==
  ASSUME NEW W, NEW tests, NEW i, Len(tests) \in Nat, i \in 1..Len(tests), IsTest(tests[i]),
         Speaks(W, tests[i]), NEW s \in Reading(W, tests, i - 1)
  PROVE  ReadTest(s, tests[i], i, data_from_test(tests[i], HtmlFirst)) \in Reading(W, tests, i)
  <1> DEFINE t == tests[i]
             r == data_from_test(t, HtmlFirst)
             d == IF r.ok THEN r.data ELSE [r.data EXCEPT !.desc = s.desc]
             open == {k \in Keys : s.desc[k] = NoName \/ s.rows = <<>>}
             names == IF r.ok THEN [k \in Keys |-> IF k \in open THEN d.desc[k] ELSE s.desc[k]]
                      ELSE s.desc
             row == RowOf(t, d)
             iss == IssuesOf(s.issues, t, i, r.data)
             new == ReadTest(s, t, i, r)
             n == Len(tests)
  <1>1. /\ r.ok \in BOOLEAN /\ r.data \in Row(W)
        /\ r.data.result = IF t.html = "good" THEN Outcome(t) ELSE NoName
        /\ r.ok => r.data.desc["kernel"] # NoName /\ r.data.desc["fullmode"] # NoName
        /\ t.html = "good" => r.data.suspend > 0 /\ r.data.resume > 0
    <2> HIDE DEF t
    <2>1. IsTest(t) /\ Speaks(W, t)
      BY DEF t
    <2> QED BY <2>1, DataOfTest
  <1>2. s \in State(W, n)
    BY DEF Reading
  <1>3. /\ s.ok \in BOOLEAN /\ s.desc \in [Keys -> W] /\ s.rows \in Seq(Row(W))
        /\ s.issues \in Issues(W, n)
    BY <1>2 DEF State
  <1> SUFFICES new \in Reading(W, tests, i)
    BY Zenon
  <1>4. CASE ~s.ok
    <2>1. new = s
      BY <1>4, Zenon DEF ReadTest
    <2> QED BY <1>2, <1>4, <2>1 DEF Reading
  <1>5. CASE s.ok /\ r.ok /\ \E k \in Keys \ open : s.desc[k] # d.desc[k]
    <2>1. new = [s EXCEPT !.ok = FALSE]
      BY <1>5, Zenon DEF ReadTest
    <2>2. [s EXCEPT !.ok = FALSE] \in State(W, n) /\ [s EXCEPT !.ok = FALSE].ok = FALSE
      BY <1>2, <1>3 DEF State
    <2> HIDE DEF new
    <2>3. new \in State(W, Len(tests)) /\ ~new.ok
      BY <2>1, <2>2
    <2> QED BY <2>3, Zenon DEF Reading
  <1>6. CASE s.ok /\ ~(r.ok /\ \E k \in Keys \ open : s.desc[k] # d.desc[k])
    <2>1. new = [s EXCEPT !.desc = IF r.ok THEN [k \in Keys |-> IF k \in open THEN d.desc[k]
                                                          ELSE s.desc[k]] ELSE s.desc,
                    !.rows = Append(s.rows, RowOf(t, d)),
                    !.issues = IssuesOf(s.issues, t, i, r.data)]
      BY <1>6, Zenon DEF ReadTest
    <2>2. new = [s EXCEPT !.desc = names, !.rows = Append(s.rows, row), !.issues = iss]
      BY <2>1, Zenon
    <2> HIDE DEF new
    <2>3. d \in Row(W) /\ d.result = r.data.result /\ d.suspend = r.data.suspend
          /\ d.resume = r.data.resume /\ d.desc = IF r.ok THEN r.data.desc ELSE s.desc
      BY <1>1, <1>3 DEF Row
    <2>4. /\ row \in Row(W) /\ RowRight(t, row) /\ row.desc = d.desc
      <3> HIDE DEF d, r
      <3> DEFINE v == IF d.result # NoName THEN d.result ELSE IF t.net THEN "hang" ELSE "error"
      <3>1. row = [d EXCEPT !.result = v]
        BY Zenon DEF RowOf
      <3>2. v = Outcome(t) /\ v \in Results
        <4>1. Outcome(t) \in Results
          BY DEF Outcome, Results
        <4> QED BY <1>1, <2>3, <4>1, ResultNames DEF Outcome
      <3>3. v = "pass" => d.suspend > 0 /\ d.resume > 0
        BY <1>1, <2>3, <3>2 DEF Outcome
      <3> HIDE DEF v, row
      <3> QED BY <2>3, <3>1, <3>2, <3>3 DEF Row, RowRight
    <2>5. iss \in Issues(W, n)
      <3> DEFINE seen == IF r.data.msg # NoName THEN Met(s.issues, r.data.msg, i) ELSE s.issues
      <3>1. iss = IF t.net /\ t.html # "none" THEN Met(seen, "NETLOST", i) ELSE seen
        BY Zenon DEF IssuesOf
      <3>2. r.data.msg \in W /\ "NETLOST" \in W
        BY <1>1 DEF Row, Speaks
      <3> DEFINE msg == r.data.msg
                 old == s.issues
      <3> HIDE DEF r, t, msg, old
      <3>3. Met(old, msg, i) \in Issues(W, n) /\ old \in Issues(W, n)
        BY <1>3, <3>2, MetIssue DEF msg, old
      <3>4. seen \in Issues(W, n)
        BY <3>3 DEF msg, old
      <3> HIDE DEF seen, iss
      <3>5. Met(seen, "NETLOST", i) \in Issues(W, n)
        BY <3>2, <3>4, MetIssue
      <3> QED BY <3>1, <3>4, <3>5
    <2>6. names \in [Keys -> W]
      BY <1>3, <2>3 DEF Row
    <2> HIDE DEF row, iss, names
    <2>7. /\ new \in State(W, n) /\ new.ok = s.ok /\ new.desc = names
          /\ new.rows = Append(s.rows, row)
      <3> DEFINE rows == Append(s.rows, row)
                 R == Row(W)
                 I == Issues(W, n)
      <3>1. rows \in Seq(R)
        BY <1>3, <2>4
      <3>2. new = [s EXCEPT !.desc = names, !.rows = rows, !.issues = iss]
        BY <2>2, Zenon
      <3>3. /\ s \in [ok : BOOLEAN, desc : [Keys -> W], rows : Seq(R), issues : I]
            /\ iss \in I
        BY <1>2, <2>5, Zenon DEF State
      <3> HIDE DEF rows, R, I, n
      <3>4. /\ new \in [ok : BOOLEAN, desc : [Keys -> W], rows : Seq(R), issues : I]
            /\ new.ok = s.ok /\ new.desc = names /\ new.rows = rows
        BY <2>6, <3>1, <3>2, <3>3
      <3> QED BY <3>4, Zenon DEF State, rows, R, I
    <2>8. /\ Len(s.rows) = i - 1 /\ \A j \in 1..(i - 1) : RowRight(tests[j], s.rows[j])
          /\ OneName(tests, s, i - 1)
      BY <1>6 DEF Reading
    <2>9. /\ Len(new.rows) = i /\ new.rows[i] = row
          /\ \A j \in 1..(i - 1) : new.rows[j] = s.rows[j]
      <3> HIDE DEF n, t, d, r
      <3> QED BY <1>3, <2>4, <2>7, <2>8
    <2>10. ASSUME NEW j \in 1..i PROVE RowRight(tests[j], new.rows[j])
      <3>1. CASE j = i
        BY <2>4, <2>9, <3>1
      <3>2. CASE j # i
        BY <2>8, <2>9, <3>2
      <3> QED BY <3>1, <3>2
    <2>11. OneName(tests, new, i)
      <3>1. SUFFICES ASSUME data_from_test(tests[1], HtmlFirst).ok,
                            NEW k \in {"kernel", "fullmode"}
                     PROVE  names[k] # NoName /\ \A j \in 1..i : new.rows[j].desc[k] = names[k]
        BY <2>7 DEF OneName
      <3>2. k \in Keys
        BY DEF Keys
      <3>3. CASE i = 1
        <4>1. r.ok /\ k \in open
          <5>1. s.rows = <<>>
            BY <1>3, <2>8, <3>3
          <5> QED BY <3>1, <3>2, <3>3, <5>1
        <4>2. names[k] = d.desc[k] /\ d.desc[k] # NoName
          BY <1>1, <2>3, <3>2, <4>1 DEF names
        <4>3. \A j \in 1..i : new.rows[j] = row
          BY <2>9, <3>3
        <4> QED BY <2>4, <4>2, <4>3
      <3>4. CASE i # 1
        <4>1. /\ s.desc[k] # NoName
              /\ \A j \in 1..(i - 1) : s.rows[j].desc[k] = s.desc[k]
          <5> DEFINE m == i - 1
          <5>1. m >= 1 /\ OneName(tests, s, m)
            BY <2>8, <3>4
          <5> HIDE DEF m
          <5>2. s.desc[k] # NoName /\ \A j \in 1..m : s.rows[j].desc[k] = s.desc[k]
            BY <3>1, <5>1, Zenon DEF OneName
          <5> QED BY <5>2 DEF m
        <4>2. k \notin open
          <5>1. s.rows # <<>>
            <6>1. Len(s.rows) # 0
              BY <2>8, <3>4
            <6> QED BY <6>1
          <5> QED BY <4>1, <5>1
        <4>3. names[k] = s.desc[k]
          BY <3>2, <4>2 DEF names
        <4>4. d.desc[k] = s.desc[k]
          BY <1>6, <2>3, <3>2, <4>2
        <4>5. ASSUME NEW j \in 1..i PROVE new.rows[j].desc[k] = names[k]
          <5>1. CASE j = i
            BY <2>4, <2>9, <4>3, <4>4, <5>1
          <5>2. CASE j # i
            BY <2>9, <4>1, <4>3, <5>2
          <5> QED BY <5>1, <5>2
        <4> QED BY <4>1, <4>3, <4>5
      <3> QED BY <3>3, <3>4
    <2>12. new \in State(W, Len(tests))
      BY <2>7
    <2> QED BY <2>9, <2>10, <2>11, <2>12, Zenon DEF Reading
  <1> QED BY <1>4, <1>5, <1>6

(* There are words for all that tests say, and for the name of their folder. *)
LEMMA WordsOfTests ==
  ASSUME NEW f, NEW tests, \A t \in Range(tests) : IsTest(t)
  PROVE  \E W : /\ multiTestDesc(f) \in [Keys -> W]
                /\ \A t \in Range(tests) : Speaks(W, t)
  <1> DEFINE Said(t) == {baseMode(t.desc["mode"]), t.msg, t.lpi, t.wifi} \cup {t.desc[k] : k \in Keys}
             W == {NoName, "ms", "NETLOST", f.kernel, f.mode} \cup
                  UNION {Said(t) : t \in Range(tests)}
  <1>1. multiTestDesc(f) \in [Keys -> W]
    <2> DEFINE V == W
    <2>1. NoName \in V /\ f.kernel \in V /\ f.mode \in V
      OBVIOUS
    <2> HIDE DEF V
    <2>2. multiTestDesc(f) \in [Keys -> V]
      BY <2>1 DEF multiTestDesc, NoDesc
    <2> QED BY <2>2 DEF V
  <1>2. ASSUME NEW t \in Range(tests) PROVE Speaks(W, t)
    <2> DEFINE V == W
               S == Said(t)
    <2>1. S \subseteq V /\ {NoName, "ms", "NETLOST"} \subseteq V
      BY <1>2
    <2>2. \A k \in Keys : t.desc[k] \in S
      OBVIOUS
    <2>3. {baseMode(t.desc["mode"]), t.msg, t.lpi, t.wifi} \subseteq S
      OBVIOUS
    <2>4. t.desc = [k \in Keys |-> t.desc[k]]
      BY <1>2 DEF IsTest
    <2> HIDE DEF S, V
    <2>5. t.desc \in [Keys -> V]
      BY <2>1, <2>2, <2>4
    <2>6. Speaks(V, t)
      BY <2>1, <2>3, <2>5 DEF Speaks
    <2> QED BY <2>6 DEF V
  <1> HIDE DEF W
  <1> QED BY <1>1, <1>2

(* What is known when all tests of a folder are read. *)
LEMMA ReadAll ==
  ASSUME NEW f, NEW tests, Len(tests) \in Nat, DOMAIN tests = 1..Len(tests),
         \A t \in Range(tests) : IsTest(t)
  PROVE  \E W : ReadTests(f, tests) \in Reading(W, tests, Len(tests))
  <1> DEFINE n == Len(tests)
             s0 == [ok |-> TRUE, desc |-> multiTestDesc(f), rows |-> <<>>, issues |-> NoIssues]
             One(s, i) == ReadTest(s, tests[i], i, data_from_test(tests[i], HtmlFirst))
             Rec(g) == g = [i \in 0..n |-> IF i = 0 THEN s0 ELSE One(g[i - 1], i)]
             read == CHOOSE g : Rec(g)
  <1>1. ReadTests(f, tests) = read[n]
    BY DEF ReadTests
  <1>2. PICK W : multiTestDesc(f) \in [Keys -> W] /\ \A t \in Range(tests) : Speaks(W, t)
    BY WordsOfTests
  <1> DEFINE V == [i \in 0..n |-> Reading(W, tests, i)]
             All == UNION {V[i] : i \in 0..n}
             F == [x \in (1..n) \X All |-> One(x[2], x[1])]
  <1>3. s0 \in V[0]
    <2>1. NoIssues \in Issues(W, n)
      <3>1. NoIssues \in [{} -> [count : Nat, tests : SUBSET (1..n)]]
        BY DEF NoIssues
      <3>2. {} \in SUBSET W
        OBVIOUS
      <3> QED BY <3>1, <3>2 DEF Issues
    <2>2. <<>> \in Seq(Row(W)) /\ Len(<<>>) = 0
      OBVIOUS
    <2>3. s0 \in State(W, n)
      <3> DEFINE R == Row(W)
                 I == Issues(W, n)
                 d0 == multiTestDesc(f)
                 i0 == NoIssues
      <3>1. d0 \in [Keys -> W] /\ i0 \in I /\ <<>> \in Seq(R)
        BY <1>2, <2>1
      <3> HIDE DEF R, I, d0, i0, n
      <3>2. [ok |-> TRUE, desc |-> d0, rows |-> <<>>, issues |-> i0]
              \in [ok : BOOLEAN, desc : [Keys -> W], rows : Seq(R), issues : I]
        BY <3>1
      <3> QED BY <3>2, Zenon DEF State, R, I, d0, i0
    <2>4. s0.rows = <<>>
      OBVIOUS
    <2> HIDE DEF s0
    <2>5. OneName(tests, s0, 0)
      BY DEF OneName
    <2>6. s0 \in Reading(W, tests, 0)
      <3>1. \A j \in 1..0 : FALSE
        OBVIOUS
      <3>2. Len(s0.rows) = 0
        BY <2>2, <2>4
      <3> QED BY <2>3, <2>5, <3>1, <3>2, Zenon DEF Reading
    <2> QED BY <2>6
  <1>4. ASSUME NEW i \in 1..n, NEW s \in V[i - 1] PROVE One(s, i) \in V[i]
    <2>1. IsTest(tests[i]) /\ Speaks(W, tests[i])
      BY <1>2 DEF Range
    <2>2. s \in Reading(W, tests, i - 1)
      OBVIOUS
    <2>3. One(s, i) \in Reading(W, tests, i)
      <3> HIDE DEF V
      <3> QED BY <2>1, <2>2, ReadOne
    <2> HIDE DEF One
    <2> QED BY <2>3
  <1>5. ASSUME NEW i \in 1..n, NEW s \in V[i - 1] PROVE F[<<i, s>>] = One(s, i)
    <2>1. s \in All /\ i \in 1..n
      <3> HIDE DEF V
      <3>1. i - 1 \in 0..n
        OBVIOUS
      <3> QED BY <3>1
    <2> HIDE DEF All, One
    <2> QED BY <2>1
  <1> HIDE DEF F, V, All, One, s0
  <1>6. PICK g : Recursive(g, n, s0, F) /\ StaysIn(g, n, V)
    <2>1. StepsIn(F, n, V)
      BY <1>4, <1>5 DEF StepsIn
    <2>2. n \in Nat
      OBVIOUS
    <2> HIDE DEF n, Rec, read
    <2> QED BY <1>3, <2>1, <2>2, Recursion
  <1>7. Rec(g)
    <2>1. ASSUME NEW i \in 0..n, i # 0 PROVE F[<<i, g[i - 1]>>] = One(g[i - 1], i)
      <3>1. i \in 1..n /\ i - 1 \in 0..n
        BY <2>1
      <3>2. g[i - 1] \in V[i - 1]
        BY <1>6, <3>1, Zenon DEF StaysIn
      <3> QED BY <1>5, <3>1, <3>2
    <2>2. \A i \in 0..n : (IF i = 0 THEN s0 ELSE F[<<i, g[i - 1]>>])
                          = (IF i = 0 THEN s0 ELSE One(g[i - 1], i))
      BY <2>1, Zenon
    <2>3. g = [i \in 0..n |-> IF i = 0 THEN s0 ELSE F[<<i, g[i - 1]>>]]
      BY <1>6, Zenon DEF Recursive
    <2> QED BY <2>2, <2>3, Zenon
  <1>8. Rec(read)
    <2> HIDE DEF Rec
    <2> QED BY <1>7, Zenon
  <1> HIDE DEF read
  <1>9. \A i \in 0..n : read[i] = IF i = 0 THEN s0 ELSE One(read[i - 1], i)
    BY <1>8, Zenon
  <1> HIDE DEF Rec
  <1>10. \A i \in 0..n : read[i] \in V[i]
    <2>1. read[0] \in V[0]
      BY <1>3, <1>9
    <2>2. ASSUME NEW i \in 1..n, read[i - 1] \in V[i - 1] PROVE read[i] \in V[i]
      <3>1. i \in 0..n /\ i # 0
        OBVIOUS
      <3>2. read[i] = One(read[i - 1], i)
        BY <1>9, <3>1
      <3> QED BY <1>4, <2>2, <3>2
    <2>3. n \in Nat
      OBVIOUS
    <2> HIDE DEF n
    <2> QED BY <2>1, <2>2, <2>3, Upward
  <1>11. read[n] \in V[n] /\ n \in 0..n
    BY <1>10
  <1> QED BY <1>1, <1>11 DEF V

(* The values of a finite set are finite in number. *)
LEMMA FiniteImage ==
  ASSUME NEW S, IsFiniteSet(S), NEW g, DOMAIN g = S
  PROVE  IsFiniteSet({g[i] : i \in S}) /\ Cardinality({g[i] : i \in S}) <= Cardinality(S)
  <1> DEFINE T == {g[i] : i \in S}
             h == [i \in S |-> g[i]]
  <1>1. h \in Surjection(S, T)
    BY DEF Surjection
  <1> HIDE DEF T, h
  <1>2. IsFiniteSet(T) /\ Cardinality(T) <= Cardinality(S)
    BY <1>1, FS_Surjection
  <1> QED BY <1>2 DEF T

(* The least, the median and the largest time of the tests that passed. *)
LEMMA MarkedTimes ==
  ASSUME NEW W, NEW rows \in Seq(Row(W)), NEW field \in {"suspend", "resume"},
         NEW st, st = StatOf(rows, field, Marks(rows, field))
  PROVE  \/ st = <<>>
         \/ /\ st = <<st[1], st[2], st[3]>>
            /\ st[1] \in Nat /\ st[2] \in Nat /\ st[3] \in Nat
            /\ st[3] <= st[2] /\ st[2] <= st[1]
  <1> DEFINE passed == {i \in DOMAIN rows : rows[i].result = "pass"}
             times == {rows[i][field] : i \in passed}
             sorted == Ascending(times)
             at(v) == {i \in passed : rows[i][field] = v}
             iMin == Min(at(Min(times)))
             iMax == Min(at(Max(times)))
             med == sorted[Len(sorted) \div 2 + 1]
             iMed == Max(at(med))
             mark == Marks(rows, field)
             val(m) == rows[IF m = 0 THEN mark.min ELSE m][field]
  <1>1. mark = IF passed = {} THEN [min |-> 0, max |-> 0, med |-> 0]
               ELSE [min |-> iMin, max |-> IF iMax = iMin THEN 0 ELSE iMax,
                     med |-> IF iMed \in {iMin, iMax} THEN 0 ELSE iMed]
    BY Zenon DEF Marks
  <1>2. st = IF mark.min = 0 THEN <<>> ELSE <<val(mark.max), val(mark.med), val(mark.min)>>
    BY Zenon DEF StatOf
  <1>3. DOMAIN rows = 1..Len(rows) /\ Len(rows) \in Nat
    OBVIOUS
  <1>4. passed \subseteq Nat \ {0} /\ IsFiniteSet(passed)
    <2>1. passed \subseteq 1..Len(rows) /\ IsFiniteSet(1..Len(rows))
      BY <1>3, FS_Interval
    <2> DEFINE n == Len(rows)
    <2>2. passed \in SUBSET (1..n) /\ IsFiniteSet(1..n) /\ n \in Nat
      BY <1>3, <2>1
    <2> HIDE DEF passed, n
    <2>3. IsFiniteSet(passed)
      BY <2>2, FS_Subset
    <2> QED BY <2>2, <2>3
  <1>5. \A i \in passed : rows[i][field] \in Nat
    <2>1. \A i \in 1..Len(rows) : rows[i] \in Row(W)
      OBVIOUS
    <2> QED BY <1>3, <2>1 DEF Row
  <1> HIDE DEF passed
  <1>6. CASE passed = {}
    BY <1>1, <1>2, <1>6
  <1>7. CASE passed # {}
    <2>1. times \subseteq Nat /\ times # {} /\ IsFiniteSet(times)
      <3> DEFINE g == [i \in passed |-> rows[i][field]]
      <3>1. IsFiniteSet({g[i] : i \in passed})
        <4>1. DOMAIN g = passed
          OBVIOUS
        <4> HIDE DEF g
        <4> QED BY <1>4, <4>1, FiniteImage
      <3>2. times = {g[i] : i \in passed}
        OBVIOUS
      <3> HIDE DEF g
      <3> QED BY <1>5, <1>7, <3>1, <3>2
    <2>2. \A v \in times : at(v) # {} /\ at(v) \subseteq Nat /\ IsFiniteSet(at(v))
      <3>1. ASSUME NEW v \in times PROVE at(v) # {} /\ at(v) \in SUBSET passed
        OBVIOUS
      <3> HIDE DEF at, times
      <3> QED BY <1>4, <3>1, FS_Subset
    <2> DEFINE first(v) == Min(at(v))
               last(v) == Max(at(v))
    <2>3. \A v \in times : /\ first(v) \in passed /\ rows[first(v)][field] = v
                           /\ last(v) \in passed /\ rows[last(v)][field] = v
      <3>1. ASSUME NEW v \in times PROVE first(v) \in at(v) /\ last(v) \in at(v)
        <4> DEFINE A == at(v)
        <4>1. A # {} /\ A \subseteq Nat /\ IsFiniteSet(A)
          BY <2>2
        <4> HIDE DEF A
        <4>2. Min(A) \in A /\ Max(A) \in A
          BY <4>1, Extremes
        <4> QED BY <4>2 DEF A
      <3> HIDE DEF first, last
      <3> QED BY <3>1
    <2>4. /\ Min(times) \in times /\ \A k \in times : Min(times) <= k
          /\ Max(times) \in times /\ \A k \in times : k <= Max(times)
      <3> HIDE DEF times
      <3> QED BY <2>1, Extremes
    <2>5. med \in times
      <3> DEFINE q == sorted
                 n == Len(q)
                 m == n \div 2 + 1
      <3>1. q \in Seq(times) /\ n = Cardinality(times) /\ n \in Nat
        <4> HIDE DEF times
        <4> QED BY <2>1, AscendingSeq, FS_CardinalityType
      <3>2. n # 0
        <4> HIDE DEF times, sorted
        <4> QED BY <2>1, <3>1, FS_EmptySet
      <3> HIDE DEF q, times
      <3>3. m \in 1..n
        <4> HIDE DEF n
        <4> QED BY <3>1, <3>2
      <3>4. q[m] \in times
        BY <3>1, <3>3
      <3> QED BY <3>4 DEF q
    <2> HIDE DEF sorted, at, med
    <2>6. /\ iMin \in passed /\ rows[iMin][field] = Min(times)
          /\ iMax \in passed /\ rows[iMax][field] = Max(times)
          /\ iMed \in passed /\ rows[iMed][field] = med
      BY <2>3, <2>4, <2>5
    <2> HIDE DEF first, last, iMin, iMax, iMed, times
    <2>7. /\ mark.min = iMin /\ mark.max = IF iMax = iMin THEN 0 ELSE iMax
          /\ mark.med = IF iMed \in {iMin, iMax} THEN 0 ELSE iMed
      <3> DEFINE x == IF iMax = iMin THEN 0 ELSE iMax
                 y == IF iMed \in {iMin, iMax} THEN 0 ELSE iMed
      <3>1. mark = [min |-> iMin, max |-> x, med |-> y]
        BY <1>1, <1>7, Zenon
      <3> HIDE DEF x, y, mark
      <3>2. mark.min = iMin /\ mark.max = x /\ mark.med = y
        BY <3>1
      <3> QED BY <3>2 DEF x, y
    <2> HIDE DEF mark
    <2>8. iMin # 0 /\ iMax # 0 /\ iMed # 0
      BY <1>4, <2>6
    <2>9. /\ val(mark.min) = Min(times) /\ val(mark.max) = Max(times)
          /\ val(mark.med) \in times
      <3>1. val(mark.min) = Min(times)
        BY <2>6, <2>7
      <3>2. val(mark.max) = Max(times)
        BY <2>6, <2>7, <2>8
      <3>3. val(mark.med) \in times
        BY <2>4, <2>5, <2>6, <2>7, <2>8
      <3> QED BY <3>1, <3>2, <3>3
    <2> HIDE DEF val
    <2> DEFINE a == val(mark.max)
               b == val(mark.med)
               c == val(mark.min)
    <2>10. st = <<a, b, c>>
      BY <1>2, <2>7, <2>8
    <2>11. a \in Nat /\ b \in Nat /\ c \in Nat /\ c <= b /\ b <= a
      BY <2>1, <2>4, <2>9
    <2> HIDE DEF a, b, c
    <2> QED BY <2>10, <2>11
  <1> QED BY <1>6, <1>7

-----------------------------------------------------------------------------
(* The times, the health and the devices of a summary.                     *)

(* Products and quotients of natural numbers. *)
LEMMA Products ==
  ASSUME NEW a \in Nat, NEW b \in Nat, NEW c \in Nat, a <= b
  PROVE  a * c \in Nat /\ a * c <= b * c /\ c * a <= c * b
  OBVIOUS

LEMMA Percent ==
  ASSUME NEW a \in Nat, NEW b \in Nat \ {0}, a <= 100 * b
  PROVE  a \div b \in 0..100
  <1> DEFINE q == a \div b
             r == a % b
  <1>1. q \in Int /\ r \in Int /\ a = b * q + r /\ 0 <= r /\ r < b
    OBVIOUS
  <1> HIDE DEF q, r
  <1>2. q >= 0
    <2>1. ASSUME q <= -1 PROVE FALSE
      <3>1. b * q <= b * (-1)
        BY <1>1, <2>1
      <3> QED BY <1>1, <3>1
    <2> QED BY <1>1, <2>1
  <1>3. q <= 100
    <2>1. ASSUME q >= 101 PROVE FALSE
      <3>1. b * q >= b * 101
        BY <1>1, <2>1
      <3> QED BY <1>1, <3>1
    <2> QED BY <1>1, <2>1
  <1> QED BY <1>1, <1>2, <1>3 DEF q

\* What a speed may be worth.
Worth(points, count) == 0..(2000 * points * count)

\* The largest, median and least time, if there are times.
Times(st) ==
  \/ st = <<>>
  \/ /\ st = <<st[1], st[2], st[3]>>
     /\ st[1] \in Nat /\ st[2] \in Nat /\ st[3] \in Nat
     /\ st[3] <= st[2] /\ st[2] <= st[1]

(* A speed is worth its points at most. *)
LEMMA SpeedPoints ==
  ASSUME NEW st, Times(st), NEW points \in {10, 20}, NEW count \in Nat
  PROVE  Speed(st, points, count) \in Worth(points, count)
  <1> USE DEF Worth
  <1> DEFINE halves == IF st[1] < 1000 THEN 2 * points ELSE 2 * points - 1
             v == IF st = <<>> \/ st[2] >= 2000 THEN 0
                  ELSE IF st[2] < 1000 THEN halves * 1000 * count
                  ELSE (2000 - st[2]) * halves * count
  <1>1. Speed(st, points, count) = v
    BY Zenon DEF Speed
  <1>2. halves \in Nat /\ halves <= 2 * points /\ 2 * points \in {20, 40}
    OBVIOUS
  <1> HIDE DEF halves
  <1>3. ASSUME NEW x \in Nat, x <= 1000
        PROVE  x * halves * count \in Nat /\ x * halves * count <= 2000 * points * count
    <2>1. x * halves \in Nat /\ x * halves <= 1000 * halves
      BY <1>2, <1>3, Products
    <2>2. x * halves <= 2000 * points
      BY <1>2, <2>1
    <2> DEFINE y == x * halves
               z == 2000 * points
    <2>3. y \in Nat /\ z \in Nat /\ y <= z
      BY <2>1, <2>2
    <2> HIDE DEF y, z
    <2>4. y * count \in Nat /\ y * count <= z * count
      BY <2>3, Products
    <2> QED BY <2>4 DEF y, z
  <1>4. CASE st = <<>> \/ st[2] >= 2000
    BY <1>1, <1>4
  <1>5. CASE ~(st = <<>> \/ st[2] >= 2000) /\ st[2] < 1000
    <2>1. v = 1000 * halves * count
      BY <1>2, <1>5
    <2> HIDE DEF v
    <2> QED BY <1>1, <1>3, <2>1
  <1>6. CASE ~(st = <<>> \/ st[2] >= 2000) /\ ~(st[2] < 1000)
    <2> DEFINE x == 2000 - st[2]
    <2>1. st[2] \in Nat
      BY <1>6 DEF Times
    <2>2. v = x * halves * count /\ x \in Nat /\ x <= 1000
      BY <1>6, <2>1
    <2> HIDE DEF v, x
    <2>3. v \in Nat /\ v <= 2000 * points * count
      BY <1>3, <2>2
    <2> QED BY <1>1, <2>3
  <1> QED BY <1>4, <1>5, <1>6

(* The health of a multitest is a percentage. *)
LEMMA HealthPercent ==
  ASSUME NEW d, d.count \in Nat \ {0}, d.res["pass"] \in 0..d.count, d.s0ix \in Int,
         d.s0ix <= d.count, Times(d.s), Times(d.r)
  PROVE  healthCheck(d) \in 0..100
  <1> DEFINE quiet == IF d.issues = {} THEN 10
                      ELSE IF \E i \in d.issues : errorCheck(i) THEN 0 ELSE 5
             idle == d.desc["mode"] = "freeze" /\ d.s0ix >= 0
             c == d.count
             s == Speed(d.s, 10, d.count)
             r == Speed(d.r, 20, d.count)
             p == d.res["pass"]
             o == IF idle THEN 40000 * d.s0ix ELSE 0
             points == 80000 * p + 2000 * quiet * c + s + r + o
             m == IF idle THEN 100 ELSE 80
  <1>1. healthCheck(d) = (100 * points) \div (m * 2000 * c)
    BY DEF healthCheck
  <1>2. s \in 0..(20000 * c) /\ r \in 0..(40000 * c)
    <2> DEFINE ds == d.s
               dr == d.r
               ten == 10
               twenty == 20
    <2>1. /\ c \in Nat /\ Times(ds) /\ Times(dr)
          /\ ten \in {10, 20} /\ twenty \in {10, 20}
      OBVIOUS
    <2>2. s = Speed(ds, ten, c) /\ r = Speed(dr, twenty, c)
      OBVIOUS
    <2> HIDE DEF c, ds, dr, ten, twenty, s, r
    <2>3. s \in Worth(ten, c) /\ r \in Worth(twenty, c)
      BY <2>1, <2>2, SpeedPoints
    <2> QED BY <2>1, <2>3 DEF ten, twenty, Worth
  <1>3. quiet \in {0, 5, 10}
    OBVIOUS
  <1>4. /\ c \in Nat \ {0} /\ p \in 0..c /\ o \in 0..(40000 * c)
        /\ ~idle => o = 0
    OBVIOUS
  <1> HIDE DEF quiet, idle, c, s, r, p, o
  <1>5. /\ points \in Nat /\ points <= 200000 * c /\ (~idle => points <= 160000 * c)
    <2>1. 2000 * quiet * c \in Nat /\ 2000 * quiet * c <= 20000 * c
      BY <1>3, <1>4
    <2> DEFINE k == 2000 * quiet * c
    <2> HIDE DEF k
    <2>2. k \in Nat /\ k <= 20000 * c
      BY <2>1 DEF k
    <2>3. points = 80000 * p + k + s + r + o
      BY DEF k
    <2> HIDE DEF points
    <2> QED BY <1>2, <1>4, <2>2, <2>3
  <1> HIDE DEF points
  <1> DEFINE a == 100 * points
             b == m * 2000 * c
  <1>6. a \in Nat /\ b \in Nat \ {0} /\ a <= 100 * b
    <2>1. CASE idle
      BY <1>4, <1>5, <2>1
    <2>2. CASE ~idle
      BY <1>4, <1>5, <2>2
    <2> QED BY <2>1, <2>2
  <1> HIDE DEF a, b, m
  <1>7. a \div b \in 0..100
    BY <1>6, Percent
  <1> QED BY <1>1, <1>7 DEF a, b

\* The times of the device in the rows that have seen it.
DevTotal(rows, seen) == MapThenSumSet(LAMBDA i : rows[i].dev, seen)

(* A sum over a set, no term of which is above worst. *)
LEMMA SumBound ==
  ASSUME NEW rows, NEW seen, IsFiniteSet(seen), NEW worst \in Nat,
         \A i \in seen : rows[i].dev \in Nat /\ rows[i].dev <= worst
  PROVE  DevTotal(rows, seen) \in Nat /\ DevTotal(rows, seen) <= Cardinality(seen) * worst
  <1> DEFINE any(s) == CHOOSE x \in s : TRUE
             Step(g, s) == IF s = {} THEN 0 ELSE rows[any(s)].dev + g[s \ {any(s)}]
             Rec(g) == g = [s \in SUBSET seen |-> Step(g, s)]
             sum == CHOOSE g : Rec(g)
             total == DevTotal(rows, seen)
             c == [s \in SUBSET seen |-> any(s)]
             V == [s \in SUBSET seen |-> {t \in Nat : t <= Cardinality(s) * worst}]
             G == [y \in (SUBSET seen) \X Nat |-> rows[c[y[1]]].dev + y[2]]
  <1>1. total = sum[seen]
    BY Zenon DEF DevTotal, MapThenSumSet, MapThenFoldSet
  <1> HIDE DEF total, sum
  <1>2. \A s \in SUBSET seen : /\ IsFiniteSet(s) /\ Cardinality(s) \in Nat
                               /\ Cardinality(s) = 0 <=> s = {}
    BY FS_Subset, FS_EmptySet, FS_CardinalityType
  <1>3. ASSUME NEW s \in SUBSET seen, s # {}
        PROVE  /\ c[s] = any(s) /\ c[s] \in s /\ Without(c, s) = s \ {any(s)}
               /\ Without(c, s) \in SUBSET seen
               /\ Cardinality(Without(c, s)) = Cardinality(s) - 1
    <2>1. c[s] = any(s)
      OBVIOUS
    <2>2. any(s) \in s
      BY <1>3
    <2> HIDE DEF any, c
    <2> QED BY <1>2, <2>1, <2>2, FS_RemoveElement DEF Without
  <1> HIDE DEF c, any
  <1>4. ASSUME NEW s \in SUBSET seen, s # {}, NEW t \in V[Without(c, s)]
        PROVE  rows[c[s]].dev + t \in V[s] /\ t \in Nat
    <2> DEFINE k == Cardinality(Without(c, s))
               n == Cardinality(s)
               a == rows[c[s]].dev
    <2>1. k = n - 1 /\ n \in Nat /\ k \in Nat /\ a \in Nat /\ a <= worst
      BY <1>2, <1>3, <1>4
    <2>2. t \in Nat /\ t <= k * worst
      BY <1>3, <1>4
    <2>3. n * worst = k * worst + worst
      <3> HIDE DEF k, n
      <3> QED BY <2>1
    <2>4. a + t \in Nat /\ a + t <= n * worst
      <3> DEFINE x == k * worst
      <3>1. x \in Nat
        <4> HIDE DEF k
        <4> QED BY <2>1
      <3> HIDE DEF x, a
      <3> QED BY <2>1, <2>2, <2>3, <3>1 DEF x
    <2> QED BY <2>2, <2>4
  <1>5. 0 \in V[{}]
    <2>1. Cardinality({}) = 0
      BY FS_EmptySet
    <2> QED BY <2>1
  <1>6. ASSUME NEW s \in SUBSET seen, s # {}, NEW t \in V[Without(c, s)]
        PROVE  G[<<s, t>>] = rows[c[s]].dev + t
    BY <1>4, <1>6
  <1> HIDE DEF V, G
  <1>7. PICK g : FoldedBy(g, seen, 0, c, G) /\ StaysOver(g, seen, V)
    <2>1. StepsOver(G, seen, c, V)
      BY <1>3, <1>4, <1>6 DEF StepsOver
    <2> QED BY <1>5, <2>1, Folding
  <1>8. Rec(g)
    <2>1. ASSUME NEW s \in SUBSET seen, s # {} PROVE G[<<s, g[Without(c, s)]>>] = Step(g, s)
      <3>1. g[Without(c, s)] \in V[Without(c, s)]
        BY <1>3, <1>7, <2>1 DEF StaysOver
      <3> QED BY <1>3, <1>6, <2>1, <3>1
    <2>2. g = [s \in SUBSET seen |-> IF s = {} THEN 0 ELSE G[<<s, g[Without(c, s)]>>]]
      BY <1>7, Zenon DEF FoldedBy
    <2>3. \A s \in SUBSET seen : (IF s = {} THEN 0 ELSE G[<<s, g[Without(c, s)]>>]) = Step(g, s)
      BY <2>1
    <2> HIDE DEF Step
    <2> QED BY <2>2, <2>3, Zenon
  <1>9. Rec(sum)
    <2> HIDE DEF Rec
    <2> QED BY <1>8, Zenon DEF sum
  <1>10. \A s \in SUBSET seen : sum[s] = Step(sum, s)
    <2> HIDE DEF Step
    <2> QED BY <1>9, Zenon
  <1>11. StaysOver(sum, seen, V)
    <2>1. sum[{}] \in V[{}]
      BY <1>5, <1>10
    <2>2. ASSUME NEW s \in SUBSET seen, s # {}
          PROVE  c[s] \in s /\ (sum[Without(c, s)] \in V[Without(c, s)] => sum[s] \in V[s])
      <3>1. sum[s] = rows[c[s]].dev + sum[Without(c, s)]
        BY <1>3, <1>10, <2>2
      <3> QED BY <1>3, <1>4, <2>2, <3>1
    <2> HIDE DEF Rec
    <2> QED BY <2>1, <2>2, Folded
  <1>12. sum[seen] \in V[seen]
    BY <1>11 DEF StaysOver
  <1>13. total \in Nat /\ total <= Cardinality(seen) * worst
    BY <1>1, <1>12 DEF V
  <1> QED BY <1>13, Zenon DEF total

(* The device of two multitests together. *)
LEMMA MergedDevice ==
  ASSUME NEW a, IsDevice(a), NEW b, IsDevice(b)
  PROVE  /\ MergeDevice(a, b) \in [count : Nat, total : Nat, worst : Nat]
         /\ IsDevice(MergeDevice(a, b))
  <1> DEFINE ca == a.count
             cb == b.count
             ta == a.total
             tb == b.total
             wa == a.worst
             wb == b.worst
             w == IF wb > wa THEN wb ELSE wa
  <1>1. /\ ca \in Nat /\ ta \in Nat /\ wa \in Nat /\ ta <= ca * wa
        /\ cb \in Nat /\ tb \in Nat /\ wb \in Nat /\ tb <= cb * wb
    BY DEF IsDevice
  <1>2. MergeDevice(a, b) = [count |-> ca + cb, total |-> ta + tb, worst |-> w]
    BY Zenon DEF MergeDevice
  <1> HIDE DEF ca, cb, ta, tb, wa, wb
  <1>3. w \in Nat /\ wa <= w /\ wb <= w
    BY <1>1
  <1> HIDE DEF w
  <1>4. ca * wa <= ca * w /\ cb * wb <= cb * w /\ ca * w \in Nat /\ cb * w \in Nat
        /\ ca * wa \in Nat /\ cb * wb \in Nat
    BY <1>1, <1>3, Products
  <1>5. (ca + cb) * w = ca * w + cb * w
    BY <1>1, <1>3
  <1>6. ta + tb <= (ca + cb) * w
    <2> DEFINE x == ca * wa
               y == cb * wb
               u == ca * w
               v == cb * w
    <2>1. x \in Nat /\ y \in Nat /\ u \in Nat /\ v \in Nat /\ x <= u /\ y <= v
          /\ ta <= x /\ tb <= y /\ (ca + cb) * w = u + v
      BY <1>1, <1>4, <1>5
    <2> HIDE DEF x, y, u, v
    <2> QED BY <1>1, <2>1
  <1> QED BY <1>1, <1>2, <1>3, <1>6 DEF IsDevice

(* The device of all the multitests in a list. *)
LEMMA ListDevice ==
  ASSUME NEW list, IsSeq(list), \A e \in Range(list) : IsDevice(e.fig.dev)
  PROVE  IsDevice(FoldLeft(LAMBDA a, e : MergeDevice(a, e.fig.dev),
                           [count |-> 0, total |-> 0, worst |-> 0], list))
  <1> DEFINE S == DOMAIN list
             d0 == [count |-> 0, total |-> 0, worst |-> 0]
             Step(g, s) == IF s = {} THEN d0
                           ELSE MergeDevice(g[s \ {Max(s)}], list[Max(s)].fig.dev)
             Rec(g) == g = [s \in SUBSET S |-> Step(g, s)]
             merge == CHOOSE g : Rec(g)
             all == FoldLeft(LAMBDA a, e : MergeDevice(a, e.fig.dev), d0, list)
             c == [s \in SUBSET S |-> Max(s)]
             D == {d \in [count : Nat, total : Nat, worst : Nat] : IsDevice(d)}
             V == [s \in SUBSET S |-> D]
             G == [y \in (SUBSET S) \X D |-> MergeDevice(y[2], list[c[y[1]]].fig.dev)]
  <1>1. all = merge[S]
    BY Zenon DEF FoldLeft, MapThenFoldSet
  <1> HIDE DEF all, merge
  <1>2. S \subseteq Nat /\ IsFiniteSet(S) /\ \A i \in S : IsDevice(list[i].fig.dev)
    <2>1. list \in Seq(Range(list))
      BY DEF IsSeq
    <2>2. S = 1..Len(list) /\ Len(list) \in Nat
      BY <2>1
    <2>3. \A i \in S : IsDevice(list[i].fig.dev)
      BY DEF Range
    <2> HIDE DEF S
    <2>4. S \subseteq Nat
      BY <2>2
    <2>5. IsFiniteSet(S)
      <3>1. IsFiniteSet(1..Len(list))
        BY <2>2, FS_Interval
      <3> QED BY <2>2, <3>1, Zenon
    <2> QED BY <2>3, <2>4, <2>5
  <1> HIDE DEF S
  <1>3. ASSUME NEW s \in SUBSET S, s # {}
        PROVE  /\ c[s] = Max(s) /\ c[s] \in s /\ Without(c, s) = s \ {Max(s)}
               /\ Without(c, s) \in SUBSET S
    <2>1. c[s] = Max(s)
      OBVIOUS
    <2>2. Max(s) \in s
      <3>1. IsFiniteSet(s) /\ s \subseteq Nat
        BY <1>2, FS_Subset
      <3> QED BY <1>3, <3>1, Extremes
    <2> HIDE DEF c
    <2> QED BY <2>1, <2>2 DEF Without
  <1> HIDE DEF c
  <1>4. ASSUME NEW s \in SUBSET S, s # {}, NEW d \in D
        PROVE  MergeDevice(d, list[c[s]].fig.dev) \in D
    <2>1. IsDevice(d) /\ IsDevice(list[c[s]].fig.dev)
      BY <1>2, <1>3, <1>4
    <2> DEFINE e == list[c[s]].fig.dev
    <2> HIDE DEF e
    <2>2. /\ MergeDevice(d, e) \in [count : Nat, total : Nat, worst : Nat]
          /\ IsDevice(MergeDevice(d, e))
      BY <2>1, MergedDevice DEF e
    <2> QED BY <2>2 DEF e
  <1>5. d0 \in D
    BY DEF IsDevice
  <1>6. ASSUME NEW s \in SUBSET S, s # {}, NEW d \in D
        PROVE  G[<<s, d>>] = MergeDevice(d, list[c[s]].fig.dev)
    <2> HIDE DEF D
    <2> QED BY <1>6
  <1>7. \A s \in SUBSET S : V[s] = D
    OBVIOUS
  <1> HIDE DEF V, G, D, d0
  <1>8. PICK g : FoldedBy(g, S, d0, c, G) /\ StaysOver(g, S, V)
    <2>1. StepsOver(G, S, c, V)
      <3>1. ASSUME NEW s \in SUBSET S, s # {}, NEW d \in V[Without(c, s)]
            PROVE  G[<<s, d>>] \in V[s]
        <4>1. d \in D
          BY <1>3, <1>7, <3>1
        <4> QED BY <1>4, <1>6, <1>7, <3>1, <4>1
      <3> QED BY <1>3, <3>1 DEF StepsOver
    <2>2. d0 \in V[{}]
      BY <1>5, <1>7
    <2> QED BY <1>2, <2>1, <2>2, Folding
  <1>9. Rec(g)
    <2>1. ASSUME NEW s \in SUBSET S, s # {} PROVE G[<<s, g[Without(c, s)]>>] = Step(g, s)
      <3>1. g[Without(c, s)] \in D
        BY <1>3, <1>7, <1>8, <2>1 DEF StaysOver
      <3> QED BY <1>3, <1>6, <2>1, <3>1
    <2>2. g = [s \in SUBSET S |-> IF s = {} THEN d0 ELSE G[<<s, g[Without(c, s)]>>]]
      BY <1>8, Zenon DEF FoldedBy
    <2>3. \A s \in SUBSET S : (IF s = {} THEN d0 ELSE G[<<s, g[Without(c, s)]>>]) = Step(g, s)
      BY <2>1
    <2> HIDE DEF Step
    <2> QED BY <2>2, <2>3, Zenon
  <1>10. Rec(merge)
    <2> HIDE DEF Rec
    <2> QED BY <1>9, Zenon DEF merge
  <1>11. \A s \in SUBSET S : merge[s] = Step(merge, s)
    <2> HIDE DEF Step
    <2> QED BY <1>10, Zenon
  <1>12. StaysOver(merge, S, V)
    <2>1. merge[{}] \in V[{}]
      <3>1. {} \in SUBSET S
        OBVIOUS
      <3>2. merge[{}] = Step(merge, {}) /\ V[{}] = D
        BY <1>7, <1>11, <3>1, Zenon
      <3> QED BY <1>5, <3>2
    <2>2. ASSUME NEW s \in SUBSET S, s # {}
          PROVE  c[s] \in s /\ (merge[Without(c, s)] \in V[Without(c, s)] => merge[s] \in V[s])
      <3>1. merge[s] = MergeDevice(merge[Without(c, s)], list[c[s]].fig.dev)
        BY <1>3, <1>11, <2>2
      <3>2. V[Without(c, s)] = D /\ V[s] = D
        BY <1>3, <1>7, <2>2
      <3> QED BY <1>3, <1>4, <2>2, <3>1, <3>2
    <2> HIDE DEF Rec
    <2> QED BY <1>2, <2>1, <2>2, Folded
  <1>13. merge[S] \in D
    BY <1>7, <1>12 DEF StaysOver
  <1>14. IsDevice(all)
    BY <1>1, <1>13 DEF D
  <1> QED BY <1>14, Zenon DEF all, d0

(* The tests of a folder in the order of their names. *)
LEMMA TestsInOrder ==
  ASSUME NEW tests, HasTests(tests), NEW of, of = InOrder(tests)
  PROVE  of \in Seq(Range(of)) /\ \A t \in Range(of) : IsTest(t)
  <1> DEFINE S == DOMAIN tests
             q == Ascending(S)
             n == Cardinality(S)
  <1>1. S \subseteq Nat /\ IsFiniteSet(S) /\ \A k \in S : IsTest(tests[k])
    BY DEF HasTests
  <1> HIDE DEF S
  <1>2. q \in Seq(S) /\ DOMAIN q = 1..n /\ n \in Nat
    BY <1>1, AscendingSeq, FS_CardinalityType
  <1>3. of = [i \in DOMAIN q |-> tests[q[i]]]
    BY Zenon DEF InOrder, S
  <1> HIDE DEF q, n
  <1>4. DOMAIN of = 1..n /\ \A i \in 1..n : of[i] = tests[q[i]] /\ q[i] \in S
    BY <1>2, <1>3
  <1>5. of = [i \in 1..n |-> of[i]] /\ \A i \in 1..n : of[i] \in Range(of) /\ IsTest(of[i])
    <2>1. of = [i \in 1..n |-> of[i]]
      BY <1>2, <1>3
    <2> QED BY <1>1, <1>4, <2>1 DEF Range
  <1>6. of \in [1..n -> Range(of)]
    BY <1>5
  <1>7. of \in Seq(Range(of))
    BY <1>2, <1>6
  <1> QED BY <1>4, <1>5, <1>7 DEF Range

(* What is reported on the tests of a folder is a report. *)
LEMMA NewReport ==
  ASSUME NEW f, NEW tests, HasTests(tests), NEW of, of = InOrder(tests),
         NEW r, r = pm_graph_report(f, of), r.ok,
         NEW sum, sum = [state |-> "full", rows |-> r.rows, issues |-> r.issues, of |-> of]
  PROVE  IsReport(f, sum)
  <1>1. of \in Seq(Range(of)) /\ \A t \in Range(of) : IsTest(t)
    BY TestsInOrder
  <1>2. sum.of = of /\ sum.rows = r.rows /\ sum.issues = r.issues
    OBVIOUS
  <1> QED BY <1>1, <1>2 DEF IsReport

(* The rows and the issues of a summary that can be read. *)
LEMMA ReportTells ==
  ASSUME NEW f, NEW sum, IsReport(f, sum), sum.state = "full"
  PROVE  \E W : /\ sum.rows \in Seq(Row(W)) /\ sum.issues \in Issues(W, Len(sum.of))
                /\ Len(sum.of) \in Nat \ {0} /\ DOMAIN sum.of = 1..Len(sum.of)
                /\ Len(sum.rows) = Len(sum.of)
                /\ \A j \in 1..Len(sum.of) : RowRight(sum.of[j], sum.rows[j])
                /\ Uniform(sum.rows) \/ ~data_from_test(sum.of[1], HtmlFirst).ok
  <1> DEFINE of == sum.of
             n == Len(of)
             r == pm_graph_report(f, of)
             s == ReadTests(f, of)
  <1>1. /\ of \in Seq(Range(of)) /\ \A t \in Range(of) : IsTest(t)
        /\ r.ok /\ sum.rows = r.rows /\ sum.issues = r.issues
    BY DEF IsReport
  <1> HIDE DEF of
  <1>2. n \in Nat /\ DOMAIN of = 1..n
    BY <1>1
  <1>3. PICK W : s \in Reading(W, of, n)
    BY <1>1, <1>2, ReadAll
  <1>4. s \in State(W, n) /\ (s.ok => Len(s.rows) = n /\ OneName(of, s, n)
                              /\ \A j \in 1..n : RowRight(of[j], s.rows[j]))
    BY <1>3, Zenon DEF Reading
  <1>5. s.ok /\ s.rows # <<>> /\ r.rows = s.rows /\ r.issues = s.issues
    <2> HIDE DEF s
    <2>1. r = Summarised(s)
      BY Zenon DEF pm_graph_report, s
    <2> HIDE DEF r
    <2> QED BY <1>1, <2>1 DEF Summarised
  <1> HIDE DEF s, r
  <1>6. s.rows \in Seq(Row(W)) /\ s.issues \in Issues(W, n)
    BY <1>4 DEF State
  <1>7. n # 0
    BY <1>4, <1>5, <1>6
  <1>8. ASSUME data_from_test(of[1], HtmlFirst).ok PROVE Uniform(s.rows)
    <2>1. \A k \in {"kernel", "fullmode"} : \A j \in 1..n : s.rows[j].desc[k] = s.desc[k]
      BY <1>2, <1>4, <1>5, <1>7, <1>8 DEF OneName
    <2>2. DOMAIN s.rows = 1..n
      BY <1>4, <1>5, <1>6
    <2> QED BY <2>1, <2>2 DEF Uniform
  <1>9. /\ sum.rows = s.rows /\ sum.issues = s.issues
    BY <1>1, <1>5
  <1> HIDE DEF n
  <1>10. /\ sum.rows \in Seq(Row(W)) /\ sum.issues \in Issues(W, n)
         /\ n \in Nat \ {0} /\ DOMAIN of = 1..n /\ Len(sum.rows) = n
         /\ \A j \in 1..n : RowRight(of[j], sum.rows[j])
         /\ Uniform(sum.rows) \/ ~data_from_test(of[1], HtmlFirst).ok
    BY <1>2, <1>4, <1>5, <1>6, <1>7, <1>8, <1>9
  <1> QED BY <1>10, Zenon DEF n, of

(* The device in the rows of a multitest. *)
LEMMA RowsDevice ==
  ASSUME NEW W, NEW rows \in Seq(Row(W))
  PROVE  IsDevice(Devices(rows))
  <1> DEFINE seen == {i \in DOMAIN rows : rows[i].dev > 0}
             all == {rows[i].dev : i \in seen}
             worst == IF seen = {} THEN 0 ELSE Max(all)
             total == DevTotal(rows, seen)
             count == Cardinality(seen)
  <1>1. Devices(rows) = [count |-> count, total |-> total, worst |-> worst]
    BY Zenon DEF Devices, DevTotal
  <1>2. DOMAIN rows = 1..Len(rows) /\ Len(rows) \in Nat /\ IsFiniteSet(1..Len(rows))
    BY FS_Interval
  <1>3. \A i \in seen : rows[i].dev \in Nat
    <2>1. \A i \in 1..Len(rows) : rows[i] \in Row(W)
      OBVIOUS
    <2> QED BY <1>2, <2>1 DEF Row
  <1>4. IsFiniteSet(seen)
    <2>1. seen \in SUBSET (1..Len(rows))
      BY <1>2
    <2> HIDE DEF seen
    <2> QED BY <1>2, <2>1, FS_Subset
  <1> HIDE DEF seen
  <1>5. count \in Nat
    BY <1>4, FS_CardinalityType
  <1>6. worst \in Nat /\ \A i \in seen : rows[i].dev <= worst
    <2>1. CASE seen = {}
      BY <2>1
    <2>2. CASE seen # {}
      <3>1. all \subseteq Nat /\ all # {}
        BY <1>3, <2>2
      <3>2. IsFiniteSet(all)
        <4> DEFINE g == [i \in seen |-> rows[i].dev]
        <4>1. all = {g[i] : i \in seen} /\ DOMAIN g = seen
          OBVIOUS
        <4> HIDE DEF g, all
        <4> QED BY <1>4, <4>1, FiniteImage
      <3>3. \A i \in seen : rows[i].dev \in all
        OBVIOUS
      <3> HIDE DEF all
      <3>4. Max(all) \in all /\ \A k \in all : k <= Max(all)
        BY <3>1, <3>2, Extremes
      <3> QED BY <2>2, <3>1, <3>3, <3>4
    <2> QED BY <2>1, <2>2
  <1> HIDE DEF worst
  <1>7. total \in Nat /\ total <= count * worst
    <2>1. \A i \in seen : rows[i].dev \in Nat /\ rows[i].dev <= worst
      BY <1>3, <1>6
    <2> QED BY <1>4, <1>6, <2>1, SumBound
  <1> HIDE DEF total, count
  <1> QED BY <1>1, <1>5, <1>6, <1>7 DEF IsDevice

-----------------------------------------------------------------------------
(* The figures say what the tests did.                                     *)

\* The rows with result r, and the tests that came out so.
With(rows, r) == {i \in DOMAIN rows : rows[i].result = r}
Ran(of, r) == {i \in DOMAIN of : Outcome(of[i]) = r}

(* The results in the rows are those of the tests. *)
LEMMA ResultsCounted ==
  ASSUME NEW W, NEW rows \in Seq(Row(W)), NEW of, DOMAIN of = 1..Len(rows),
         \A j \in 1..Len(rows) : RowRight(of[j], rows[j]), NEW r
  PROVE  With(rows, r) = Ran(of, r)
  <1>1. DOMAIN rows = DOMAIN of
    OBVIOUS
  <1>2. \A j \in DOMAIN of : rows[j].result = Outcome(of[j])
    BY DEF RowRight
  <1> QED BY <1>1, <1>2 DEF With, Ran

(* How the tests came out. *)
LEMMA Outcomes ==
  ASSUME NEW of
  PROVE  /\ Ran(of, "pass") = {j \in DOMAIN of : of[j].html = "good" /\ of[j].pass}
         /\ Ran(of, "fail") = {j \in DOMAIN of : of[j].html = "good" /\ ~of[j].pass}
         /\ Ran(of, "hang") = {j \in DOMAIN of : of[j].html # "good" /\ of[j].net}
         /\ Ran(of, "error") = {j \in DOMAIN of : of[j].html # "good" /\ ~of[j].net}
  BY DEF Ran, Outcome

(* The rows that are of one kind are no more than there are. *)
LEMMA SomeRows ==
  ASSUME NEW rows, NEW n \in Nat, DOMAIN rows = 1..n, NEW S, S \subseteq DOMAIN rows
  PROVE  Cardinality(S) \in 0..n
  <1>1. IsFiniteSet(1..n) /\ Cardinality(1..n) = n
    BY FS_Interval
  <1>2. Cardinality(S) <= n /\ IsFiniteSet(S)
    BY <1>1, FS_Subset
  <1> QED BY <1>2, FS_CardinalityType

(* What info reads back out of a summary. *)
LEMMA InfoTells ==
  ASSUME NEW W, NEW rows \in Seq(Row(W)), NEW n \in Nat \ {0}, n = Len(rows),
         NEW sum, sum.rows = rows, NEW i, i = info(sum)
  PROVE  /\ i.count = n /\ i.dev = Devices(rows)
         /\ \A r \in Results :
              i.res[r] = Cardinality(With(rows, r))
         /\ Times(i.s) /\ Times(i.r)
         /\ i.health \in 0..100
  <1> DEFINE desc == [rows[1].desc EXCEPT !["mode"] = baseMode(rows[1].desc["fullmode"])]
             res == [r \in Results |-> Cardinality(With(rows, r))]
             s == StatOf(rows, "suspend", Marks(rows, "suspend"))
             t == StatOf(rows, "resume", Marks(rows, "resume"))
             idle == S0ix(rows)
             wifi == Wifi(rows)
             dev == Devices(rows)
             d == [desc |-> desc, count |-> n, res |-> res, s |-> s, r |-> t, s0ix |-> idle,
                   wifi |-> wifi, dev |-> dev, issues |-> DOMAIN sum.issues, health |-> 0]
  <1>1. i = Rated(d)
    BY Zenon DEF info, With
  <1>2. rows \in Seq(Row(W)) /\ n \in Nat \ {0} /\ DOMAIN rows = 1..n
    OBVIOUS
  <1>3. \A r \in Results : res[r] = Cardinality(With(rows, r))
    OBVIOUS
  <1>4. res["pass"] \in 0..n
    <2> DEFINE S == With(rows, "pass")
    <2>1. S \subseteq DOMAIN rows /\ res["pass"] = Cardinality(S)
      BY <1>3 DEF Results, With
    <2> HIDE DEF S, res
    <2> QED BY <1>2, <2>1, SomeRows
  <1>5. idle \in Int /\ idle <= n
    <2> DEFINE S == {j \in DOMAIN rows : rows[j].lpi = "some"}
    <2>1. S \subseteq DOMAIN rows /\ (idle = -1 \/ idle = Cardinality(S))
      BY DEF S0ix
    <2> HIDE DEF S, idle
    <2>2. Cardinality(S) \in 0..n
      BY <1>2, <2>1, SomeRows
    <2> QED BY <1>2, <2>1, <2>2
  <1>6. Times(s) /\ Times(t)
    BY <1>2, MarkedTimes DEF Times
  <1> HIDE DEF desc, res, s, t, idle, wifi, dev
  <1>7. /\ d.count = n /\ d.res = res /\ d.s0ix = idle /\ d.s = s /\ d.r = t /\ d.dev = dev
        /\ \A h : LET e == [d EXCEPT !.health = h]
                  IN e.count = n /\ e.res = res /\ e.s = s /\ e.r = t /\ e.dev = dev /\ e.health = h
    OBVIOUS
  <1> HIDE DEF d
  <1>8. healthCheck(d) \in 0..100
    BY <1>2, <1>4, <1>5, <1>6, <1>7, HealthPercent
  <1>9. i = [d EXCEPT !.health = healthCheck(d)]
    BY <1>1, Zenon DEF Rated
  <1>10. /\ i.count = n /\ i.res = res /\ i.s = s /\ i.r = t /\ i.dev = dev
         /\ i.health = healthCheck(d)
    BY <1>7, <1>9
  <1> QED BY <1>3, <1>6, <1>8, <1>10 DEF dev

(* The figures of a multitest say what its tests did. *)
LEMMA FiguresTrue ==
  ASSUME NEW f, NEW sum, IsReport(f, sum), sum.state = "full",
         NEW of, of = sum.of, NEW i, i = info(sum)
  PROVE  /\ i.count = Len(of)
         /\ \A r \in Results : i.res[r] = Cardinality(Ran(of, r))
         /\ Times(i.s) /\ Times(i.r)
         /\ \A e \in DOMAIN sum.issues : Cardinality(sum.issues[e].tests) <= Len(of)
         /\ i.health \in 0..100
         /\ Uniform(sum.rows) \/ ~data_from_test(of[1], HtmlFirst).ok
         /\ IsDevice(i.dev)
  <1> DEFINE rows == sum.rows
             issues == sum.issues
             n == Len(of)
  <1>1. PICK W : /\ rows \in Seq(Row(W)) /\ issues \in Issues(W, n)
                 /\ n \in Nat \ {0} /\ DOMAIN of = 1..n /\ Len(rows) = n
                 /\ \A j \in 1..n : RowRight(of[j], rows[j])
                 /\ Uniform(rows) \/ ~data_from_test(of[1], HtmlFirst).ok
    BY ReportTells
  <1>2. /\ i.count = n /\ i.dev = Devices(rows)
        /\ \A r \in Results : i.res[r] = Cardinality(With(rows, r))
        /\ Times(i.s) /\ Times(i.r) /\ i.health \in 0..100
    <2>1. rows \in Seq(Row(W)) /\ n \in Nat \ {0} /\ n = Len(rows) /\ rows = sum.rows
      BY <1>1
    <2> HIDE DEF rows, n, issues
    <2>2. i.count = n /\ i.dev = Devices(rows)
      BY <2>1, InfoTells
    <2>3. Times(i.s) /\ Times(i.r) /\ i.health \in 0..100
      BY <2>1, InfoTells
    <2>4. ASSUME NEW r \in Results PROVE i.res[r] = Cardinality(With(rows, r))
      BY <2>1, InfoTells
    <2> QED BY <2>2, <2>3, <2>4
  <1>3. \A e \in DOMAIN issues : Cardinality(issues[e].tests) <= n
    <2>1. ASSUME NEW e \in DOMAIN issues PROVE issues[e].tests \subseteq 1..n
      BY <1>1 DEF Issues
    <2>2. IsFiniteSet(1..n) /\ Cardinality(1..n) = n
      BY <1>1, FS_Interval
    <2> HIDE DEF issues, n
    <2>3. \A S : S \subseteq 1..n => Cardinality(S) <= n
      BY <2>2, FS_Subset
    <2> QED BY <2>1, <2>3
  <1> HIDE DEF rows, n
  <1>4. \A r \in Results : i.res[r] = Cardinality(Ran(of, r))
    <2>1. \A r : With(rows, r) = Ran(of, r)
      BY <1>1, ResultsCounted
    <2> QED BY <1>2, <2>1
  <1>5. IsDevice(i.dev)
    BY <1>1, <1>2, RowsDevice
  <1>6. Uniform(rows) \/ ~data_from_test(of[1], HtmlFirst).ok
    BY <1>1
  <1> QED BY <1>2, <1>3, <1>4, <1>5, <1>6, Zenon DEF rows, n

(* The device in them is in order. *)
LEMMA InfoDevice ==
  ASSUME NEW f, NEW sum, IsReport(f, sum), sum.state = "full"
  PROVE  IsDevice(info(sum).dev)
  <1> DEFINE of == sum.of
             i == info(sum)
  <1> HIDE DEF of, i
  <1>1. of = sum.of /\ i = info(sum)
    BY DEF of, i
  <1>2. IsDevice(i.dev)
    BY <1>1, FiguresTrue
  <1> QED BY <1>2 DEF i

(* Where the summaries are reports and the devices no slower than at their
   worst, the figures are true. *)
LEMMA FigTrue ==
  ASSUME FigInv
  PROVE  CountsTrue
  <1>1. \A k \in DOMAIN overview :
          overview[k].dev.total <= overview[k].dev.count * overview[k].dev.worst
    BY DEF FigInv, IsDevice
  <1>2. ASSUME NEW f \in DOMAIN web, Readable(f), NEW of, of = web[f].sum.of,
               NEW i, i = info(web[f].sum)
        PROVE  /\ i.count = Len(of)
               /\ i.res["pass"] = Cardinality({j \in DOMAIN of : of[j].html = "good" /\ of[j].pass})
               /\ i.res["fail"] = Cardinality({j \in DOMAIN of : of[j].html = "good" /\ ~of[j].pass})
               /\ i.res["hang"] = Cardinality({j \in DOMAIN of : of[j].html # "good" /\ of[j].net})
               /\ i.res["error"] = Cardinality({j \in DOMAIN of : of[j].html # "good" /\ ~of[j].net})
               /\ \A st \in {i.s, i.r} \ {<<>>} : st[3] <= st[2] /\ st[2] <= st[1]
               /\ \A e \in DOMAIN web[f].sum.issues :
                    Cardinality(web[f].sum.issues[e].tests) <= Len(of)
               /\ i.health \in 0..100
               /\ Uniform(web[f].sum.rows) \/ ~data_from_test(of[1], HtmlFirst).ok
    <2> DEFINE sum == web[f].sum
    <2>1. IsReport(f, sum) /\ sum.state = "full" /\ of = sum.of /\ i = info(sum)
      BY <1>2 DEF FigInv, Readable
    <2> HIDE DEF sum
    <2>2. /\ i.count = Len(of)
          /\ \A r \in Results : i.res[r] = Cardinality(Ran(of, r))
          /\ Times(i.s) /\ Times(i.r)
          /\ \A e \in DOMAIN sum.issues : Cardinality(sum.issues[e].tests) <= Len(of)
          /\ i.health \in 0..100
          /\ Uniform(sum.rows) \/ ~data_from_test(of[1], HtmlFirst).ok
      <3>1. i.count = Len(of)
        BY <2>1, FiguresTrue
      <3>2. Times(i.s) /\ Times(i.r)
        BY <2>1, FiguresTrue
      <3>3. i.health \in 0..100
        BY <2>1, FiguresTrue
      <3>4. \A r \in Results : i.res[r] = Cardinality(Ran(of, r))
        BY <2>1, FiguresTrue
      <3>5. \A e \in DOMAIN sum.issues : Cardinality(sum.issues[e].tests) <= Len(of)
        BY <2>1, FiguresTrue
      <3>6. Uniform(sum.rows) \/ ~data_from_test(of[1], HtmlFirst).ok
        BY <2>1, FiguresTrue
      <3> QED BY <3>1, <3>2, <3>3, <3>4, <3>5, <3>6
    <2>3. \A st \in {i.s, i.r} \ {<<>>} : st[3] <= st[2] /\ st[2] <= st[1]
      BY <2>2 DEF Times
    <2>4. /\ i.res["pass"] = Cardinality({j \in DOMAIN of : of[j].html = "good" /\ of[j].pass})
          /\ i.res["fail"] = Cardinality({j \in DOMAIN of : of[j].html = "good" /\ ~of[j].pass})
          /\ i.res["hang"] = Cardinality({j \in DOMAIN of : of[j].html # "good" /\ of[j].net})
          /\ i.res["error"] = Cardinality({j \in DOMAIN of : of[j].html # "good" /\ ~of[j].net})
      <3>1. \A r \in {"pass", "fail", "hang", "error"} : i.res[r] = Cardinality(Ran(of, r))
        BY <2>2 DEF Results
      <3> QED BY <3>1, Outcomes
    <2> QED BY <2>2, <2>3, <2>4, Zenon DEF sum
  <1> QED BY <1>1, <1>2, Zenon DEF CountsTrue

-----------------------------------------------------------------------------
(* What the summaries say stays true.                                        *)

\* No folder is taken away, the links lead to folders, and the summaries and
\* overviews there are tell the truth.
TrueStill ==
  /\ DOMAIN web \subseteq DOMAIN web' /\ IsFiniteSet(DOMAIN web') /\ IsSeq(testcache')
  /\ IsFiniteSet(links') /\ \A l \in links' : l[3] \in DOMAIN web'
  /\ \A f \in DOMAIN web' : IsReport(f, web'[f].sum)
  /\ \A k \in DOMAIN overview' : IsDevice(overview'[k].dev)

(* It is so when none of them is touched. *)
LEMMA SameTrue ==
  ASSUME FigInv, UNCHANGED <<web, testcache, links, overview>>
  PROVE  TrueStill
  BY DEF FigInv, TrueStill, IsSeq

(* What one instance does changes nothing in what another works on. *)
LEMMA OthersFig ==
  ASSUME FigInv, NEW p \in Proc, Alone(p), TrueStill, InWeb(p)', Truthful(p)'
  PROVE  FigInv'
  <1>1. ASSUME NEW q \in Proc, q # p PROVE InWeb(q)' /\ Truthful(q)'
    <2>1. job'[q] = job[q] /\ InWeb(q) /\ Truthful(q) /\ DOMAIN web \subseteq DOMAIN web'
      BY <1>1 DEF Alone, FigInv, TrueStill
    <2>2. InWeb(q)'
      BY <2>1 DEF InWeb, Listed, AfterCopy
    <2>3. Truthful(q)'
      BY <2>1 DEF Truthful
    <2> QED BY <2>2, <2>3
  <1> QED BY <1>1 DEF FigInv, TrueStill

(* A step that does not begin to copy or to write a summary: what there is to
   work on is in the web folder, or there is nothing yet. *)
LEMMA OnFig ==
  ASSUME FigInv, NEW p \in Proc, Alone(p), TrueStill,
         IsSeq(job'[p].mts), Listed(job'[p].todo), DOMAIN job'[p].det \subseteq DOMAIN web,
         job'[p].step \notin {"copy", "repwrite"},
         \/ Listed(job'[p].mts)
         \/ job'[p].step \in {"out", "begin"}
         \/ job'[p].step = "timelines" /\ job'[p].args.tars # <<>>,
         IsSeq(job'[p].list), \A e \in Range(job'[p].list) : IsDevice(e.fig.dev)
  PROVE  FigInv'
  <1>1. DOMAIN web \subseteq DOMAIN web'
    BY DEF TrueStill
  <1>2. InWeb(p)'
    BY <1>1 DEF InWeb, Listed, AfterCopy
  <1>3. Truthful(p)'
    BY DEF Truthful
  <1> QED BY <1>2, <1>3, OthersFig

(* An instance that is not at work yet. *)
LEMMA WaitsFig ==
  ASSUME IInv, RIInv, FigInv, NEW p \in Proc, Start(p) \/ Try(p) \/ WaitOne(p)
  PROVE  FigInv'
  <1> USE Fields_ DEF RIInv, RTypeOK
  <1>1. Waits(p)
    BY StartWaits, TryWaits, WaitOneWaits
  <1>2. TrueStill
    BY SameTrue DEF Start, Try, WaitOne, shared
  <1>3. \/ /\ job'[p].mts = job[p].mts /\ job'[p].todo = job[p].todo
           /\ job'[p].det = job[p].det /\ job'[p].list = job[p].list
        \/ job'[p] = Idle
    <2>1. CASE Start(p)
      <3>1. PICK a \in Jobs[p] : job' = [job EXCEPT ![p].args = a]
        BY <2>1 DEF Start
      <3> QED BY <3>1 DEF Fields
    <2>2. CASE Try(p)
      <3>1. job' = [job EXCEPT ![p].step = "begin"] \/ job' = job
        BY <2>2 DEF Try
      <3> QED BY <3>1 DEF Fields
    <2>3. CASE WaitOne(p)
      <3>1. job' = [job EXCEPT ![p] = Idle] \/ job' = job
        BY <2>3 DEF WaitOne
      <3> QED BY <3>1 DEF Fields
    <2> QED BY <2>1, <2>2, <2>3
  <1>4. InWeb(p) /\ Truthful(p)
    BY DEF FigInv
  <1>5. /\ IsSeq(Idle.mts) /\ Listed(Idle.todo) /\ DOMAIN Idle.det = {}
        /\ IsSeq(Idle.list) /\ Range(Idle.list) = {}
    BY DEF Idle, IsSeq, Listed, NoRows, Range
  <1> QED BY <1>1, <1>2, <1>3, <1>4, <1>5, OnFig DEF Waits, InWeb, Truthful

(* An instance that ends. *)
LEMMA IdleFig ==
  ASSUME FigInv, NEW p \in Proc, Alone(p), job'[p] = Idle, TrueStill
  PROVE  FigInv'
  <1>1. /\ IsSeq(Idle.mts) /\ Listed(Idle.todo) /\ DOMAIN Idle.det = {}
        /\ IsSeq(Idle.list) /\ Range(Idle.list) = {} /\ Idle.step = "out"
    BY DEF Idle, IsSeq, Listed, NoRows, Range
  <1> QED BY <1>1, OnFig

(* Whatever it ends on. *)
LEMMA EndsFig ==
  ASSUME RIInv, FigInv, NEW p \in Proc,
         \/ Crash(p) \/ Trash(p)
         \/ /\ Leave(p)
            /\ Unpack(p) \/ Find(p) \/ ReportsDone(p) \/ ReadSummary(p) \/ Summary(p)
  PROVE  FigInv'
  <1>1. Leaves(p)
    BY CrashLeaves, TrashLeaves, UnpackLeaves, FindLeaves, ReportsDoneLeaves,
       ReadSummaryLeaves, SummaryLeaves
  <1>2. UNCHANGED <<testcache, links, overview>>
    <2>1. CASE Unpack(p) \/ Find(p) \/ ReadSummary(p)
      BY <2>1 DEF Unpack, Find, ReadSummary, shared
    <2>2. CASE Crash(p) \/ Trash(p) \/ ReportsDone(p) \/ Summary(p)
      BY <2>2 DEF Crash, Trash, ReportsDone, Summary
    <2> QED BY <2>1, <2>2
  <1>3. DOMAIN web' = DOMAIN web /\ \A f \in DOMAIN web : web'[f].sum = web[f].sum
    <2>1. CASE Crash(p)
      <3>1. ASSUME NEW c, NEW v, c.to \in DOMAIN web,
                   web' = [web EXCEPT ![c.to].tests = v]
            PROVE  DOMAIN web' = DOMAIN web /\ \A f \in DOMAIN web : web'[f].sum = web[f].sum
        BY <3>1 DEF RIInv, RTypeOK
      <3>2. UNCHANGED web \/ \E c, v : c.to \in DOMAIN web /\ web' = [web EXCEPT ![c.to].tests = v]
        BY <2>1 DEF Crash
      <3> QED BY <3>1, <3>2
    <2>2. CASE Unpack(p) \/ Find(p) \/ ReadSummary(p)
      BY <2>2 DEF Unpack, Find, ReadSummary, shared
    <2>3. CASE Trash(p) \/ ReportsDone(p) \/ Summary(p)
      BY <2>3 DEF Trash, ReportsDone, Summary
    <2> QED BY <2>1, <2>2, <2>3
  <1>4. TrueStill
    BY <1>2, <1>3 DEF TrueStill, FigInv, IsSeq
  <1> QED BY <1>1, <1>4, IdleFig DEF Leaves

(* A walk or a look into the list of multitests finds folders that are there. *)
LEMMA FoundListed ==
  ASSUME FigInv, NEW p, NEW k
  PROVE  Listed(Found(p, k)) /\ Listed(load_cache(k))
  <1> DEFINE S == {f \in DOMAIN web : k = NoName \/ f.kernel = k}
             walk == SetToSeq(S)
             look == Among(testcache, S)
  <1>1. IsFiniteSet(S) /\ S \subseteq DOMAIN web
    BY FS_Subset DEF FigInv
  <1>2. testcache \in Seq(Range(testcache))
    BY DEF FigInv, IsSeq
  <1>3. Found(p, k) \in {walk, look} /\ load_cache(k) = look
    BY DEF Found, load_cache, WalkWeb
  <1> HIDE DEF S
  <1>4. walk \in Seq(S) /\ Range(walk) = S
    BY <1>1, SequenceOfSet
  <1>5. look \in Seq(Range(testcache)) /\ Range(look) \subseteq S
    BY <1>2, AmongElements
  <1> HIDE DEF walk, look
  <1>6. IsSeq(walk) /\ IsSeq(look)
    BY <1>4, <1>5, SeqOfRange DEF IsSeq
  <1> QED BY <1>1, <1>3, <1>4, <1>5, <1>6 DEF Listed

(* What is unpacked is no folder yet. *)
LEMMA UnpackFig ==
  ASSUME RIInv, FigInv, NEW p \in Proc, Unpack(p), ~Leave(p)
  PROVE  FigInv'
  <1> USE Fields_
  <1> DEFINE q == FlattenSeq([i \in DOMAIN job[p].args.tars |-> Tarball[job[p].args.tars[i]]])
  <1>1. /\ job' = [job EXCEPT ![p].step = "timelines", ![p].mts = q]
        /\ UNCHANGED shared /\ job[p].args.tars # <<>>
    BY DEF Unpack
  <1>2. IsSeq(q)
    BY <1>1, UnpackAll DEF RIInv, RTypeOK
  <1> HIDE DEF q
  <1>3. /\ Alone(p) /\ job'[p].step = "timelines" /\ job'[p].mts = q
        /\ job'[p].args = job[p].args /\ job'[p].todo = job[p].todo
        /\ job'[p].det = job[p].det /\ job'[p].list = job[p].list
    BY <1>1 DEF Alone, Fields, RIInv, RTypeOK
  <1>4. InWeb(p) /\ Truthful(p)
    BY DEF FigInv
  <1>5. TrueStill
    BY <1>1, SameTrue DEF shared
  <1> QED BY <1>1, <1>2, <1>3, <1>4, <1>5, OnFig DEF InWeb, Truthful

(* What is found is a folder. *)
LEMMA FindFig ==
  ASSUME RIInv, FigInv, NEW p \in Proc, Find(p), ~Leave(p)
  PROVE  FigInv'
  <1> USE Fields_
  <1> DEFINE q == Found(p, NoName)
             s == IF job[p].args.cache THEN "timelines" ELSE "tcread"
  <1>1. job' = [job EXCEPT ![p].step = s, ![p].mts = q] /\ UNCHANGED shared
    BY DEF Find
  <1>2. Listed(q)
    BY FoundListed
  <1> HIDE DEF q
  <1>3. /\ Alone(p) /\ job'[p].step = s /\ job'[p].mts = q /\ job'[p].todo = job[p].todo
        /\ job'[p].det = job[p].det /\ job'[p].list = job[p].list
    BY <1>1 DEF Alone, Fields, RIInv, RTypeOK
  <1>4. InWeb(p) /\ Truthful(p)
    BY DEF FigInv
  <1>5. TrueStill
    BY <1>1, SameTrue DEF shared
  <1> QED BY <1>2, <1>3, <1>4, <1>5, OnFig DEF InWeb, Truthful, Listed

(* Behind the copies an instance goes on with the folders it has. *)
LEMMA AfterFig ==
  ASSUME RIInv, FigInv, NEW p \in Proc, Alone(p), AfterCopy(p), TrueStill,
         job'[p].step \notin {"copy", "repwrite"}, job'[p].mts = job[p].mts,
         job'[p].todo \in {job[p].todo, job[p].mts}, job'[p].det = job[p].det,
         job'[p].list \in {job[p].list, <<>>}
  PROVE  FigInv'
  <1>1. InWeb(p) /\ Truthful(p)
    BY DEF FigInv
  <1>2. IsSeq(<<>>) /\ Range(<<>>) = {}
    BY DEF IsSeq, Range
  <1> QED BY <1>1, <1>2, OnFig DEF InWeb, Truthful, Listed

(* The list of multitests is read, and what is not in it is appended. *)
LEMMA CacheFig ==
  ASSUME RIInv, FigInv, NEW p \in Proc, CacheRead(p) \/ CacheAppend(p)
  PROVE  FigInv'
  <1> USE Fields_
  <1>1. CASE CacheRead(p)
    <2> DEFINE q == Range(load_cache(NoName))
    <2>1. /\ job' = [job EXCEPT ![p].step = "tcappend", ![p].got = q]
          /\ UNCHANGED shared /\ job[p].step = "tcread"
      BY <1>1 DEF CacheRead
    <2> HIDE DEF q
    <2>2. /\ Alone(p) /\ job'[p].step = "tcappend" /\ job'[p].mts = job[p].mts
          /\ job'[p].todo = job[p].todo /\ job'[p].det = job[p].det
          /\ job'[p].list = job[p].list
      BY <2>1 DEF Alone, Fields, RIInv, RTypeOK
    <2> QED BY <2>1, <2>2, SameTrue, AfterFig DEF AfterCopy, shared
  <1>2. CASE CacheAppend(p)
    <2> DEFINE new == Among(job[p].mts, Range(job[p].mts) \ job[p].got)
               s == IF job[p].targets # <<>> THEN "sumread"
                    ELSE IF job[p].args.tars # <<>> THEN "link" ELSE "timelines"
    <2>1. /\ job' = [job EXCEPT ![p].got = {}, ![p].step = s]
          /\ testcache' = testcache \o new /\ UNCHANGED <<web, links, overview>>
          /\ job[p].step = "tcappend"
      BY <1>2 DEF CacheAppend
    <2>2. IsSeq(testcache')
      <3> DEFINE T == Range(testcache) \cup Range(job[p].mts)
                 c == testcache'
      <3>1. testcache \in Seq(T) /\ job[p].mts \in Seq(T)
        BY DEF FigInv, InWeb, IsSeq
      <3> HIDE DEF T
      <3>2. new \in Seq(T)
        BY <3>1, AmongElements
      <3> HIDE DEF new
      <3>3. c \in Seq(T)
        BY <2>1, <3>1, <3>2, RangeConcat
      <3> HIDE DEF c
      <3>4. IsSeq(c)
        BY <3>3, SeqOfRange DEF IsSeq
      <3> QED BY <3>4 DEF c
    <2> HIDE DEF new
    <2>3. /\ Alone(p) /\ job'[p].step = s /\ job'[p].mts = job[p].mts
          /\ job'[p].todo = job[p].todo /\ job'[p].det = job[p].det
          /\ job'[p].list = job[p].list
      BY <2>1 DEF Alone, Fields, RIInv, RTypeOK
    <2>4. TrueStill
      BY <2>1, <2>2 DEF TrueStill, FigInv
    <2>5. AfterCopy(p) /\ job'[p].step \notin {"copy", "repwrite"}
      BY <2>1, <2>3 DEF AfterCopy
    <2> HIDE DEF s
    <2> QED BY <2>3, <2>4, <2>5, AfterFig
  <1> QED BY <1>1, <1>2

(* The categories are those of folders. *)
LEMMA CategorizeFig ==
  ASSUME RIInv, FigInv, NEW p \in Proc, Categorize(p)
  PROVE  FigInv'
  <1> USE Fields_
  <1> DEFINE det == [f \in {g \in Range(job[p].mts) : Named(web[g].tests) # {}} |->
                       categorize_by_timeline(web[f].tests)]
  <1>1. /\ job' = [job EXCEPT ![p].step = "link", ![p].det = det]
        /\ UNCHANGED shared /\ job[p].step = "categorize"
    BY DEF Categorize
  <1>2. InWeb(p) /\ Truthful(p) /\ Listed(job[p].mts)
    BY <1>1 DEF FigInv, InWeb, AfterCopy
  <1>3. DOMAIN det \subseteq DOMAIN web
    BY <1>2 DEF Listed
  <1> HIDE DEF det
  <1>4. /\ Alone(p) /\ job'[p].step = "link" /\ job'[p].mts = job[p].mts
        /\ job'[p].todo = job[p].todo /\ job'[p].det = det /\ job'[p].list = job[p].list
    BY <1>1 DEF Alone, Fields, RIInv, RTypeOK
  <1>5. TrueStill
    BY <1>1, SameTrue DEF shared
  <1> QED BY <1>2, <1>3, <1>4, <1>5, OnFig DEF InWeb, Truthful

(* The links lead to folders. *)
LEMMA LinkFig ==
  ASSUME RIInv, FigInv, NEW p \in Proc, Link(p)
  PROVE  FigInv'
  <1> USE Fields_
  <1> DEFINE s == IF job[p].args.sort THEN "catsum" ELSE "report"
             det == job[p].det
  <1>1. /\ job' = [job EXCEPT ![p].step = s, ![p].todo = job[p].mts]
        /\ links' = links \cup datasort(det) /\ UNCHANGED <<web, testcache, overview>>
        /\ job[p].step = "link"
    BY DEF Link
  <1>2. /\ Alone(p) /\ job'[p].step = s /\ job'[p].mts = job[p].mts
        /\ job'[p].todo = job[p].mts /\ job'[p].det = job[p].det
        /\ job'[p].list = job[p].list
    BY <1>1 DEF Alone, Fields, RIInv, RTypeOK
  <1>3. DOMAIN det \subseteq DOMAIN web /\ IsFiniteSet(DOMAIN web)
    BY DEF FigInv, InWeb
  <1> HIDE DEF det
  <1>4. /\ IsFiniteSet(datasort(det))
        /\ \A l \in datasort(det) : l[3] \in DOMAIN det
    <2> DEFINE R == {g \in DOMAIN det : det[g].rc # NoName}
               M == {g \in DOMAIN det : det[g].machine # NoName}
               rc == [f \in R |-> <<"rc", det[f].rc, f>>]
               machine == [f \in M |-> <<"machine", det[f].machine, f>>]
    <2>1. datasort(det) = {rc[f] : f \in R} \cup {machine[f] : f \in M}
      BY DEF datasort
    <2>2. IsFiniteSet(R) /\ IsFiniteSet(M)
      BY <1>3, FS_Subset
    <2>3. DOMAIN rc = R /\ DOMAIN machine = M
      OBVIOUS
    <2>4. /\ \A f \in R : rc[f][3] \in DOMAIN det
          /\ \A f \in M : machine[f][3] \in DOMAIN det
      OBVIOUS
    <2> HIDE DEF R, M, rc, machine
    <2>5. IsFiniteSet({rc[f] : f \in R}) /\ IsFiniteSet({machine[f] : f \in M})
      BY <2>2, <2>3, FiniteImage
    <2>6. IsFiniteSet(datasort(det))
      <3> DEFINE A == {rc[f] : f \in R}
                 B == {machine[f] : f \in M}
      <3>1. IsFiniteSet(A) /\ IsFiniteSet(B) /\ datasort(det) = A \cup B
        BY <2>1, <2>5
      <3> HIDE DEF A, B
      <3> QED BY <3>1, FS_Union
    <2> QED BY <2>1, <2>4, <2>6
  <1>5. TrueStill
    <2>1. IsFiniteSet(links')
      BY <1>1, <1>4, FS_Union DEF FigInv
    <2> QED BY <1>1, <1>3, <1>4, <2>1 DEF TrueStill, FigInv, IsSeq
  <1>6. AfterCopy(p) /\ job'[p].step \notin {"copy", "repwrite"}
    BY <1>1, <1>2 DEF AfterCopy
  <1> HIDE DEF s
  <1> QED BY <1>2, <1>5, <1>6, AfterFig

(* A summary stays what it was when timelines are made, and what is unpacked has
   a copy to make for each folder it belongs to. *)
LEMMA TimelinesFig ==
  ASSUME RIInv, FigInv, NEW p \in Proc, Timelines(p)
  PROVE  FigInv'
  <1> USE Fields_
  <1>1. UNCHANGED <<testcache, links, overview>> /\ job[p].step = "timelines"
    BY DEF Timelines
  <1>2. InWeb(p) /\ Truthful(p)
    BY DEF FigInv
  <1>3. CASE job[p].args.tars = <<>>
    <2>1. PICK failing :
            /\ job' = [job EXCEPT ![p].step = "categorize"]
            /\ web' = [f \in DOMAIN web |->
                         IF f \in Range(job[p].mts) THEN WithHtml(web[f], failing) ELSE web[f]]
      BY <1>3, Zenon DEF Timelines
    <2>2. /\ Alone(p) /\ job'[p].step = "categorize" /\ job'[p].mts = job[p].mts
          /\ job'[p].todo = job[p].todo /\ job'[p].det = job[p].det
          /\ job'[p].list = job[p].list
      BY <2>1 DEF Alone, Fields, RIInv, RTypeOK
    <2>3. DOMAIN web' = DOMAIN web /\ \A f \in DOMAIN web : web'[f].sum = web[f].sum
      <3>1. \A f \in DOMAIN web : WithHtml(web[f], failing).sum = web[f].sum
        BY DEF RIInv, RTypeOK, WithHtml
      <3> QED BY <2>1, <3>1
    <2>4. TrueStill
      BY <1>1, <2>3 DEF TrueStill, FigInv, IsSeq
    <2>5. Listed(job[p].mts)
      BY <1>1, <1>2, <1>3 DEF InWeb
    <2> QED BY <1>2, <2>2, <2>4, <2>5, OnFig DEF InWeb, Truthful
  <1>4. CASE job[p].args.tars # <<>>
    <2>1. PICK failing :
            /\ job' = [job EXCEPT ![p].step = "copy", ![p].mts = AllWithHtml(job[p].mts, failing),
                              ![p].copies = Copies(AllWithHtml(job[p].mts, failing))]
            /\ UNCHANGED web
      BY <1>4, Zenon DEF Timelines
    <2> DEFINE mts == AllWithHtml(job[p].mts, failing)
               cs == Copies(mts)
    <2>2. job' = [job EXCEPT ![p].step = "copy", ![p].mts = mts, ![p].copies = cs]
      BY <2>1
    <2>3. IsSeq(mts)
      <3>1. Range(job[p].mts) = Contents(job[p].args.tars) /\ IsSeq(job[p].mts)
        BY <1>1, <1>2, <1>4 DEF RIInv, UnpackInv, Brought, Contents, InWeb
      <3>2. job[p].args.tars \in Seq(DOMAIN Tarball)
        BY DEF RIInv, RTypeOK
      <3>3. IsSeq(mts) /\ Places(Placed(mts))
              = Places(UNION {Placed(Tarball[t]) : t \in Range(job[p].args.tars)})
        BY <3>1, <3>2, PlacesStay
      <3> QED BY <3>3
    <2>4. ASSUME NEW i \in DOMAIN mts, Named(mts[i].tests) # {}
          PROVE  \E c \in cs : c.at = i
      <3> HIDE DEF mts
      <3>1. Named(mts[i].tests) \subseteq DOMAIN mts[i].tests
        BY DEF Named
      <3>2. PICK n \in DOMAIN mts[i].tests : TRUE
        BY <2>4, <3>1
      <3> DEFINE c == CopyOf(mts, i, n)
      <3>3. c \in cs
        BY <2>4, <3>2, OneCopy
      <3>4. c.at = i
        BY DEF CopyOf
      <3> QED BY <3>3, <3>4
    <2> HIDE DEF mts, cs
    <2>5. /\ Alone(p) /\ job'[p].step = "copy" /\ job'[p].mts = mts /\ job'[p].copies = cs
          /\ job'[p].todo = job[p].todo /\ job'[p].det = job[p].det
          /\ job'[p].list = job[p].list
      BY <2>2 DEF Alone, Fields, RIInv, RTypeOK
    <2>6. InWeb(p)'
      BY <1>2, <2>1, <2>3, <2>4, <2>5 DEF InWeb, AfterCopy, Listed
    <2>7. Truthful(p)'
      BY <1>2, <2>5 DEF Truthful
    <2> QED BY <1>1, <2>1, <2>5, <2>6, <2>7, SameTrue, OthersFig
  <1> QED BY <1>3, <1>4

(* A copy makes a folder without a summary or leaves the summary that is there,
   and when all are made the multitests have their folders. *)
LEMMA CopyFig ==
  ASSUME RIInv, FigInv, NEW p \in Proc, Copy(p)
  PROVE  FigInv'
  <1> USE Fields_
  <1>1. UNCHANGED <<testcache, links, overview>> /\ job[p].step = "copy"
    BY DEF Copy
  <1>2. InWeb(p) /\ Truthful(p)
    BY DEF FigInv
  <1>3. ASSUME NEW c \in job[p].copies, web' = CopyOne(c),
               job' = [job EXCEPT ![p].copies = @ \ {c}]
        PROVE  FigInv'
    <2>1. /\ Alone(p) /\ job'[p].step = "copy" /\ job'[p].mts = job[p].mts
          /\ job'[p].copies = job[p].copies \ {c}
          /\ job'[p].todo = job[p].todo /\ job'[p].det = job[p].det
          /\ job'[p].list = job[p].list
      BY <1>1, <1>3 DEF Alone, Fields, RIInv, RTypeOK
    <2>2. /\ DOMAIN web' = DOMAIN web \cup {c.to}
          /\ \A f \in DOMAIN web : web'[f].sum = web[f].sum
          /\ c.to \notin DOMAIN web => web'[c.to].sum = NoSum
      <3>1. CASE c.to \in DOMAIN web
        <4> DEFINE v == Put(web[c.to].tests, c.n, c.test)
        <4>1. web' = [web EXCEPT ![c.to].tests = v]
          BY <1>3, <3>1 DEF CopyOne
        <4> HIDE DEF v
        <4> QED BY <3>1, <4>1 DEF RIInv, RTypeOK
      <3>2. CASE c.to \notin DOMAIN web
        <4> DEFINE v == Put(NoRows, c.n, c.test)
        <4>1. web' = Put(web, c.to, [tests |-> v, sum |-> NoSum])
          BY <1>3, <3>2 DEF CopyOne
        <4> HIDE DEF v
        <4> QED BY <3>2, <4>1 DEF Put
      <3> QED BY <3>1, <3>2
    <2>3. TrueStill
      <3>1. IsFiniteSet(DOMAIN web')
        BY <2>2, FS_AddElement DEF FigInv
      <3>2. \A f : IsReport(f, NoSum)
        BY DEF IsReport, NoSum
      <3>3. \A f \in DOMAIN web' : IsReport(f, web'[f].sum)
        <4> HIDE DEF NoSum
        <4> QED BY <2>2, <3>2 DEF FigInv
      <3> QED BY <1>1, <2>2, <3>1, <3>3 DEF TrueStill, FigInv, IsSeq
    <2>4. InWeb(p)'
      <3>1. c.at \in DOMAIN job[p].mts /\ c.to = OutDir(job[p].mts[c.at])
        BY <1>1, <1>3 DEF RIInv, CopiesInv, Sourced
      <3>2. ASSUME NEW i \in DOMAIN job[p].mts, Named(job[p].mts[i].tests) # {}
            PROVE  OutDir(job[p].mts[i]) \in DOMAIN web' \/ \E d \in job'[p].copies : d.at = i
        <4>1. OutDir(job[p].mts[i]) \in DOMAIN web \/ \E d \in job[p].copies : d.at = i
          BY <1>1, <1>2, <3>2 DEF InWeb
        <4> QED BY <2>1, <2>2, <3>1, <4>1
      <3> QED BY <1>1, <1>2, <2>1, <2>2, <3>2 DEF InWeb, AfterCopy, Listed
    <2>5. Truthful(p)'
      BY <1>1, <1>2, <2>1 DEF Truthful
    <2> QED BY <2>1, <2>3, <2>4, <2>5, OthersFig
  <1> DEFINE mts == OutDirs(Sortable(job[p].mts))
             det == Details(Sortable(job[p].mts))
  <1>4. ASSUME job[p].copies = {}, UNCHANGED web,
               job' = [job EXCEPT ![p].step = "tcread", ![p].mts = mts, ![p].det = det]
        PROVE  FigInv'
    <2>1. Listed(mts) /\ DOMAIN det \subseteq DOMAIN web
      <3> DEFINE q == Sortable(job[p].mts)
      <3>1. IsSeq(job[p].mts) /\ \A mt \in Placed(job[p].mts) : OutDir(mt) \in DOMAIN web
        BY <1>1, <1>2, <1>4 DEF InWeb, Placed, Range
      <3>2. q \in Seq(Range(job[p].mts)) /\ Range(q) \subseteq Placed(job[p].mts)
        BY <3>1, AmongElements DEF Sortable, IsSeq
      <3>3. IsSeq(q)
        BY <3>2, SeqOfRange DEF IsSeq
      <3> HIDE DEF q
      <3>4. /\ Range(OutDirs(q)) = {OutDir(mt) : mt \in Range(q)} /\ IsSeq(OutDirs(q))
            /\ DOMAIN Details(q) = Range(OutDirs(q))
        BY <3>3, DetailsOf
      <3>5. Range(OutDirs(q)) \subseteq DOMAIN web
        BY <3>1, <3>2, <3>4
      <3> QED BY <3>4, <3>5 DEF Listed, q
    <2> HIDE DEF mts, det
    <2>2. /\ Alone(p) /\ job'[p].step = "tcread" /\ job'[p].mts = mts /\ job'[p].det = det
          /\ job'[p].todo = job[p].todo /\ job'[p].list = job[p].list
      BY <1>4 DEF Alone, Fields, RIInv, RTypeOK
    <2> QED BY <1>1, <1>2, <1>4, <2>1, <2>2, SameTrue, OnFig DEF InWeb, Truthful, Listed
  <1>5. \/ \E c \in MayCopy(job[p].copies) :
             web' = CopyOne(c) /\ job' = [job EXCEPT ![p].copies = @ \ {c}]
        \/ /\ job[p].copies = {} /\ UNCHANGED web
           /\ job' = [job EXCEPT ![p].step = "tcread", ![p].mts = mts, ![p].det = det]
    BY DEF Copy
  <1> HIDE DEF mts, det
  <1> QED BY <1>3, <1>4, <1>5 DEF MayCopy

(* A skip leaves the copies of every multitest but the one it drops. *)
LEMMA SkipFig ==
  ASSUME RIInv, FigInv, NEW p \in Proc, Skip(p)
  PROVE  FigInv'
  <1>1. /\ AtWork(p) /\ job[p].step = "copy" /\ job'[p].step = "copy"
        /\ UNCHANGED <<web, testcache, links, overview>>
        /\ job'[p].todo = job[p].todo /\ job'[p].det = job[p].det
        /\ job'[p].list = job[p].list
    BY SkipMoves DEF shared
  <1>2. PICK c \in job[p].copies :
          /\ c.at \in DOMAIN job[p].mts
          /\ job'[p].copies = {d \in job[p].copies : d.at # c.at}
          /\ job'[p].mts = [job[p].mts EXCEPT ![c.at] = NoMultitest]
    BY SkipMoves
  <1>3. InWeb(p) /\ Truthful(p)
    BY DEF FigInv
  <1> DEFINE old == job[p].mts
             new == job'[p].mts
  <1>4. IsSeq(old)
    BY <1>3 DEF InWeb
  <1> HIDE DEF old, new
  <1>5. c.at \in DOMAIN old /\ new = [old EXCEPT ![c.at] = NoMultitest]
    BY <1>2 DEF old, new
  <1>6. IsSeq(new)
    <2>1. Len(old) \in Nat /\ DOMAIN old = 1..Len(old) /\ new \in [1..Len(old) -> Range(new)]
      BY <1>4, <1>5 DEF IsSeq, Range
    <2> QED BY <2>1 DEF IsSeq
  <1>7. Named(NoMultitest.tests) = {}
    BY DEF Named, NoMultitest, NoRows
  <1>8. ASSUME NEW i \in DOMAIN new, Named(new[i].tests) # {}
        PROVE  OutDir(new[i]) \in DOMAIN web \/ \E d \in job'[p].copies : d.at = i
    <2>1. i \in DOMAIN old /\ i # c.at /\ new[i] = old[i]
      BY <1>5, <1>7, <1>8
    <2>2. OutDir(old[i]) \in DOMAIN web \/ \E d \in job[p].copies : d.at = i
      BY <1>1, <1>3, <1>8, <2>1 DEF InWeb, old
    <2> QED BY <1>2, <2>1, <2>2
  <1>9. InWeb(p)'
    BY <1>1, <1>3, <1>6, <1>8 DEF InWeb, Listed, AfterCopy, IsSeq, new
  <1>10. Truthful(p)'
    BY <1>1, <1>3 DEF Truthful
  <1> QED BY <1>1, <1>9, <1>10, SameTrue, OthersFig DEF AtWork

(* What is left of a list of folders is one, and so is a longer list. *)
LEMMA LessListed ==
  ASSUME NEW s, Listed(s)
  PROVE  /\ \A i \in DOMAIN s : Listed(RemoveAt(s, i)) /\ s[i] \in DOMAIN web
         /\ s # <<>> => Head(s) \in DOMAIN web /\ Listed(Tail(s))
  <1> DEFINE T == DOMAIN web
             n == Len(s)
  <1>1. s \in Seq(T) /\ n \in Nat /\ DOMAIN s = 1..n
    BY DEF Listed, IsSeq
  <1>2. ASSUME NEW q \in Seq(T) PROVE Listed(q)
    BY <1>2, SeqOfRange DEF Listed, IsSeq, Range
  <1> HIDE DEF T
  <1>3. ASSUME NEW i \in 1..n PROVE RemoveAt(s, i) \in Seq(T) /\ s[i] \in T
    <2> HIDE DEF n
    <2>1. SubSeq(s, 1, i - 1) \in Seq(T) /\ SubSeq(s, i + 1, n) \in Seq(T)
      BY <1>1, SubSeqProperties DEF n
    <2>2. RemoveAt(s, i) \in Seq(T)
      BY <2>1, RangeConcat DEF RemoveAt, n
    <2> QED BY <1>1, <2>2 DEF n
  <1>4. ASSUME s # <<>> PROVE Head(s) \in T /\ Tail(s) \in Seq(T)
    BY <1>1, <1>4
  <1> QED BY <1>1, <1>2, <1>3, <1>4 DEF T

(* One entry more in a list of which every device is in order. *)
LEMMA LongerList ==
  ASSUME NEW s, IsSeq(s), NEW e, IsDevice(e.fig.dev), \A d \in Range(s) : IsDevice(d.fig.dev)
  PROVE  /\ IsSeq(Append(s, e))
         /\ \A d \in Range(Append(s, e)) : IsDevice(d.fig.dev)
  <1> DEFINE T == Range(s) \cup {e}
  <1>1. s \in Seq(T) /\ e \in T
    BY DEF IsSeq
  <1>2. \A d \in T : IsDevice(d.fig.dev)
    OBVIOUS
  <1> HIDE DEF T
  <1>3. Append(s, e) \in Seq(T)
    BY <1>1
  <1>4. Range(Append(s, e)) \subseteq T
    <2> DEFINE q == Append(s, e)
    <2> HIDE DEF q
    <2>1. q \in Seq(T)
      BY <1>3 DEF q
    <2> QED BY <2>1 DEF Range, q
  <1> QED BY <1>2, <1>3, <1>4, SeqOfRange DEF IsSeq

(* A report is made of the tests in a folder and written after the summary was
   emptied. *)
LEMMA ReportFig ==
  ASSUME RIInv, FigInv, NEW p \in Proc, Report(p)
  PROVE  FigInv'
  <1> USE Fields_
  <1>1. UNCHANGED <<testcache, links, overview>> /\ job[p].step = "report" /\ job[p].todo # <<>>
    BY DEF Report
  <1>2. InWeb(p) /\ Truthful(p) /\ Listed(job[p].mts)
    BY <1>1 DEF FigInv, InWeb, AfterCopy
  <1>3. PICK i \in DOMAIN job[p].todo :
          LET f == job[p].todo[i]
              tests == InOrder(web[f].tests)
              r == pm_graph_report(f, tests)
          IN IF r.ok
             THEN /\ web' = [web EXCEPT ![f].sum = [NoSum EXCEPT !.state = "part"]]
                  /\ job' = [job EXCEPT ![p].step = "repwrite", ![p].todo = RemoveAt(@, i),
                               ![p].got = {[to |-> f, sum |-> [state |-> "full", rows |-> r.rows,
                                                        issues |-> r.issues, of |-> tests]]}]
             ELSE /\ job' = [job EXCEPT ![p].todo = RemoveAt(@, i)]
                  /\ UNCHANGED web
    <2>1. 1 \in DOMAIN job[p].todo
      <3> DEFINE s == job[p].todo
      <3>1. s \in Seq(Range(s)) /\ s # <<>>
        BY <1>1, <1>2 DEF InWeb, Listed, IsSeq
      <3> HIDE DEF s
      <3>2. 1 \in DOMAIN s
        BY <3>1
      <3> QED BY <3>2 DEF s
    <2> QED BY <2>1, Zenon DEF Report
  <1> DEFINE f == job[p].todo[i]
             tests == InOrder(web[f].tests)
             r == pm_graph_report(f, tests)
             sum == [state |-> "full", rows |-> r.rows, issues |-> r.issues, of |-> tests]
             new == [to |-> f, sum |-> sum]
             part == [NoSum EXCEPT !.state = "part"]
             todo == RemoveAt(job[p].todo, i)
  <1>4. f \in DOMAIN web /\ Listed(todo)
    BY <1>2, LessListed DEF InWeb
  <1>5. DOMAIN web[f] = {"tests", "sum"} /\ HasTests(web[f].tests)
    BY <1>4 DEF RIInv, RTypeOK
  <1>6. CASE r.ok
    <2>1. /\ web' = [web EXCEPT ![f].sum = part]
          /\ job' = [job EXCEPT ![p].step = "repwrite", ![p].todo = todo, ![p].got = {new}]
      BY <1>3, <1>6, Zenon
    <2>2. IsReport(f, sum)
      <3> DEFINE old == web[f].tests
      <3>1. HasTests(old) /\ tests = InOrder(old)
        BY <1>5
      <3> HIDE DEF old, f, tests
      <3>2. r = pm_graph_report(f, tests) /\ r.ok
        BY <1>6
      <3> HIDE DEF r
      <3>3. sum = [state |-> "full", rows |-> r.rows, issues |-> r.issues, of |-> tests]
        OBVIOUS
      <3> HIDE DEF sum
      <3> QED BY <3>1, <3>2, <3>3, NewReport
    <2>3. \A g : IsReport(g, part)
      <3>1. part.state = "part"
        BY DEF NoSum
      <3> HIDE DEF part
      <3> QED BY <3>1 DEF IsReport
    <2> HIDE DEF sum
    <2>4. new.to = f /\ new.sum = sum
      OBVIOUS
    <2> HIDE DEF new, part, todo, f
    <2>5. /\ Alone(p) /\ job'[p].step = "repwrite" /\ job'[p].mts = job[p].mts
          /\ job'[p].todo = todo /\ job'[p].got = {new} /\ job'[p].det = job[p].det
          /\ job'[p].list = job[p].list
      BY <2>1 DEF Alone, Fields, RIInv, RTypeOK
    <2>6. /\ DOMAIN web' = DOMAIN web /\ web'[f].sum = part
          /\ \A g \in DOMAIN web : g # f => web'[g] = web[g]
      BY <1>4, <1>5, <2>1
    <2>7. TrueStill
      BY <1>1, <2>3, <2>6 DEF TrueStill, FigInv, IsSeq
    <2>8. InWeb(p)'
      BY <1>2, <1>4, <2>5, <2>6 DEF InWeb, AfterCopy, Listed
    <2>9. Truthful(p)'
      BY <1>2, <1>4, <2>2, <2>4, <2>5, <2>6 DEF Truthful
    <2> QED BY <2>5, <2>7, <2>8, <2>9, OthersFig
  <1>7. CASE ~r.ok
    <2>1. job' = [job EXCEPT ![p].todo = todo] /\ UNCHANGED web
      BY <1>3, <1>7, Zenon
    <2> HIDE DEF todo
    <2>2. /\ Alone(p) /\ job'[p].step = "report" /\ job'[p].mts = job[p].mts
          /\ job'[p].todo = todo /\ job'[p].det = job[p].det
          /\ job'[p].list = job[p].list
      BY <1>1, <2>1 DEF Alone, Fields, RIInv, RTypeOK
    <2> QED BY <1>1, <1>2, <1>4, <2>1, <2>2, SameTrue, OnFig DEF InWeb, Truthful
  <1> QED BY <1>6, <1>7

(* What is written is that report. *)
LEMMA ReportWriteFig ==
  ASSUME RIInv, FigInv, NEW p \in Proc, ReportWrite(p)
  PROVE  FigInv'
  <1> USE Fields_
  <1>1. /\ UNCHANGED <<testcache, links, overview>> /\ job[p].step = "repwrite"
        /\ job' = [job EXCEPT ![p].step = "report", ![p].got = {}]
    BY DEF ReportWrite
  <1>2. PICK r \in job[p].got : web' = [web EXCEPT ![r.to].sum = r.sum]
    BY DEF ReportWrite
  <1>3. r.to \in DOMAIN web /\ IsReport(r.to, r.sum)
    BY <1>1 DEF FigInv, Truthful
  <1>4. /\ DOMAIN web' = DOMAIN web /\ web'[r.to].sum = r.sum
        /\ \A g \in DOMAIN web : g # r.to => web'[g] = web[g]
    BY <1>2, <1>3 DEF RIInv, RTypeOK
  <1>5. TrueStill
    BY <1>1, <1>3, <1>4 DEF TrueStill, FigInv, IsSeq
  <1>6. /\ Alone(p) /\ job'[p].step = "report" /\ job'[p].mts = job[p].mts
        /\ job'[p].todo = job[p].todo /\ job'[p].det = job[p].det
        /\ job'[p].list = job[p].list
    BY <1>1 DEF Alone, Fields, RIInv, RTypeOK
  <1> QED BY <1>1, <1>5, <1>6, AfterFig DEF AfterCopy

(* The end of the reports, and of the summaries that are read. *)
LEMMA ReportsDoneFig ==
  ASSUME RIInv, FigInv, NEW p \in Proc, (ReportsDone(p) /\ ~Leave(p)) \/ CatSumDone(p)
  PROVE  FigInv'
  <1> USE Fields_
  <1>1. AfterCopy(p) /\ UNCHANGED <<web, testcache, links, overview>>
    BY DEF ReportsDone, CatSumDone, AfterCopy, shared
  <1>2. \/ job' = [job EXCEPT ![p].step = "summary", ![p].targets = Targets(job[p].det)]
        \/ job' = [job EXCEPT ![p].step = "catsum", ![p].todo = job[p].mts]
        \/ job' = [job EXCEPT ![p].step = "dcread", ![p].list = <<>>, ![p].got = {}]
    BY Zenon DEF ReportsDone, CatSumDone
  <1>3. /\ Alone(p) /\ job'[p].step \in {"summary", "catsum", "dcread"}
        /\ job'[p].mts = job[p].mts /\ job'[p].det = job[p].det
        /\ job'[p].todo \in {job[p].todo, job[p].mts}
        /\ job'[p].list \in {job[p].list, <<>>}
    <2> DEFINE t == Targets(job[p].det)
    <2> HIDE DEF t
    <2>1. CASE job' = [job EXCEPT ![p].step = "summary", ![p].targets = t]
      BY <2>1 DEF Alone, Fields, RIInv, RTypeOK
    <2>2. CASE job' = [job EXCEPT ![p].step = "catsum", ![p].todo = job[p].mts]
      BY <2>2 DEF Alone, Fields, RIInv, RTypeOK
    <2>3. CASE job' = [job EXCEPT ![p].step = "dcread", ![p].list = <<>>, ![p].got = {}]
      BY <2>3 DEF Alone, Fields, RIInv, RTypeOK
    <2> QED BY <1>2, <2>1, <2>2, <2>3 DEF t
  <1> QED BY <1>1, <1>3, SameTrue, AfterFig

(* A summary is read: a folder with one is noted and listed with its device. *)
LEMMA ReadSummaryFig ==
  ASSUME RIInv, FigInv, NEW p \in Proc, ReadSummary(p), ~Leave(p)
  PROVE  FigInv'
  <1> USE Fields_
  <1> DEFINE f == Head(job[p].todo)
             fig == info(web[f].sum)
             entry == [of |-> f, fig |-> fig]
             det == WithFigures(job[p].det, f)
  <1>1. /\ UNCHANGED <<web, testcache, links, overview>> /\ AfterCopy(p)
        /\ job[p].step \notin {"copy", "repwrite"} /\ job[p].todo # <<>>
    BY DEF ReadSummary, shared, AfterCopy
  <1>2. InWeb(p) /\ Truthful(p) /\ Listed(job[p].mts)
    BY <1>1 DEF FigInv, InWeb
  <1>3. f \in DOMAIN web /\ Listed(Tail(job[p].todo))
    BY <1>1, <1>2, LessListed DEF InWeb
  <1>4. \/ job' = [job EXCEPT ![p].todo = Tail(@), ![p].got = @ \cup {f}]
        \/ /\ ~Blank(f)
           /\ job' = [job EXCEPT ![p].todo = Tail(@), ![p].det = det,
                                 ![p].list = Append(@, entry)]
    BY Zenon DEF ReadSummary
  <1>5. CASE job' = [job EXCEPT ![p].todo = Tail(@), ![p].got = @ \cup {f}]
    <2> HIDE DEF f
    <2>1. /\ Alone(p) /\ job'[p].step = job[p].step /\ job'[p].mts = job[p].mts
          /\ job'[p].todo = Tail(job[p].todo) /\ job'[p].det = job[p].det
          /\ job'[p].list = job[p].list
      BY <1>5 DEF Alone, Fields, RIInv, RTypeOK
    <2> QED BY <1>1, <1>2, <1>3, <2>1, SameTrue, OnFig DEF InWeb, Truthful
  <1>6. CASE ~Blank(f) /\ job' = [job EXCEPT ![p].todo = Tail(@), ![p].det = det,
                                             ![p].list = Append(@, entry)]
    <2>1. IsDevice(fig.dev)
      <3> DEFINE sum == web[f].sum
      <3>1. IsReport(f, sum) /\ sum.state = "full"
        BY <1>3, <1>6 DEF FigInv, Blank, Readable
      <3> HIDE DEF sum, f
      <3>2. IsDevice(info(sum).dev)
        BY <3>1, InfoDevice
      <3> QED BY <3>2 DEF sum
    <2>2. DOMAIN det = DOMAIN job[p].det
      <3> DEFINE d == job[p].det
      <3> HIDE DEF d, f
      <3>1. DOMAIN WithFigures(d, f) = DOMAIN d
        BY DEF WithFigures
      <3> QED BY <3>1 DEF d
    <2> HIDE DEF fig
    <2>3. entry.fig = fig
      OBVIOUS
    <2> HIDE DEF f, det, entry
    <2>4. /\ Alone(p) /\ job'[p].step = job[p].step /\ job'[p].mts = job[p].mts
          /\ job'[p].todo = Tail(job[p].todo) /\ job'[p].det = det
          /\ job'[p].list = Append(job[p].list, entry)
      BY <1>6 DEF Alone, Fields, RIInv, RTypeOK
    <2>5. /\ IsSeq(job'[p].list)
          /\ \A e \in Range(job'[p].list) : IsDevice(e.fig.dev)
      BY <1>2, <2>1, <2>3, <2>4, LongerList DEF Truthful
    <2> QED BY <1>1, <1>2, <1>3, <2>2, <2>4, <2>5, SameTrue, OnFig DEF InWeb
  <1> HIDE DEF f, det, entry
  <1> QED BY <1>4, <1>5, <1>6

\* What the links by b of type a lead to.
Linked(a, b) == SetToSeq({l[3] : l \in {k \in links : k[1] = a /\ k[2] = b}})

(* Those are folders. *)
LEMMA LinkedListed ==
  ASSUME FigInv, NEW a, NEW b
  PROVE  Listed(Linked(a, b))
  <1> DEFINE L == {k \in links : k[1] = a /\ k[2] = b}
             to == [l \in L |-> l[3]]
             S == {to[l] : l \in L}
             q == SetToSeq(S)
  <1>1. IsFiniteSet(L) /\ DOMAIN to = L /\ \A l \in L : to[l] \in DOMAIN web
    BY FS_Subset DEF FigInv
  <1>2. S = {l[3] : l \in {k \in links : k[1] = a /\ k[2] = b}}
    OBVIOUS
  <1> HIDE DEF L, to
  <1>3. IsFiniteSet(S) /\ S \subseteq DOMAIN web
    BY <1>1, FiniteImage
  <1> HIDE DEF S
  <1>4. q \in Seq(S) /\ Range(q) = S
    BY <1>3, SequenceOfSet
  <1> HIDE DEF q
  <1>5. Listed(q)
    BY <1>3, <1>4 DEF Listed, IsSeq
  <1> QED BY <1>2, <1>5, Zenon DEF q, Linked

(* The next summary is made of folders. *)
LEMMA SummaryFig ==
  ASSUME RIInv, FigInv, NEW p \in Proc, Summary(p), ~Leave(p)
  PROVE  FigInv'
  <1> USE Fields_
  <1>1. /\ UNCHANGED <<web, testcache, links, overview>> /\ AfterCopy(p)
        /\ job[p].step = "summary"
    BY DEF Summary, AfterCopy
  <1>2. InWeb(p) /\ Truthful(p)
    BY DEF FigInv
  <1>3. TrueStill
    BY <1>1, SameTrue
  <1>4. CASE job[p].targets = <<>>
    <2>1. job' = [job EXCEPT ![p].step = "dcread"]
      BY <1>4, Zenon DEF Summary
    <2>2. /\ Alone(p) /\ job'[p].step = "dcread" /\ job'[p].mts = job[p].mts
          /\ job'[p].todo = job[p].todo /\ job'[p].det = job[p].det
          /\ job'[p].list = job[p].list
      BY <2>1 DEF Alone, Fields, RIInv, RTypeOK
    <2> QED BY <1>1, <1>3, <2>2, AfterFig
  <1>5. CASE job[p].targets # <<>>
    <2> DEFINE t == Head(job[p].targets)
               fs == IF t[1] = "kernel" THEN Found(p, t[2]) ELSE Linked(t[1], t[2])
               next == IF t[1] = "kernel" /\ ~job[p].args.cache THEN "tcread" ELSE "sumread"
    <2>1. job' = [job EXCEPT ![p].mts = fs, ![p].todo = fs, ![p].list = <<>>, ![p].step = next]
      BY <1>5, Zenon DEF Summary, Linked
    <2>2. Listed(fs)
      <3> HIDE DEF t
      <3>1. Listed(Found(p, t[2])) /\ Listed(Linked(t[1], t[2]))
        BY FoundListed, LinkedListed
      <3> QED BY <3>1
    <2>3. next \notin {"copy", "repwrite"}
      OBVIOUS
    <2> HIDE DEF fs, next
    <2>4. /\ Alone(p) /\ job'[p].step = next /\ job'[p].mts = fs
          /\ job'[p].todo = fs /\ job'[p].det = job[p].det
          /\ job'[p].list = <<>>
      BY <2>1 DEF Alone, Fields, RIInv, RTypeOK
    <2>5. IsSeq(<<>>) /\ Range(<<>>) = {}
      BY DEF IsSeq, Range
    <2> QED BY <1>2, <1>3, <2>2, <2>3, <2>4, <2>5, OnFig DEF InWeb, Listed
  <1> QED BY <1>4, <1>5

(* The device of a summary is the worst and the sum of those in its list. *)
LEMMA SummaryWriteFig ==
  ASSUME RIInv, FigInv, NEW p \in Proc, SummaryWrite(p)
  PROVE  FigInv'
  <1> USE Fields_
  <1> DEFINE key == Head(job[p].targets)
             list == job[p].list
             dev == FoldLeft(LAMBDA a, e : MergeDevice(a, e.fig.dev),
                             [count |-> 0, total |-> 0, worst |-> 0], list)
             s == [args |-> job[p].args, skipped |-> job[p].skipped,
                   blank |-> job[p].got, list |-> list, dev |-> dev]
  <1>1. /\ job' = [job EXCEPT ![p].step = "summary", ![p].targets = Tail(@), ![p].list = <<>>,
                              ![p].got = {}]
        /\ UNCHANGED <<web, testcache, links>> /\ AfterCopy(p)
    BY DEF SummaryWrite, AfterCopy
  <1>2. UNCHANGED overview \/ overview' = Put(overview, key, s)
    BY Zenon DEF SummaryWrite
  <1>3. IsDevice(dev)
    <2>1. IsSeq(list) /\ \A e \in Range(list) : IsDevice(e.fig.dev)
      BY DEF FigInv, Truthful
    <2> HIDE DEF list
    <2> QED BY <2>1, ListDevice, Zenon
  <1> HIDE DEF dev, list
  <1>4. s.dev = dev
    OBVIOUS
  <1> HIDE DEF key, s
  <1>5. \A k \in DOMAIN overview' : IsDevice(overview'[k].dev)
    <2>1. CASE UNCHANGED overview
      BY <2>1 DEF FigInv
    <2>2. CASE overview' = Put(overview, key, s)
      BY <1>3, <1>4, <2>2 DEF FigInv, Put
    <2> QED BY <1>2, <2>1, <2>2
  <1>6. TrueStill
    BY <1>1, <1>5 DEF TrueStill, FigInv, IsSeq
  <1>7. /\ Alone(p) /\ job'[p].step = "summary" /\ job'[p].mts = job[p].mts
        /\ job'[p].todo = job[p].todo /\ job'[p].det = job[p].det
        /\ job'[p].list = <<>>
    BY <1>1 DEF Alone, Fields, RIInv, RTypeOK
  <1> QED BY <1>1, <1>6, <1>7, AfterFig

(* ~/.multitestdata is another matter. *)
LEMMA DataFig ==
  ASSUME RIInv, FigInv, NEW p \in Proc,
         DataRead(p) \/ DataOpen(p) \/ DataLock(p) \/ DataFlush(p)
  PROVE  FigInv'
  <1> USE Fields_
  <1>1. AfterCopy(p) /\ UNCHANGED <<web, testcache, links, overview>>
    BY DEF DataRead, DataOpen, DataLock, DataFlush, AfterCopy, shared
  <1>2. \/ \E to \in {"trash", "dclock", "dcflush"} : job' = [job EXCEPT ![p].step = to]
        \/ job' = [job EXCEPT ![p].step = "dcopen", ![p].got = {datacache}]
        \/ job' = [job EXCEPT ![p].step = "trash", ![p].got = {}]
    BY DEF DataRead, DataOpen, DataLock, DataFlush
  <1>3. /\ Alone(p) /\ job'[p].step \in {"trash", "dclock", "dcflush", "dcopen"}
        /\ job'[p].mts = job[p].mts /\ job'[p].todo = job[p].todo
        /\ job'[p].det = job[p].det /\ job'[p].list = job[p].list
    <2>1. CASE \E to \in {"trash", "dclock", "dcflush"} : job' = [job EXCEPT ![p].step = to]
      BY <2>1 DEF Alone, Fields, RIInv, RTypeOK
    <2>2. CASE job' = [job EXCEPT ![p].step = "dcopen", ![p].got = {datacache}]
      BY <2>2 DEF Alone, Fields, RIInv, RTypeOK
    <2>3. CASE job' = [job EXCEPT ![p].step = "trash", ![p].got = {}]
      BY <2>3 DEF Alone, Fields, RIInv, RTypeOK
    <2> QED BY <1>2, <2>1, <2>2, <2>3
  <1> QED BY <1>1, <1>3, SameTrue, AfterFig

(* What is true when the first instance is started. *)
LEMMA FigInit ==
  ASSUME RInit
  PROVE  FigInv
  <1> USE DEF RInit
  <1>1. ASSUME NEW p \in Proc PROVE InWeb(p) /\ Truthful(p)
    <2>1. job[p] = Idle
      OBVIOUS
    <2>2. /\ Idle.step = "out" /\ Idle.mts = <<>> /\ Idle.todo = <<>> /\ Idle.list = <<>>
          /\ DOMAIN Idle.det = {}
      BY DEF Idle, NoRows
    <2>3. IsSeq(<<>>) /\ Range(<<>>) = {}
      BY DEF IsSeq, Range
    <2> QED BY <2>1, <2>2, <2>3 DEF InWeb, Truthful, AfterCopy, Listed
  <1>2. IsSeq(testcache) /\ IsFiniteSet(DOMAIN web) /\ IsFiniteSet(links)
    BY ReportAssumption, FS_EmptySet DEF IsSeq
  <1>3. \A f \in DOMAIN web : IsReport(f, web[f].sum)
    BY ReportAssumption
  <1>4. DOMAIN overview = {}
    BY DEF NoRows
  <1> QED BY <1>1, <1>2, <1>3, <1>4 DEF FigInv

(* Every step keeps the figures. *)
LEMMA FigStep ==
  ASSUME IInv, RIInv, FigInv, NEW p \in Proc, RStep(p)
  PROVE  FigInv'
  <1>1. CASE Start(p) \/ Try(p) \/ WaitOne(p)
    BY <1>1, WaitsFig
  <1>2. CASE Crash(p) \/ Trash(p)
    BY <1>2, EndsFig
  <1>3. CASE Unpack(p) \/ Find(p)
    BY <1>3, EndsFig, UnpackFig, FindFig
  <1>4. CASE CacheRead(p) \/ CacheAppend(p)
    BY <1>4, CacheFig
  <1>5. CASE Timelines(p) \/ Skip(p) \/ Copy(p)
    BY <1>5, TimelinesFig, SkipFig, CopyFig
  <1>6. CASE Categorize(p) \/ Link(p)
    BY <1>6, CategorizeFig, LinkFig
  <1>7. CASE Report(p) \/ ReportWrite(p)
    BY <1>7, ReportFig, ReportWriteFig
  <1>8. CASE ReportsDone(p) \/ CatSumDone(p)
    BY <1>8, EndsFig, ReportsDoneFig
  <1>9. CASE ReadSummary(p)
    BY <1>9, EndsFig, ReadSummaryFig
  <1>10. CASE Summary(p) \/ SummaryWrite(p)
    BY <1>10, EndsFig, SummaryFig, SummaryWriteFig
  <1>11. CASE DataRead(p) \/ DataOpen(p) \/ DataLock(p) \/ DataFlush(p)
    BY <1>11, DataFig
  <1> QED BY <1>1, <1>2, <1>3, <1>4, <1>5, <1>6, <1>7, <1>8, <1>9, <1>10, <1>11 DEF RStep

(* So does a step that changes nothing. *)
LEMMA FigStutter ==
  ASSUME FigInv, UNCHANGED rvars
  PROVE  FigInv'
  <1>1. UNCHANGED <<job, web, testcache, links, overview>>
    BY DEF rvars, shared
  <1> QED BY <1>1 DEF FigInv, IsSeq, InWeb, Listed, AfterCopy, Truthful

-----------------------------------------------------------------------------
(* The run slots, for any set of instances and any counts.                   *)

(* Every step of the slots keeps their inductive invariant. *)
LEMMA SlotsStep ==
  ASSUME IInv, [Next]_vars
  PROVE  IInv'
  <1> USE RunSlotsAssumption DEF IInv, TypeOK, OwnSlot, Running, PCs, Slot
  <1>1. ASSUME NEW p \in Proc, Launch(p) PROVE IInv'
    BY <1>1 DEF Launch
  <1>2. ASSUME NEW p \in Proc, TryLock(p) PROVE IInv'
    <2>1. CASE ~Taken(idx[p])
      <3>1. held' = [held EXCEPT ![p] = {idx[p]}] /\ pc' = [pc EXCEPT ![p] = "run"]
            /\ Forget(p)
        BY <1>2, <2>1 DEF TryLock
      <3>2. \A q \in Proc : idx[p] \notin held[q]
        BY <2>1 DEF Taken
      <3>3. pc'[p] = "run" /\ held'[p] = {idx[p]}
        BY <3>1
      <3>4. \A q \in Proc : q # p => pc'[q] = pc[q] /\ held'[q] = held[q]
        BY <3>1
      <3>5. TypeOK'
        BY <3>1, <3>3, <3>4 DEF Forget
      <3>6. \A q \in Proc : idx'[q] < Count[q]
        BY <3>1 DEF Forget
      <3>7. \A q \in Proc : tries'[q] < Wait
        BY <3>1 DEF Forget
      <3>8. \A q \in Proc : held'[q] # {} <=> pc'[q] = "run"
        BY <3>3, <3>4
      <3>9. \A q \in Proc : pc'[q] = "run" => \E s \in 0..(Count[q] - 1) : held'[q] = {s}
        <4>1. idx[p] \in 0..(Count[p] - 1)
          OBVIOUS
        <4> QED BY <4>1, <3>3, <3>4
      <3>10. \A q \in Proc : q # p /\ pc'[q] = "run" => held'[q] # held'[p]
        BY <3>2, <3>3, <3>4
      <3>11. \A q, r \in Proc : pc'[q] = "run" /\ pc'[r] = "run" /\ q # r
              => held'[q] # held'[r]
        BY <3>10, <3>4
      <3>12. OwnSlot'
        BY <3>8, <3>9, <3>11
      <3> HIDE DEF TypeOK, OwnSlot
      <3> QED BY <3>5, <3>12, <3>6, <3>7
    <2>2. CASE Taken(idx[p])
      BY <1>2, <2>2 DEF TryLock
    <2> QED BY <2>1, <2>2
  <1>3. ASSUME NEW p \in Proc, Sleep(p) PROVE IInv'
    <2>1. pc[p] = "sleep" /\ pc'[p] \in {"try", "out"} /\ idx'[p] = 0 /\ held' = held
      BY <1>3 DEF Sleep, Forget
    <2>2. \A q \in Proc : q # p => pc'[q] = pc[q] /\ idx'[q] = idx[q]
      BY <1>3 DEF Sleep, Forget
    <2>3. tries' \in [Proc -> 0..Wait]
      BY <1>3 DEF Sleep, Forget
    <2>4. pc' \in [Proc -> PCs] /\ idx' \in [Proc -> Slot]
      BY <1>3 DEF Sleep, Forget
    <2>5. TypeOK'
      BY <2>1, <2>3, <2>4
    <2>6. OwnSlot' /\ \A q \in Proc : idx'[q] < Count[q]
      BY <2>1, <2>2
    <2>7. \A q \in Proc : tries'[q] < Wait
      BY <1>3 DEF Sleep, Forget
    <2> QED BY <2>5, <2>6, <2>7
  <1>4. ASSUME NEW p \in Proc, End(p) PROVE IInv'
    BY <1>4 DEF End, Forget
  <1>5. CASE UNCHANGED vars
    BY <1>5 DEF vars
  <1> QED BY <1>1, <1>2, <1>3, <1>4, <1>5 DEF Next

(* Each running instance holds a lock file of its own, and only then.      *)
THEOREM Inductive == Spec => []IInv
  <1>1. Init => IInv
    BY RunSlotsAssumption DEF Init, IInv, TypeOK, OwnSlot, Running, PCs, Slot
  <1> QED BY <1>1, SlotsStep, PTL DEF Spec

(* A running instance holds one lock file below its own count, alone.      *)
THEOREM SlotOfOnesOwn == Spec => []OwnSlot
  <1>1. IInv => OwnSlot
    BY DEF IInv
  <1> QED BY <1>1, Inductive, PTL

(* As many instances run as there are lock files, at most.                 *)
THEOREM MaxProc == Spec => []AtMostMaxCount
  <1>1. IInv => AtMostMaxCount
    <2> SUFFICES ASSUME IInv PROVE AtMostMaxCount
      OBVIOUS
    <2> DEFINE slot == [p \in Running |-> CHOOSE s \in Slot : held[p] = {s}]
    <2>1. \A p \in Running : slot[p] \in Slot /\ held[p] = {slot[p]}
      BY RunSlotsAssumption DEF IInv, TypeOK, OwnSlot, Running, Slot
    <2>2. slot \in Injection(Running, Slot)
      <3>1. slot \in [Running -> Slot]
        BY <2>1
      <3>2. \A p, q \in Running : slot[p] = slot[q] => p = q
        BY <2>1, ZenonT(60) DEF IInv, OwnSlot
      <3> HIDE DEF slot
      <3> QED BY <3>1, <3>2, Fun_IsInj
    <2>3. IsFiniteSet(Slot) /\ Cardinality(Slot) = MaxCount
      BY FS_Interval, RunSlotsAssumption DEF Slot
    <2>4. Cardinality(Running) <= Cardinality(Slot)
      BY <2>2, <2>3, FS_Injection
    <2> QED BY <2>3, <2>4 DEF AtMostMaxCount
  <1> QED BY <1>1, Inductive, PTL

-----------------------------------------------------------------------------
(* The instances at work.                                                    *)

(* A step of an instance takes, keeps or gives back its slot as RunSlots says. *)
LEMMA StepSlots ==
  ASSUME NEW p \in Proc, RStep(p)
  PROVE  [Next]_vars
  <1>1. Start(p) \/ Try(p) \/ WaitOne(p) => Launch(p) \/ TryLock(p) \/ Sleep(p)
    BY DEF Start, Try, WaitOne
  <1>2. Crash(p) => UNCHANGED vars \/ End(p)
    BY DEF Crash, Leave
  <1>3. Unpack(p) => UNCHANGED vars \/ End(p)
    BY DEF Unpack, Leave
  <1>4. Find(p) => UNCHANGED vars \/ End(p)
    BY DEF Find, Leave
  <1>5. CacheRead(p) => UNCHANGED vars \/ End(p)
    BY DEF CacheRead
  <1>6. CacheAppend(p) => UNCHANGED vars \/ End(p)
    BY DEF CacheAppend
  <1>7. Timelines(p) => UNCHANGED vars \/ End(p)
    BY Zenon DEF Timelines
  <1>8. Copy(p) => UNCHANGED vars \/ End(p)
    BY Zenon DEF Copy
  <1>9. Categorize(p) => UNCHANGED vars \/ End(p)
    BY DEF Categorize
  <1>10. Link(p) => UNCHANGED vars \/ End(p)
    BY DEF Link
  <1>11. Report(p) => UNCHANGED vars \/ End(p)
    BY Zenon DEF Report
  <1>12. ReportWrite(p) => UNCHANGED vars \/ End(p)
    BY DEF ReportWrite
  <1>13. ReportsDone(p) => UNCHANGED vars \/ End(p)
    BY DEF ReportsDone, Leave
  <1>14. ReadSummary(p) => UNCHANGED vars \/ End(p)
    BY Zenon DEF ReadSummary, Leave
  <1>15. CatSumDone(p) => UNCHANGED vars \/ End(p)
    BY DEF CatSumDone
  <1>16. Summary(p) => UNCHANGED vars \/ End(p)
    BY Zenon DEF Summary, Leave
  <1>17. SummaryWrite(p) => UNCHANGED vars \/ End(p)
    BY DEF SummaryWrite
  <1>18. DataRead(p) => UNCHANGED vars \/ End(p)
    BY DEF DataRead
  <1>19. DataOpen(p) => UNCHANGED vars \/ End(p)
    BY DEF DataOpen
  <1>20. DataLock(p) => UNCHANGED vars \/ End(p)
    BY DEF DataLock
  <1>21. DataFlush(p) => UNCHANGED vars \/ End(p)
    BY DEF DataFlush
  <1>22. Trash(p) => UNCHANGED vars \/ End(p)
    BY DEF Trash, Leave
  <1>23. Skip(p) => UNCHANGED vars \/ End(p)
    BY Zenon DEF Skip
  <1> QED BY <1>1, <1>2, <1>3, <1>4, <1>5, <1>6, <1>7, <1>8, <1>9, <1>10, <1>11, <1>12, <1>13,
      <1>14, <1>15, <1>16, <1>17, <1>18, <1>19, <1>20, <1>21, <1>22, <1>23, Zenon DEF RStep, Next

(* What is true when the first instance is started. *)
LEMMA ReportInit ==
  ASSUME RInit
  PROVE  RIInv /\ SafeInv
  <1> USE Fields_ DEF RInit
  <1>1. \A p \in Proc : job[p] = Idle
    OBVIOUS
  <1>2. <<>> \in Seq(DOMAIN Tarball)
    OBVIOUS
  <1>3. RTypeOK
    BY <1>1, <1>2, ReportAssumption DEF RTypeOK, Fields
  <1>4. RowsInv /\ UnpackInv /\ CopiesInv
    BY <1>1 DEF RowsInv, Rewriting, UnpackInv, CopiesInv, Sourced
  <1>5. SafeInv
    BY <1>1 DEF SafeInv, HeldInv, AfterCopy, TarballSafe
  <1> QED BY <1>3, <1>4, <1>5 DEF RIInv

(* An instance that does nothing but wait, work on or end. *)
LEMMA OrdinaryKeeps ==
  ASSUME IInv, RIInv, NEW p \in Proc, Plain(p) \/ Leaves(p) \/ Waits(p)
  PROVE  RIInv' /\ (SafeInv => SafeInv')
  BY PlainKeeps, LeavesKeep, LeavesSafe, WaitsKeep, WaitsSafe, MovesSafe DEF Plain

(* Every step keeps the inductive invariant, and the tests that have been
   copied where two of the same name are the same. *)
LEMMA ReportStep ==
  ASSUME IInv, RIInv, NEW p \in Proc, RStep(p)
  PROVE  RIInv' /\ (SameTests /\ SafeInv => SafeInv')
  <1>1. CASE Start(p) \/ Try(p) \/ WaitOne(p)
    BY <1>1, StartWaits, TryWaits, WaitOneWaits, OrdinaryKeeps
  <1>2. CASE Crash(p) \/ Trash(p)
    BY <1>2, CrashLeaves, TrashLeaves, OrdinaryKeeps
  <1>3. CASE Unpack(p)
    BY <1>3, UnpackLeaves, OrdinaryKeeps, UnpackKeeps
  <1>4. CASE Find(p)
    BY <1>4, FindLeaves, FindPlain, OrdinaryKeeps DEF RIInv
  <1>5. CASE CacheRead(p) \/ CacheAppend(p)
    BY <1>5, CacheReadPlain, CacheAppendPlain, OrdinaryKeeps DEF RIInv
  <1>6. CASE Timelines(p)
    BY <1>6, TimelinesPlain, TimelinesKeep, OrdinaryKeeps DEF RIInv
  <1>7. CASE Skip(p) \/ Copy(p)
    BY <1>7, SkipKeeps, CopyKeeps
  <1>8. CASE Categorize(p) \/ Link(p)
    BY <1>8, CategorizePlain, LinkPlain, OrdinaryKeeps DEF RIInv
  <1>9. CASE Report(p) \/ ReportWrite(p)
    BY <1>9, ReportPlain, ReportWritePlain, OrdinaryKeeps DEF RIInv
  <1>10. CASE ReportsDone(p)
    BY <1>10, ReportsDonePlain, ReportsDoneLeaves, OrdinaryKeeps DEF RIInv
  <1>11. CASE ReadSummary(p)
    BY <1>11, ReadSummaryPlain, ReadSummaryLeaves, OrdinaryKeeps DEF RIInv
  <1>12. CASE CatSumDone(p)
    BY <1>12, CatSumDonePlain, OrdinaryKeeps DEF RIInv
  <1>13. CASE Summary(p)
    BY <1>13, SummaryPlain, SummaryLeaves, OrdinaryKeeps DEF RIInv
  <1>14. CASE SummaryWrite(p)
    BY <1>14, SummaryWritePlain, OrdinaryKeeps DEF RIInv
  <1>15. CASE DataRead(p) \/ DataOpen(p) \/ DataLock(p) \/ DataFlush(p)
    <2>1. Moves(p) /\ RowsInv'
      BY <1>15, DataMoves, DataRows
    <2> QED BY <2>1, MovesKeep, MovesSafe DEF RIInv
  <1> QED BY <1>1, <1>2, <1>3, <1>4, <1>5, <1>6, <1>7, <1>8, <1>9, <1>10, <1>11, <1>12,
             <1>13, <1>14, <1>15 DEF RStep

(* A step that changes nothing keeps both invariants. *)
LEMMA ReportStutter ==
  ASSUME UNCHANGED rvars
  PROVE  /\ UNCHANGED vars /\ (RIInv => RIInv') /\ (SafeInv => SafeInv')
  <1>1. UNCHANGED <<vars, job, web, tars, datacache, lost, recorded, disturbed, pc>>
    BY DEF rvars, shared, ghosts, vars
  <1>2. RIInv => RIInv'
    BY <1>1 DEF RIInv, RTypeOK, RowsInv, Rewriting, UnpackInv, Brought, CopiesInv, Sourced
  <1>3. SafeInv => SafeInv'
    BY <1>1 DEF SafeInv, HeldInv, Mine, AfterCopy, ToCopy, Held, TarballSafe
  <1> QED BY <1>1, <1>2, <1>3

(* Whatever an instance does, it does it in a slot. *)
THEOREM SlotsKept == ReportSpec => Spec
  <1>1. RInit => Init
    BY DEF RInit
  <1>2. [RNext]_rvars => [Next]_vars
    BY StepSlots, ReportStutter DEF RNext, Ended
  <1> QED BY <1>1, <1>2, PTL DEF ReportSpec, Spec

(* The inductive invariant of the instances at work: updates of
   ~/.multitestdata that do not overlap come one at a time and have read all
   the rows; what an instance has unpacked is what its tarballs hold, and the
   copies it has yet to make are of tests of tarballs. *)
THEOREM ReportInductive == ReportSpec => [](IInv /\ RIInv)
  <1>1. RInit => RIInv
    BY ReportInit
  <1>2. IInv /\ RIInv /\ [RNext]_rvars => RIInv'
    BY ReportStep, ReportStutter DEF RNext, Ended
  <1>3. ReportSpec => []IInv
    BY SlotsKept, Inductive, PTL
  <1> QED BY <1>1, <1>2, <1>3, PTL DEF ReportSpec

(* No row of ~/.multitestdata is lost as long as no two updates overlap and
   none is cut short. *)
THEOREM RowsAreKept == ReportSpec => []RowsKept
  <1>1. RIInv => RowsKept
    BY DEF RIInv, RowsInv, RowsKept
  <1> QED BY <1>1, ReportInductive, PTL

(* A tarball is gone only when all of its tests are in the web folder, whoever
   crashed meanwhile, but for the folders that the instance which deleted it had
   skipped, where tests of the same name are the same test. *)
THEOREM TarballsAreSafe == SameTests /\ ReportSpec => []TarballSafe
  <1>1. RInit => SafeInv
    BY ReportInit
  <1>2. SameTests /\ IInv /\ RIInv /\ SafeInv /\ [RNext]_rvars => SafeInv'
    BY ReportStep, ReportStutter DEF RNext, Ended
  <1>3. SafeInv => TarballSafe
    BY DEF SafeInv
  <1>4. SameTests => SameTests'
    BY DEF SameTests, Placed, OutDir
  <1> QED BY <1>1, <1>2, <1>3, <1>4, ReportInductive, PTL DEF ReportSpec

(* When an instance has come to the end of main, every multitest of its tarballs
   that it has not skipped is in the list of multitests and under its rc and its
   machine, whoever else ran or crashed, where a folder holds multitests of one machine. *)
THEOREM WorkIsFound == SameMachine /\ ReportSpec => []WorkFound
  <1>1. RInit => FindInv
    BY FindInit
  <1>2. SameMachine /\ IInv /\ RIInv /\ FindInv /\ [RNext]_rvars => FindInv'
    BY FindStep, FindStutter DEF RNext, Ended
  <1>3. FindInv => WorkFound
    BY DEF FindInv
  <1>4. SameMachine => SameMachine'
    BY DEF SameMachine, Unpacked, Placed, OutDir
  <1> QED BY <1>1, <1>2, <1>3, <1>4, ReportInductive, PTL DEF ReportSpec

(* When an instance has come to the end of main, every multitest of its tarballs
   that it has not skipped is in the list of multitests and under its rc and its
   machine, and the summary of a kernel has passed over none that its writer sorted under it, whoever
   else ran or crashed; where tests of one name are one test and a folder holds
   multitests of one machine. *)
THEOREM WorkIsDone == SameTests /\ SameMachine /\ ReportSpec => []WorkDone
  <1>1. RInit => SafeInv /\ FindInv /\ SumsInv
    <2>1. ASSUME RInit PROVE SumsInv
      <3>1. /\ \A p \in Proc : job[p].step = "out"
            /\ DOMAIN overview = {}
        BY <2>1 DEF RInit, Idle, NoRows
      <3> QED BY <3>1 DEF SumsInv, SumInv, Summing, Listing, WorkSummed
    <2> QED BY <2>1, ReportInit, FindInit
  <1>2. SameTests /\ SameMachine /\ IInv /\ RIInv /\ SafeInv /\ FindInv /\ SumsInv
          /\ [RNext]_rvars => SafeInv' /\ FindInv' /\ SumsInv'
    BY ReportStep, ReportStutter, FindStep, FindStutter, SumsStep, SumsStutter DEF RNext, Ended
  <1>3. FindInv /\ SumsInv => WorkDone
    BY DEF FindInv, SumsInv, WorkDone
  <1>4. SameTests /\ SameMachine => SameTests' /\ SameMachine'
    BY DEF SameTests, SameMachine, Unpacked, Placed, OutDir
  <1> QED BY <1>1, <1>2, <1>3, <1>4, ReportInductive, PTL DEF ReportSpec

(* The figures in the summaries and the overviews are what the tests did:
   whatever instances report, copy new tests, fail to read or crash, the summary
   of a folder is all of one report on the tests it was made of. *)
THEOREM CountsAreTrue == ReportSpec => []CountsTrue
  <1>1. RInit => FigInv
    BY FigInit
  <1>2. IInv /\ RIInv /\ FigInv /\ [RNext]_rvars => FigInv'
    BY FigStep, FigStutter DEF RNext, Ended
  <1>3. FigInv => CountsTrue
    BY FigTrue
  <1> QED BY <1>1, <1>2, <1>3, ReportInductive, PTL DEF ReportSpec

(* No more instances are at work than -maxproc allows. *)
THEOREM ReportMaxProc == ReportSpec => []AtMostMaxCount
  BY SlotsKept, MaxProc, PTL

=============================================================================
