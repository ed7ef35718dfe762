----------------------- MODULE TelegramCoverageProofs -----------------------
(***************************************************************************)
(* Lists of the telegram page.  The interval list of the coverage          *)
(* bookkeeping, for lists of every length: it stays canonical, answers a   *)
(* request with exactly what is missing, and implements the set of         *)
(* milliseconds it stands for.  The loops of addCovered, gaps and trim are *)
(* recursive functions; each is followed by induction over its rounds,     *)
(* from the well-ordering of Nat.  Then the telegram buffer, for every     *)
(* capacity: a stable sort puts each telegram at its rank, and a finite    *)
(* set that is ordered has a member of every rank (Ranking).  Then what    *)
(* was last seen on some addresses, for every number of telegrams: its     *)
(* list, too, has each telegram at its rank.  Last, on the server, what    *)
(* the lists are loaded from: the import of logs, for any logs.            *)
(***************************************************************************)
EXTENDS TelegramCoverage, FiniteSetTheorems, SequenceTheorems, WellFoundedInduction, TLAPS

Interval == Nat \X Nat
-----------------------------------------------------------------------------
(* A set of naturals that has a member has a least one. *)
LEMMA LeastNatural ==
  ASSUME NEW S \in SUBSET Nat, S # {}
  PROVE  \E x \in S : \A y \in S : x <= y
<1> DEFINE R == OpToRel(<, Nat)
<1>1. IsWellFoundedOn(R, Nat)
  BY NatLessThanWellFounded
<1>2. PICK x \in S : \A y \in S : <<y, x>> \notin R
  <2> HIDE DEF R
  <2> QED BY <1>1, WFMin
<1>3. \A y \in S : ~(y < x)
  BY <1>2 DEF OpToRel
<1> QED BY <1>3

(* Induction over the rounds of a loop, stated with the set T of the rounds
   after which the claim holds. *)
LEMMA Rounds ==
  ASSUME NEW N \in Nat, NEW T, 0 \in T,
         \A n \in 0 .. N - 1 : n \in T => n + 1 \in T
  PROVE  \A n \in 0 .. N : n \in T
<1> SUFFICES ASSUME NEW z \in 0 .. N, z \notin T PROVE FALSE
  OBVIOUS
<1> DEFINE S == {n \in 0 .. N : n \notin T}
<1>1. S \in SUBSET Nat /\ S # {}
  OBVIOUS
<1>2. PICK x \in S : \A y \in S : x <= y
  <2> HIDE DEF S
  <2> QED BY <1>1, LeastNatural
<1>3. x # 0 /\ x - 1 \in 0 .. N - 1 /\ x - 1 \in T
  BY <1>2
<1> QED BY <1>2, <1>3

(* A loop of N rounds: step[n][a] is what round n makes of an accumulator a in
   A, and g a run of it, the accumulators from base to the last. *)
IsLoop(N, A, base, step) ==
  N \in Nat /\ base \in A /\ \A n \in 1 .. N, a \in A : step[n][a] \in A

IsRun(g, N, A, base, step) ==
  /\ g \in [0 .. N -> A]
  /\ g[0] = base
  /\ \A n \in 1 .. N : g[n] = step[n][g[n - 1]]

LEMMA RunExists ==
  ASSUME NEW N, NEW A, NEW base, NEW step, IsLoop(N, A, base, step)
  PROVE  \E g : IsRun(g, N, A, base, step)
<1> USE DEF IsLoop
<1> DEFINE Run(m, g) == IsRun(g, m, A, base, step)
           T == {m \in Nat : \E g : Run(m, g)}
<1>1. 0 \in T
  <2>1. Run(0, [n \in 0 .. 0 |-> base])
    BY DEF IsRun
  <2> QED BY <2>1
<1>2. \A m \in 0 .. N - 1 : m \in T => m + 1 \in T
  <2> SUFFICES ASSUME NEW m \in 0 .. N - 1, NEW g, Run(m, g)
               PROVE  \E h : Run(m + 1, h)
    OBVIOUS
  <2> DEFINE h == [n \in 0 .. m + 1 |-> IF n = m + 1 THEN step[n][g[m]] ELSE g[n]]
  <2>1. step[m + 1][g[m]] \in A
    BY DEF IsRun
  <2>2. h \in [0 .. m + 1 -> A]
    BY <2>1 DEF IsRun
  <2>3. h[0] = base
    BY DEF IsRun
  <2>4. ASSUME NEW n \in 1 .. m + 1 PROVE h[n] = step[n][h[n - 1]]
    <3>1. CASE n = m + 1
      BY <3>1
    <3>2. CASE n # m + 1
      BY <3>2 DEF IsRun
    <3> QED BY <3>1, <3>2
  <2> HIDE DEF h
  <2> QED BY <2>2, <2>3, <2>4 DEF IsRun
<1>3. N \in T
  <2> HIDE DEF T
  <2> QED BY <1>1, <1>2, Rounds
<1> QED BY <1>3
-----------------------------------------------------------------------------
(* The loops run: each is a sequence of rounds, one per interval of the list,
   and its accumulator keeps its type. *)
LEMMA MergeIntoType ==
  ASSUME NEW merged \in Seq(Interval), NEW iv \in Interval
  PROVE  MergeInto(merged, iv) \in Seq(Interval)
<1>1. CASE merged # <<>> /\ iv[1] <= Final(merged)[2]
  <2>1. Len(merged) \in 1 .. Len(merged) /\ merged[Len(merged)] \in Interval
    BY <1>1
  <2> DEFINE folded == <<merged[Len(merged)][1], Larger(merged[Len(merged)][2], iv[2])>>
  <2>2. folded \in Interval
    BY <2>1 DEF Interval, Larger
  <2>3. MergeInto(merged, iv) = [merged EXCEPT ![Len(merged)] = folded]
    BY <1>1 DEF MergeInto
  <2> HIDE DEF folded
  <2> QED BY <2>1, <2>2, <2>3
<1>2. CASE ~(merged # <<>> /\ iv[1] <= Final(merged)[2])
  BY <1>2 DEF MergeInto
<1> QED BY <1>1, <1>2

LEMMA MergingRuns ==
  ASSUME NEW list \in Seq(Interval)
  PROVE  /\ Merging(list) \in [0 .. Len(list) -> Seq(Interval)]
         /\ Merging(list)[0] = <<>>
         /\ \A n \in 1 .. Len(list) :
              Merging(list)[n] = MergeInto(Merging(list)[n - 1], list[n])
<1> DEFINE N == Len(list)
           A == Seq(Interval)
           step == [n \in 1 .. N |-> [m \in A |-> MergeInto(m, list[n])]]
<1>1. N \in Nat /\ <<>> \in A /\ \A n \in 1 .. N : list[n] \in Interval
  OBVIOUS
<1>2. \A n \in 1 .. N, m \in A : step[n][m] = MergeInto(m, list[n])
  OBVIOUS
<1>3. \A n \in 1 .. N, m \in A : MergeInto(m, list[n]) \in A
  BY <1>1, MergeIntoType
<1>4. \A n \in 1 .. N, m \in A : step[n][m] \in A
  <2> HIDE DEF step, N, A
  <2> QED BY <1>2, <1>3
<1>5. PICK g : IsRun(g, N, A, <<>>, step)
  <2>1. IsLoop(N, A, <<>>, step)
    <3> HIDE DEF step, N, A
    <3> QED BY <1>1, <1>4 DEF IsLoop
  <2> QED BY <2>1, RunExists
<1>6. \A n \in 1 .. N : g[n - 1] \in A
  <2> HIDE DEF step, A
  <2> QED BY <1>1, <1>5 DEF IsRun
<1>7. g = [n \in 0 .. N |-> IF n = 0 THEN <<>> ELSE MergeInto(g[n - 1], list[n])]
  <2> HIDE DEF step, A, N
  <2>1. \A n \in 0 .. N : g[n] = IF n = 0 THEN <<>> ELSE MergeInto(g[n - 1], list[n])
    BY <1>1, <1>2, <1>5, <1>6 DEF IsRun
  <2> QED BY <1>5, <2>1 DEF IsRun
<1> HIDE DEF step, A
<1>8. Merging(list)
        = [n \in 0 .. N |-> IF n = 0 THEN <<>> ELSE MergeInto(Merging(list)[n - 1], list[n])]
  BY <1>7 DEF Merging
<1> HIDE DEF N
<1>9. \A n \in 0 .. N : Merging(list)[n] \in A
  <2> DEFINE T == {n \in 0 .. N : Merging(list)[n] \in A}
  <2>1. 0 \in T
    BY <1>1, <1>8
  <2>2. ASSUME NEW n \in 0 .. N - 1, n \in T PROVE n + 1 \in T
    <3>1. list[n + 1] \in Interval
      BY <1>1
    <3>2. Merging(list)[n + 1] = MergeInto(Merging(list)[n], list[n + 1])
      BY <1>1, <1>8
    <3>3. Merging(list)[n + 1] \in A
      BY <2>2, <3>1, <3>2, MergeIntoType DEF A
    <3> QED BY <1>1, <3>3
  <2> HIDE DEF T
  <2>3. \A n \in 0 .. N : n \in T
    BY <1>1, <2>1, <2>2, Rounds
  <2> QED BY <2>3 DEF T
<1>10. \A n \in 1 .. N : Merging(list)[n] = MergeInto(Merging(list)[n - 1], list[n])
  BY <1>1, <1>8
<1>11. Merging(list)[0] = <<>> /\ Merging(list) \in [0 .. N -> A]
  BY <1>1, <1>8, <1>9
<1> QED BY <1>10, <1>11 DEF N, A

(* The same of the loop of gaps, *)
Walk == [cursor : Nat, gaps : Seq(Interval)]

LEMMA GapStepType ==
  ASSUME NEW acc \in Walk, NEW iv \in Interval, NEW end \in Nat
  PROVE  GapStep(acc, iv, end) \in Walk
<1> DEFINE gap == <<acc.cursor, iv[1] - 1>>
<1>1. acc.cursor \in Nat /\ acc.gaps \in Seq(Interval) /\ Larger(acc.cursor, iv[2] + 1) \in Nat
  BY DEF Walk, Interval, Larger
<1>2. iv[1] > acc.cursor => gap \in Interval
  BY <1>1 DEF Interval
<1>3. iv[1] > acc.cursor => Append(acc.gaps, gap) \in Seq(Interval)
  <2> HIDE DEF gap
  <2> QED BY <1>1, <1>2
<1> QED BY <1>1, <1>3 DEF GapStep, Walk

LEMMA GapWalkRuns ==
  ASSUME NEW list \in Seq(Interval), NEW start \in Nat, NEW end \in Nat
  PROVE  /\ GapWalk(list, start, end) \in [0 .. Len(list) -> Walk]
         /\ GapWalk(list, start, end)[0] = [cursor |-> start, gaps |-> <<>>]
         /\ \A n \in 1 .. Len(list) :
              GapWalk(list, start, end)[n] = GapStep(GapWalk(list, start, end)[n - 1], list[n], end)
<1> DEFINE N == Len(list)
           A == Walk
           step == [n \in 1 .. N |-> [m \in A |-> GapStep(m, list[n], end)]]
<1>1. N \in Nat /\ [cursor |-> start, gaps |-> <<>>] \in A /\ \A n \in 1 .. N : list[n] \in Interval
  BY DEF Walk
<1>2. \A n \in 1 .. N, m \in A : step[n][m] = GapStep(m, list[n], end)
  OBVIOUS
<1>3. \A n \in 1 .. N, m \in A : GapStep(m, list[n], end) \in A
  BY <1>1, GapStepType
<1>4. \A n \in 1 .. N, m \in A : step[n][m] \in A
  <2> HIDE DEF step, N, A
  <2> QED BY <1>2, <1>3
<1>5. PICK g : IsRun(g, N, A, [cursor |-> start, gaps |-> <<>>], step)
  <2>1. IsLoop(N, A, [cursor |-> start, gaps |-> <<>>], step)
    <3> HIDE DEF step, N, A
    <3> QED BY <1>1, <1>4 DEF IsLoop
  <2> QED BY <2>1, RunExists
<1>6. \A n \in 1 .. N : g[n - 1] \in A
  <2> HIDE DEF step, A
  <2> QED BY <1>1, <1>5 DEF IsRun
<1>7. g = [n \in 0 .. N |-> IF n = 0 THEN [cursor |-> start, gaps |-> <<>>] ELSE GapStep(g[n - 1], list[n], end)]
  <2> HIDE DEF step, A, N
  <2>1. \A n \in 0 .. N : g[n] = IF n = 0 THEN [cursor |-> start, gaps |-> <<>>] ELSE GapStep(g[n - 1], list[n], end)
    BY <1>1, <1>2, <1>5, <1>6 DEF IsRun
  <2> QED BY <1>5, <2>1 DEF IsRun
<1> HIDE DEF step, A
<1>8. GapWalk(list, start, end)
        = [n \in 0 .. N |-> IF n = 0 THEN [cursor |-> start, gaps |-> <<>>] ELSE GapStep(GapWalk(list, start, end)[n - 1], list[n], end)]
  BY <1>7 DEF GapWalk
<1> HIDE DEF N
<1>9. \A n \in 0 .. N : GapWalk(list, start, end)[n] \in A
  <2> DEFINE T == {n \in 0 .. N : GapWalk(list, start, end)[n] \in A}
  <2>1. 0 \in T
    BY <1>1, <1>8
  <2>2. ASSUME NEW n \in 0 .. N - 1, n \in T PROVE n + 1 \in T
    <3>1. list[n + 1] \in Interval
      BY <1>1
    <3>2. GapWalk(list, start, end)[n + 1] = GapStep(GapWalk(list, start, end)[n], list[n + 1], end)
      BY <1>1, <1>8
    <3>3. GapWalk(list, start, end)[n + 1] \in A
      BY <2>2, <3>1, <3>2, GapStepType DEF A
    <3> QED BY <1>1, <3>3
  <2> HIDE DEF T
  <2>3. \A n \in 0 .. N : n \in T
    BY <1>1, <2>1, <2>2, Rounds
  <2> QED BY <2>3 DEF T
<1>10. \A n \in 1 .. N : GapWalk(list, start, end)[n] = GapStep(GapWalk(list, start, end)[n - 1], list[n], end)
  BY <1>1, <1>8
<1>11. GapWalk(list, start, end)[0] = [cursor |-> start, gaps |-> <<>>] /\ GapWalk(list, start, end) \in [0 .. N -> A]
  BY <1>1, <1>8, <1>9
<1> QED BY <1>10, <1>11 DEF N, A

(* and of the filter of trim. *)
LEMMA KeepOneType ==
  ASSUME NEW kept \in Seq(Interval), NEW iv \in Interval, NEW min \in Nat
  PROVE  KeepOne(kept, iv, min) \in Seq(Interval)
BY DEF KeepOne

LEMMA KeepingRuns ==
  ASSUME NEW list \in Seq(Interval), NEW min \in Nat
  PROVE  /\ Keeping(list, min) \in [0 .. Len(list) -> Seq(Interval)]
         /\ Keeping(list, min)[0] = <<>>
         /\ \A n \in 1 .. Len(list) :
              Keeping(list, min)[n] = KeepOne(Keeping(list, min)[n - 1], list[n], min)
<1> DEFINE N == Len(list)
           A == Seq(Interval)
           step == [n \in 1 .. N |-> [m \in A |-> KeepOne(m, list[n], min)]]
<1>1. N \in Nat /\ <<>> \in A /\ \A n \in 1 .. N : list[n] \in Interval
  OBVIOUS
<1>2. \A n \in 1 .. N, m \in A : step[n][m] = KeepOne(m, list[n], min)
  OBVIOUS
<1>3. \A n \in 1 .. N, m \in A : KeepOne(m, list[n], min) \in A
  BY <1>1, KeepOneType
<1>4. \A n \in 1 .. N, m \in A : step[n][m] \in A
  <2> HIDE DEF step, N, A
  <2> QED BY <1>2, <1>3
<1>5. PICK g : IsRun(g, N, A, <<>>, step)
  <2>1. IsLoop(N, A, <<>>, step)
    <3> HIDE DEF step, N, A
    <3> QED BY <1>1, <1>4 DEF IsLoop
  <2> QED BY <2>1, RunExists
<1>6. \A n \in 1 .. N : g[n - 1] \in A
  <2> HIDE DEF step, A
  <2> QED BY <1>1, <1>5 DEF IsRun
<1>7. g = [n \in 0 .. N |-> IF n = 0 THEN <<>> ELSE KeepOne(g[n - 1], list[n], min)]
  <2> HIDE DEF step, A, N
  <2>1. \A n \in 0 .. N : g[n] = IF n = 0 THEN <<>> ELSE KeepOne(g[n - 1], list[n], min)
    BY <1>1, <1>2, <1>5, <1>6 DEF IsRun
  <2> QED BY <1>5, <2>1 DEF IsRun
<1> HIDE DEF step, A
<1>8. Keeping(list, min)
        = [n \in 0 .. N |-> IF n = 0 THEN <<>> ELSE KeepOne(Keeping(list, min)[n - 1], list[n], min)]
  BY <1>7 DEF Keeping
<1> HIDE DEF N
<1>9. \A n \in 0 .. N : Keeping(list, min)[n] \in A
  <2> DEFINE T == {n \in 0 .. N : Keeping(list, min)[n] \in A}
  <2>1. 0 \in T
    BY <1>1, <1>8
  <2>2. ASSUME NEW n \in 0 .. N - 1, n \in T PROVE n + 1 \in T
    <3>1. list[n + 1] \in Interval
      BY <1>1
    <3>2. Keeping(list, min)[n + 1] = KeepOne(Keeping(list, min)[n], list[n + 1], min)
      BY <1>1, <1>8
    <3>3. Keeping(list, min)[n + 1] \in A
      BY <2>2, <3>1, <3>2, KeepOneType DEF A
    <3> QED BY <1>1, <3>3
  <2> HIDE DEF T
  <2>3. \A n \in 0 .. N : n \in T
    BY <1>1, <2>1, <2>2, Rounds
  <2> QED BY <2>3 DEF T
<1>10. \A n \in 1 .. N : Keeping(list, min)[n] = KeepOne(Keeping(list, min)[n - 1], list[n], min)
  BY <1>1, <1>8
<1>11. Keeping(list, min)[0] = <<>> /\ Keeping(list, min) \in [0 .. N -> A]
  BY <1>1, <1>8, <1>9
<1> QED BY <1>10, <1>11 DEF N, A
-----------------------------------------------------------------------------
(* The milliseconds of a list, one by one. *)
LEMMA PointsAre ==
  ASSUME NEW list \in Seq(Interval), NEW x
  PROVE  x \in Points(list)
           <=> x \in Nat /\ \E i \in 1 .. Len(list) : list[i][1] <= x /\ x <= list[i][2]
<1>1. \A i \in 1 .. Len(list) : list[i][1] \in Nat /\ list[i][2] \in Nat
  BY DEF Interval
<1>2. DOMAIN list = 1 .. Len(list)
  OBVIOUS
<1> QED BY <1>1, <1>2 DEF Points

LEMMA Bounds ==
  ASSUME NEW list \in Seq(Interval)
  PROVE  /\ Len(list) \in Nat /\ DOMAIN list = 1 .. Len(list)
         /\ \A i \in 1 .. Len(list) : /\ list[i] \in Interval
                                     /\ list[i][1] \in Nat /\ list[i][2] \in Nat
BY DEF Interval

LEMMA CanonicalBounds ==
  ASSUME NEW list \in Seq(Interval), Canonical(list)
  PROVE  /\ \A i \in 1 .. Len(list) : list[i][1] <= list[i][2]
         /\ \A i \in 1 .. Len(list) - 1 : list[i][2] < list[i + 1][1]
BY Bounds DEF Canonical

(* In a canonical list every interval lies before every later one. *)
LEMMA CanonicalAscends ==
  ASSUME NEW list \in Seq(Interval), Canonical(list)
  PROVE  \A j \in 1 .. Len(list) : \A i \in 1 .. j - 1 : list[i][2] < list[j][1]
<1> DEFINE N == Len(list)
           T == {j \in 0 .. N : \A i \in 1 .. j - 1 : list[i][2] < list[j][1]}
<1>1. \A i \in 1 .. N : list[i][1] \in Nat /\ list[i][2] \in Nat /\ list[i][1] <= list[i][2]
  BY DEF Interval, Canonical
<1>2. \A i \in 1 .. N - 1 : list[i][2] < list[i + 1][1]
  BY DEF Canonical
<1>3. N \in Nat
  OBVIOUS
<1> HIDE DEF N
<1>4. 0 \in T
  BY <1>3
<1>5. ASSUME NEW j \in 0 .. N - 1, j \in T PROVE j + 1 \in T
  <2> SUFFICES ASSUME NEW i \in 1 .. j PROVE list[i][2] < list[j + 1][1]
    BY <1>3
  <2>1. j \in 1 .. N - 1 /\ j + 1 \in 1 .. N /\ i \in 1 .. N
    BY <1>3
  <2>2. list[j][2] < list[j + 1][1]
    BY <1>2, <2>1
  <2>3. CASE i = j
    BY <2>2, <2>3
  <2>4. CASE i # j
    BY <1>1, <1>5, <2>1, <2>2, <2>4
  <2> QED BY <2>3, <2>4
<1>6. \A j \in 0 .. N : j \in T
  <2> HIDE DEF T
  <2> QED BY <1>3, <1>4, <1>5, Rounds
<1> SUFFICES ASSUME NEW j \in 1 .. N, NEW i \in 1 .. j - 1 PROVE list[i][2] < list[j][1]
  BY DEF N
<1>7. j \in T
  BY <1>3, <1>6
<1> QED BY <1>7

(* In particular it starts before them. *)
LEMMA StartsAscend ==
  ASSUME NEW list \in Seq(Interval), Canonical(list),
         NEW j \in 1 .. Len(list), NEW i \in 1 .. j - 1
  PROVE  list[i][1] < list[j][1]
<1>1. i \in 1 .. Len(list)
  OBVIOUS
<1>2. /\ list[i][1] \in Nat /\ list[i][2] \in Nat /\ list[i][1] <= list[i][2]
      /\ list[j][1] \in Nat
  BY <1>1 DEF Canonical, Interval
<1>3. list[i][2] < list[j][1]
  BY CanonicalAscends
<1> QED BY <1>2, <1>3

LEMMA FirstNaturals ==
  ASSUME NEW m \in Nat
  PROVE  IsFiniteSet(1 .. m) /\ Cardinality(1 .. m) = m
BY FS_Interval

(* Sorting a canonical list with one interval behind it inserts that one
   after the last that does not start later. *)
LEMMA SortInserts ==
  ASSUME NEW list \in Seq(Interval), Canonical(list), NEW iv \in Interval
  PROVE  \E k \in 1 .. Len(list) + 1 :
            /\ \A i \in 1 .. k - 1 : list[i][1] <= iv[1]
            /\ \A i \in k .. Len(list) : list[i][1] > iv[1]
            /\ SortedByStart(Append(list, iv))
                 = [p \in 1 .. Len(list) + 1 |->
                      IF p < k THEN list[p] ELSE IF p = k THEN iv ELSE list[p - 1]]
<1> DEFINE N == Len(list)
           L == Append(list, iv)
           later == {i \in 1 .. N + 1 : i <= N => list[i][1] > iv[1]}
<1>1. /\ N \in Nat /\ iv[1] \in Nat
      /\ \A i \in 1 .. N : list[i][1] \in Nat /\ L[i] = list[i]
      /\ DOMAIN L = 1 .. N + 1 /\ L[N + 1] = iv
  BY DEF Interval
<1>2. \A j \in 1 .. N : \A i \in 1 .. j - 1 : list[i][1] < list[j][1]
  BY StartsAscend
<1> HIDE DEF N, L
<1>3. PICK k \in later : \A i \in later : k <= i
  <2>1. N + 1 \in later /\ later \in SUBSET Nat
    BY <1>1
  <2> HIDE DEF later
  <2> QED BY <2>1, LeastNatural
<1>4. k \in 1 .. N + 1 /\ \A i \in 1 .. k - 1 : list[i][1] <= iv[1]
  BY <1>1, <1>3
<1>5. \A i \in k .. N : list[i][1] > iv[1]
  BY <1>1, <1>2, <1>3
<1> HIDE DEF later
<1> DEFINE before(i) == {j \in 1 .. N + 1 : GoesBefore(L, j, i)}
<1>6. \A i : Place(L, i) = 1 + Cardinality(before(i))
  <2>1. \A i : {j \in DOMAIN L : GoesBefore(L, j, i)} = before(i)
    BY <1>1
  <2> HIDE DEF before
  <2> QED BY <2>1 DEF Place
<1> HIDE DEF before
<1>7. \A i \in 1 .. k - 1 : Place(L, i) = i
  <2> SUFFICES ASSUME NEW i \in 1 .. k - 1 PROVE Cardinality(before(i)) = i - 1
    BY <1>4, <1>6
  <2>1. before(i) = 1 .. i - 1
    <3>1. i \in 1 .. N /\ L[i] = list[i] /\ list[i][1] \in Nat
      BY <1>1, <1>4
    <3>2. \A j \in 1 .. N : GoesBefore(L, j, i) <=> j < i
      BY <1>1, <1>2, <3>1 DEF GoesBefore
    <3>3. ~GoesBefore(L, N + 1, i)
      BY <1>1, <1>4, <3>1 DEF GoesBefore
    <3>4. \A j : j \in before(i) <=> j \in 1 .. N + 1 /\ GoesBefore(L, j, i)
      BY DEF before
    <3>5. \A j : j \in before(i) <=> j \in 1 .. N /\ j < i
      BY <1>1, <3>2, <3>3, <3>4
    <3>6. \A j : j \in 1 .. i - 1 <=> j \in 1 .. N /\ j < i
      BY <1>1, <3>1
    <3> QED BY <3>5, <3>6
  <2>2. Cardinality(1 .. i - 1) = i - 1
    <3>1. i - 1 \in Nat
      BY <1>4
    <3> QED BY <3>1, FirstNaturals
  <2> QED BY <2>1, <2>2
<1>8. Place(L, N + 1) = k
  <2>1. before(N + 1) = 1 .. k - 1
    <3>1. \A j \in 1 .. N : GoesBefore(L, j, N + 1) <=> j < k
      BY <1>1, <1>4, <1>5 DEF GoesBefore
    <3>2. ~GoesBefore(L, N + 1, N + 1)
      BY <1>1 DEF GoesBefore
    <3>3. \A j : j \in before(N + 1) <=> j \in 1 .. N + 1 /\ GoesBefore(L, j, N + 1)
      BY DEF before
    <3>4. \A j : j \in before(N + 1) <=> j \in 1 .. k - 1
      BY <1>1, <1>4, <3>1, <3>2, <3>3
    <3> QED BY <3>4
  <2>2. Cardinality(1 .. k - 1) = k - 1
    <3>1. k - 1 \in Nat
      BY <1>4
    <3> QED BY <3>1, FirstNaturals
  <2> QED BY <1>1, <1>4, <1>6, <2>1, <2>2
<1>9. \A i \in k .. N : Place(L, i) = i + 1
  <2> SUFFICES ASSUME NEW i \in k .. N PROVE Cardinality(before(i)) = i
    BY <1>1, <1>4, <1>6
  <2>1. i \in 1 .. N /\ N + 1 \notin 1 .. i - 1
    BY <1>1, <1>4
  <2>2. \A j \in 1 .. N : GoesBefore(L, j, i) <=> j < i
    BY <1>1, <1>2, <2>1 DEF GoesBefore
  <2>3. GoesBefore(L, N + 1, i)
    BY <1>1, <1>5, <2>1 DEF GoesBefore
  <2>4. before(i) = (1 .. i - 1) \cup {N + 1}
    <3>1. \A j : j \in before(i) <=> j \in 1 .. N + 1 /\ GoesBefore(L, j, i)
      BY DEF before
    <3>2. \A j : j \in before(i) <=> j \in 1 .. i - 1 \/ j = N + 1
      BY <1>1, <2>1, <2>2, <2>3, <3>1
    <3> QED BY <3>2
  <2>5. Cardinality(1 .. i - 1) = i - 1 /\ IsFiniteSet(1 .. i - 1)
    <3>1. i - 1 \in Nat
      BY <2>1
    <3> QED BY <3>1, FirstNaturals
  <2>6. Cardinality((1 .. i - 1) \cup {N + 1}) = Cardinality(1 .. i - 1) + 1
    BY <2>1, <2>5, FS_AddElement
  <2> QED BY <2>1, <2>4, <2>5, <2>6
<1> DEFINE pos(p) == IF p < k THEN p ELSE IF p = k THEN N + 1 ELSE p - 1
<1>10. ASSUME NEW p \in 1 .. N + 1
       PROVE  StandsAt(L, p) = pos(p)
  <2>1. pos(p) \in 1 .. N + 1 /\ Place(L, pos(p)) = p
    BY <1>1, <1>4, <1>7, <1>8, <1>9
  <2>2. \A i \in 1 .. N + 1 : Place(L, i) = p => i = pos(p)
    BY <1>1, <1>4, <1>7, <1>8, <1>9
  <2> HIDE DEF pos
  <2>3. pos(p) \in DOMAIN L /\ \A i \in DOMAIN L : Place(L, i) = p => i = pos(p)
    BY <1>1, <2>1, <2>2
  <2> QED BY <2>1, <2>3 DEF StandsAt
<1>11. SortedByStart(L)
        = [p \in 1 .. N + 1 |-> IF p < k THEN list[p] ELSE IF p = k THEN iv ELSE list[p - 1]]
  <2>1. SortedByStart(L) = [p \in 1 .. N + 1 |-> L[pos(p)]]
    <3> HIDE DEF pos
    <3>1. \A p \in DOMAIN L : StandsAt(L, p) = pos(p)
      BY <1>1, <1>10
    <3>2. SortedByStart(L) = [p \in DOMAIN L |-> L[pos(p)]]
      BY <3>1 DEF SortedByStart
    <3> QED BY <1>1, <3>2
  <2>2. \A p \in 1 .. N + 1 :
          L[pos(p)] = IF p < k THEN list[p] ELSE IF p = k THEN iv ELSE list[p - 1]
    BY <1>1, <1>4
  <2> HIDE DEF pos
  <2> QED BY <2>1, <2>2
<1> QED BY <1>4, <1>5, <1>11 DEF N, L
-----------------------------------------------------------------------------
(* One round of addCovered on an interval that starts no earlier than the
   last merged one: the list stays canonical and gains that interval. *)
LEMMA MergeStep ==
  ASSUME NEW merged \in Seq(Interval), Canonical(merged),
         NEW iv \in Interval, iv[1] <= iv[2],
         merged # <<>> => Final(merged)[1] <= iv[1]
  PROVE  LET next == MergeInto(merged, iv)
         IN  /\ next \in Seq(Interval) /\ next # <<>> /\ Canonical(next)
             /\ Points(next) = Points(merged) \cup (iv[1] .. iv[2])
             /\ Final(next)[1] <= iv[1]
<1> DEFINE M == Len(merged)
           next == MergeInto(merged, iv)
<1>1. /\ M \in Nat /\ iv[1] \in Nat /\ iv[2] \in Nat /\ DOMAIN merged = 1 .. M
      /\ \A i \in 1 .. M : /\ merged[i] \in Interval
                           /\ merged[i][1] \in Nat /\ merged[i][2] \in Nat
                           /\ merged[i][1] <= merged[i][2]
      /\ \A i \in 1 .. M - 1 : merged[i][2] < merged[i + 1][1]
      /\ merged # <<>> <=> M > 0
  BY DEF Interval, Canonical
<1>2. next \in Seq(Interval)
  BY MergeIntoType
<1>3. CASE M > 0 /\ iv[1] <= merged[M][2]
  <2> DEFINE folded == <<merged[M][1], Larger(merged[M][2], iv[2])>>
  <2>1. next = [merged EXCEPT ![M] = folded]
    BY <1>1, <1>3 DEF MergeInto, Final
  <2>2. /\ folded[1] = merged[M][1] /\ folded[2] \in Nat
        /\ folded[2] >= merged[M][2] /\ folded[2] >= iv[2]
        /\ folded[2] = merged[M][2] \/ folded[2] = iv[2]
    BY <1>1, <1>3 DEF Larger
  <2>3. merged[M][1] <= iv[1]
    BY <1>1, <1>3 DEF Final
  <2> HIDE DEF folded
  <2>4. Len(next) = M /\ DOMAIN next = 1 .. M /\ next[M] = folded /\ \A i \in 1 .. M - 1 : next[i] = merged[i]
    BY <1>1, <1>3, <2>1
  <2> HIDE DEF next, M
  <2>5. \A i \in 1 .. M : next[i][1] <= next[i][2] /\ next[i][1] = merged[i][1]
    <3>1. next[M][1] = merged[M][1] /\ next[M][1] <= next[M][2]
      BY <1>1, <1>3, <2>2, <2>4
    <3>2. \A i \in 1 .. M : i = M \/ (i \in 1 .. M - 1 /\ next[i] = merged[i])
      BY <1>1, <2>4
    <3> QED BY <1>1, <3>1, <3>2
  <2>6. \A i \in 1 .. M - 1 : next[i][2] < next[i + 1][1]
    BY <1>1, <2>4, <2>5
  <2>7. Canonical(next)
    BY <1>2, <2>4, <2>5, <2>6 DEF Canonical
  <2>8. ASSUME NEW x \in Nat
        PROVE  (\E i \in 1 .. M : next[i][1] <= x /\ x <= next[i][2])
                 <=> \/ \E i \in 1 .. M : merged[i][1] <= x /\ x <= merged[i][2]
                     \/ iv[1] <= x /\ x <= iv[2]
    <3>1. \A i \in 1 .. M - 1 : next[i] = merged[i]
      BY <2>4
    <3>2. (next[M][1] <= x /\ x <= next[M][2])
            <=> (merged[M][1] <= x /\ x <= merged[M][2]) \/ (iv[1] <= x /\ x <= iv[2])
      BY <1>1, <1>3, <2>2, <2>3, <2>4
    <3>3. M \in 1 .. M /\ \A i \in 1 .. M : i = M \/ i \in 1 .. M - 1
      BY <1>1, <1>3
    <3> QED BY <3>1, <3>2, <3>3
  <2>9. Points(next) = Points(merged) \cup (iv[1] .. iv[2])
    <3>1. \A x : x \in iv[1] .. iv[2] <=> x \in Nat /\ iv[1] <= x /\ x <= iv[2]
      BY <1>1
    <3>2. \A x : x \in Points(next) <=> x \in Points(merged) \/ x \in iv[1] .. iv[2]
      BY <1>2, <2>4, <2>8, <3>1, PointsAre DEF M
    <3> QED BY <3>2
  <2> QED BY <1>1, <1>2, <1>3, <2>2, <2>3, <2>4, <2>7, <2>9 DEF Final, next
<1>4. CASE ~(M > 0 /\ iv[1] <= merged[M][2])
  <2>1. next = Append(merged, iv)
    BY <1>1, <1>4 DEF MergeInto, Final
  <2>2. Len(next) = M + 1 /\ DOMAIN next = 1 .. M + 1 /\ next[M + 1] = iv /\ \A i \in 1 .. M : next[i] = merged[i]
    BY <1>1, <2>1
  <2> HIDE DEF next, M
  <2>3. \A i \in 1 .. M + 1 : next[i][1] <= next[i][2]
    BY <1>1, <2>2
  <2>4. \A i \in 1 .. M : next[i][2] < next[i + 1][1]
    <3>1. \A i \in 1 .. M - 1 : next[i][2] < next[i + 1][1]
      BY <1>1, <2>2
    <3>2. M > 0 => next[M][2] < next[M + 1][1]
      BY <1>1, <1>4, <2>2
    <3> QED BY <1>1, <3>1, <3>2
  <2>5. Canonical(next)
    BY <1>1, <1>2, <2>2, <2>3, <2>4 DEF Canonical
  <2>6. Points(next) = Points(merged) \cup (iv[1] .. iv[2])
    <3>1. \A x : x \in iv[1] .. iv[2] <=> x \in Nat /\ iv[1] <= x /\ x <= iv[2]
      BY <1>1
    <3>2. ASSUME NEW x
          PROVE  (\E i \in 1 .. M + 1 : next[i][1] <= x /\ x <= next[i][2])
                   <=> \/ \E i \in 1 .. M : merged[i][1] <= x /\ x <= merged[i][2]
                       \/ iv[1] <= x /\ x <= iv[2]
      <4>1. M + 1 \in 1 .. M + 1 /\ \A i : i \in 1 .. M + 1 <=> i = M + 1 \/ i \in 1 .. M
        BY <1>1
      <4> QED BY <2>2, <4>1
    <3>3. \A x : x \in Points(next) <=> x \in Points(merged) \/ x \in iv[1] .. iv[2]
      BY <1>2, <2>2, <3>1, <3>2, PointsAre DEF M
    <3> QED BY <3>3
  <2>7. next # <<>> /\ Final(next)[1] <= iv[1]
    BY <1>1, <1>2, <2>2 DEF Final
  <2> QED BY <1>2, <2>5, <2>6, <2>7 DEF next
<1> QED BY <1>3, <1>4

(* All rounds, over a list sorted by start. *)
LEMMA MergesAll ==
  ASSUME NEW list \in Seq(Interval),
         \A i \in 1 .. Len(list) : list[i][1] <= list[i][2],
         \A i \in 1 .. Len(list) - 1 : list[i][1] <= list[i + 1][1]
  PROVE  LET merged == Merging(list)[Len(list)]
         IN  merged \in Seq(Interval) /\ Canonical(merged) /\ Points(merged) = Points(list)
<1> DEFINE N == Len(list)
           m(n) == Merging(list)[n]
           upTo(n) == {x \in Nat : \E i \in 1 .. n : list[i][1] <= x /\ x <= list[i][2]}
           Merged(n) == /\ m(n) \in Seq(Interval) /\ Canonical(m(n)) /\ Points(m(n)) = upTo(n)
                        /\ n > 0 => Final(m(n))[1] <= list[n][1]
                        /\ n = 0 => m(n) = <<>>
           T == {n \in 0 .. N : Merged(n)}
<1>1. N \in Nat /\ \A i \in 1 .. N : list[i] \in Interval /\ list[i][1] \in Nat /\ list[i][2] \in Nat
  BY DEF Interval
<1>2. m(0) = <<>> /\ \A n \in 0 .. N - 1 : m(n + 1) = MergeInto(m(n), list[n + 1])
  <2>1. \A n \in 0 .. N - 1 : n + 1 \in 1 .. N /\ (n + 1) - 1 = n
    BY <1>1
  <2> QED BY <2>1, MergingRuns
<1> HIDE DEF N, m
<1>3. 0 \in T
  <2>1. <<>> \in Seq(Interval) /\ Canonical(<<>>) /\ Points(<<>>) = {}
    BY DEF Canonical, Points
  <2>2. upTo(0) = {}
    OBVIOUS
  <2> HIDE DEF upTo
  <2>3. m(0) \in Seq(Interval) /\ Canonical(m(0)) /\ Points(m(0)) = upTo(0)
    BY <1>2, <2>1, <2>2
  <2>4. Merged(0)
    BY <1>2, <2>3
  <2> HIDE DEF Merged
  <2> QED BY <1>1, <2>4
<1>4. ASSUME NEW n \in 0 .. N - 1, n \in T PROVE n + 1 \in T
  <2> DEFINE iv == list[n + 1]
  <2>1. n + 1 \in 1 .. N /\ iv \in Interval /\ iv[1] \in Nat /\ iv[2] \in Nat /\ iv[1] <= iv[2]
    BY <1>1 DEF N
  <2>2. n > 0 => list[n][1] <= iv[1] /\ list[n][1] \in Nat
    <3>1. n > 0 => n \in 1 .. N - 1 /\ n \in 1 .. N
      BY <1>1
    <3> QED BY <1>1, <3>1 DEF N
  <2>3. Merged(n)
    BY <1>4
  <2>4. m(n) # <<>> => Final(m(n))[1] <= iv[1]
    <3>1. m(n) # <<>> => Final(m(n)) \in Interval
      BY <2>3 DEF Final
    <3>2. m(n) # <<>> => Final(m(n))[1] \in Nat /\ n > 0
      BY <2>3, <3>1 DEF Interval
    <3>3. n > 0 => Final(m(n))[1] <= list[n][1]
      BY <2>3
    <3> QED BY <2>1, <2>2, <3>2, <3>3
  <2>5. m(n + 1) = MergeInto(m(n), iv)
    BY <1>2
  <2> HIDE DEF iv
  <2>6. /\ m(n + 1) \in Seq(Interval) /\ Canonical(m(n + 1))
        /\ Points(m(n + 1)) = Points(m(n)) \cup (iv[1] .. iv[2])
        /\ Final(m(n + 1))[1] <= iv[1]
    BY <2>1, <2>3, <2>4, <2>5, MergeStep
  <2>7. upTo(n + 1) = upTo(n) \cup (iv[1] .. iv[2])
    <3>1. \A i : i \in 1 .. n + 1 <=> i \in 1 .. n \/ i = n + 1
      OBVIOUS
    <3>2. \A x : x \in iv[1] .. iv[2] <=> x \in Nat /\ iv[1] <= x /\ x <= iv[2]
      BY <2>1
    <3> QED BY <3>1, <3>2 DEF iv
  <2> HIDE DEF upTo
  <2>8. Points(m(n + 1)) = upTo(n + 1)
    BY <2>3, <2>6, <2>7
  <2>9. n + 1 > 0 /\ n + 1 # 0
    OBVIOUS
  <2>10. Merged(n + 1)
    BY <2>6, <2>8, <2>9 DEF iv
  <2> HIDE DEF Merged
  <2> QED BY <2>1, <2>10
<1>5. N \in T
  <2> HIDE DEF T
  <2>1. \A n \in 0 .. N : n \in T
    BY <1>1, <1>3, <1>4, Rounds
  <2> QED BY <1>1, <2>1
<1>6. upTo(N) = Points(list)
  BY PointsAre DEF N
<1> QED BY <1>5, <1>6 DEF N, m

(* addCovered keeps the list canonical and adds exactly the milliseconds it
   is given (telegram-coverage-service.ts:40-56). *)
THEOREM AddCoveredIsExact ==
  ASSUME NEW list \in Seq(Interval), Canonical(list), NEW start \in Nat, NEW end \in Nat
  PROVE  /\ AddCovered(list, start, end) \in Seq(Interval)
         /\ Canonical(AddCovered(list, start, end))
         /\ Points(AddCovered(list, start, end)) = Points(list) \cup (start .. end)
<1>1. CASE end < start
  <2>1. start .. end = {}
    BY <1>1
  <2> QED BY <1>1, <2>1 DEF AddCovered
<1>2. CASE ~(end < start)
  <2> DEFINE N == Len(list)
             iv == <<start, end>>
             sorted == SortedByStart(Append(list, iv))
  <2>1. /\ iv \in Interval /\ iv[1] = start /\ iv[2] = end /\ start <= end /\ N \in Nat
        /\ \A i \in 1 .. N : /\ list[i] \in Interval /\ list[i][1] \in Nat
                             /\ list[i][2] \in Nat /\ list[i][1] <= list[i][2]
    BY <1>2 DEF Interval, Canonical
  <2> HIDE DEF iv
  <2>2. PICK k \in 1 .. N + 1 :
            /\ \A i \in 1 .. k - 1 : list[i][1] <= iv[1]
            /\ \A i \in k .. N : list[i][1] > iv[1]
            /\ sorted = [p \in 1 .. N + 1 |->
                           IF p < k THEN list[p] ELSE IF p = k THEN iv ELSE list[p - 1]]
    BY <2>1, SortInserts
  <2>3. \A j \in 1 .. N : \A i \in 1 .. j - 1 : list[i][1] < list[j][1]
    BY StartsAscend
  <2> HIDE DEF N, sorted
  <2>4. /\ \A p \in 1 .. k - 1 : sorted[p] = list[p]
        /\ sorted[k] = iv
        /\ \A p \in k + 1 .. N + 1 : sorted[p] = list[p - 1]
    BY <2>1, <2>2
  <2>5. \A p \in 1 .. N + 1 : sorted[p] \in Interval
    BY <2>1, <2>2
  <2>6. sorted \in Seq(Interval) /\ Len(sorted) = N + 1 /\ DOMAIN sorted = 1 .. N + 1
    BY <2>1, <2>2, <2>5
  <2>7. \A p \in 1 .. N + 1 : sorted[p][1] <= sorted[p][2]
    BY <2>1, <2>2, <2>4
  <2>8. \A p \in 1 .. N : sorted[p][1] <= sorted[p + 1][1]
    <3> SUFFICES ASSUME NEW p \in 1 .. N PROVE sorted[p][1] <= sorted[p + 1][1]
      OBVIOUS
    <3>1. CASE p + 1 < k
      <4>1. p \in 1 .. k - 1 /\ p + 1 \in 1 .. k - 1 /\ p + 1 \in 1 .. N
        BY <2>1, <2>2, <3>1
      <4>2. list[p][1] < list[p + 1][1] /\ list[p][1] \in Nat /\ list[p + 1][1] \in Nat
        BY <2>1, <2>3, <4>1
      <4>3. sorted[p] = list[p] /\ sorted[p + 1] = list[p + 1]
        BY <2>4, <4>1
      <4> QED BY <4>2, <4>3
    <3>2. CASE p + 1 = k
      <4>1. p \in 1 .. k - 1
        BY <3>2
      <4> QED BY <2>2, <2>4, <3>2, <4>1
    <3>3. CASE p = k
      <4>1. p + 1 \in k + 1 .. N + 1 /\ (p + 1) - 1 = p /\ p \in k .. N
        BY <2>1, <2>2, <3>3
      <4>2. list[p][1] > iv[1] /\ list[p][1] \in Nat /\ sorted[p + 1] = list[p]
        BY <2>1, <2>2, <2>4, <4>1
      <4> QED BY <2>1, <2>4, <3>3, <4>2
    <3>4. CASE p > k
      <4>1. /\ p \in k + 1 .. N + 1 /\ p + 1 \in k + 1 .. N + 1 /\ (p + 1) - 1 = p
            /\ p - 1 \in 1 .. N /\ p - 1 \in 1 .. p - 1
        BY <2>1, <2>2, <3>4
      <4>2. list[p - 1][1] < list[p][1] /\ list[p - 1][1] \in Nat /\ list[p][1] \in Nat
        BY <2>1, <2>3, <4>1
      <4>3. sorted[p] = list[p - 1] /\ sorted[p + 1] = list[p]
        BY <2>4, <4>1
      <4> QED BY <4>2, <4>3
    <3> QED BY <2>2, <3>1, <3>2, <3>3, <3>4
  <2>9. Points(sorted) = Points(list) \cup (start .. end)
    <3>1. ASSUME NEW x
          PROVE  (\E p \in 1 .. N + 1 : sorted[p][1] <= x /\ x <= sorted[p][2])
                   <=> \/ \E i \in 1 .. N : list[i][1] <= x /\ x <= list[i][2]
                       \/ start <= x /\ x <= end
      <4>1. \A i \in 1 .. N : i \in 1 .. k - 1 \/ (i + 1 \in k + 1 .. N + 1 /\ (i + 1) - 1 = i)
        BY <2>1, <2>2
      <4>2. \A p \in 1 .. N + 1 :
              (p \in 1 .. k - 1 /\ p \in 1 .. N) \/ p = k \/ (p \in k + 1 .. N + 1 /\ p - 1 \in 1 .. N)
        BY <2>1, <2>2
      <4>3. \A p : p \in 1 .. k - 1 \/ p \in k + 1 .. N + 1 => p \in 1 .. N + 1
        BY <2>1, <2>2
      <4>4. ASSUME NEW i \in 1 .. N
            PROVE  \E p \in 1 .. N + 1 : sorted[p] = list[i]
        BY <2>4, <4>1, <4>3
      <4>5. ASSUME NEW p \in 1 .. N + 1
            PROVE  sorted[p] = iv \/ \E i \in 1 .. N : sorted[p] = list[i]
        BY <2>4, <4>2
      <4>6. \E p \in 1 .. N + 1 : sorted[p] = iv
        BY <2>4, <2>2
      <4> QED BY <2>1, <4>4, <4>5, <4>6
    <3>2. \A x : x \in start .. end <=> x \in Nat /\ start <= x /\ x <= end
      OBVIOUS
    <3>3. \A x : x \in Points(sorted) <=> x \in Points(list) \/ x \in start .. end
      BY <2>6, <3>1, <3>2, PointsAre DEF N
    <3> QED BY <3>3
  <2>10. \A i \in 1 .. Len(sorted) - 1 : sorted[i][1] <= sorted[i + 1][1]
    BY <2>1, <2>6, <2>8
  <2>11. LET merged == Merging(sorted)[Len(sorted)]
         IN  merged \in Seq(Interval) /\ Canonical(merged) /\ Points(merged) = Points(sorted)
    BY <2>6, <2>7, <2>10, MergesAll
  <2>12. AddCovered(list, start, end) = Merging(sorted)[Len(sorted)]
    BY <1>2 DEF AddCovered, sorted, iv
  <2> QED BY <2>9, <2>11, <2>12
<1> QED BY <1>1, <1>2
-----------------------------------------------------------------------------
(* The filter of trim keeps the intervals that end at min or later. *)
LEMMA KeepsLate ==
  ASSUME NEW list \in Seq(Interval), Canonical(list), NEW min \in Nat
  PROVE  LET kept == Keeping(list, min)[Len(list)]
         IN  /\ kept \in Seq(Interval) /\ Canonical(kept)
             /\ \A i \in 1 .. Len(kept) : kept[i][2] >= min
             /\ Points(list) \cap {x \in Nat : x >= min} = Points(kept) \cap {x \in Nat : x >= min}
<1> DEFINE N == Len(list)
           K(n) == Keeping(list, min)[n]
           late == {x \in Nat : x >= min}
           upTo(n) == {x \in late : \E i \in 1 .. n : list[i][1] <= x /\ x <= list[i][2]}
           Kept(n) == /\ K(n) \in Seq(Interval) /\ Canonical(K(n))
                      /\ \A i \in 1 .. Len(K(n)) : K(n)[i][2] >= min
                      /\ Points(K(n)) \cap late = upTo(n)
                      /\ K(n) # <<>> => n > 0 /\ Final(K(n))[2] <= list[n][2]
           T == {n \in 0 .. N : Kept(n)}
<1>1. /\ N \in Nat
      /\ \A i \in 1 .. N : /\ list[i] \in Interval /\ list[i][1] \in Nat
                           /\ list[i][2] \in Nat /\ list[i][1] <= list[i][2]
      /\ \A i \in 1 .. N - 1 : list[i][2] < list[i + 1][1]
  BY DEF Interval, Canonical
<1>2. K(0) = <<>> /\ \A n \in 0 .. N - 1 : K(n + 1) = KeepOne(K(n), list[n + 1], min)
  <2>1. \A n \in 0 .. N - 1 : n + 1 \in 1 .. N /\ (n + 1) - 1 = n
    BY <1>1
  <2> QED BY <2>1, KeepingRuns
<1>3. upTo(N) = Points(list) \cap late
  BY PointsAre
<1> HIDE DEF N, K
<1>4. 0 \in T
  <2>1. <<>> \in Seq(Interval) /\ Canonical(<<>>) /\ Points(<<>>) = {} /\ Len(<<>>) = 0
    BY DEF Canonical, Points
  <2>2. upTo(0) = {}
    OBVIOUS
  <2> HIDE DEF upTo, late
  <2>3. K(0) \in Seq(Interval) /\ Canonical(K(0)) /\ Points(K(0)) \cap late = upTo(0)
    BY <1>2, <2>1, <2>2
  <2>4. \A i \in 1 .. Len(K(0)) : K(0)[i][2] >= min
    BY <1>2, <2>1
  <2>5. Kept(0)
    BY <1>2, <2>3, <2>4
  <2> HIDE DEF Kept
  <2> QED BY <1>1, <2>5
<1>5. ASSUME NEW n \in 0 .. N - 1, n \in T PROVE n + 1 \in T
  <2> DEFINE iv == list[n + 1]
             old == K(n)
             new == K(n + 1)
             M == Len(old)
  <2>1. n + 1 \in 1 .. N /\ iv \in Interval /\ iv[1] \in Nat /\ iv[2] \in Nat /\ iv[1] <= iv[2]
    BY <1>1
  <2>2. n > 0 => list[n][2] < iv[1] /\ list[n][2] \in Nat
    <3>1. n > 0 => n \in 1 .. N - 1 /\ n \in 1 .. N
      BY <1>1
    <3> QED BY <1>1, <3>1
  <2>3. Kept(n)
    BY <1>5
  <2>4. /\ M \in Nat /\ DOMAIN old = 1 .. M /\ (old # <<>> <=> M > 0)
        /\ \A i \in 1 .. M : /\ old[i] \in Interval /\ old[i][1] \in Nat /\ old[i][2] \in Nat
                             /\ old[i][1] <= old[i][2] /\ old[i][2] >= min
        /\ \A i \in 1 .. M - 1 : old[i][2] < old[i + 1][1]
    <3>1. old \in Seq(Interval) /\ Canonical(old) /\ \A i \in 1 .. M : old[i][2] >= min
      BY <2>3
    <3>2. old # <<>> <=> M > 0
      BY <3>1
    <3> HIDE DEF old
    <3> QED BY <3>1, <3>2, Bounds, CanonicalBounds
  <2>5. M > 0 => old[M][2] < iv[1]
    <3>1. M > 0 => n > 0 /\ old[M][2] <= list[n][2] /\ old[M][2] \in Nat
      BY <2>3, <2>4 DEF Final
    <3> QED BY <2>1, <2>2, <3>1
  <2>6. new = KeepOne(old, iv, min)
    BY <1>2
  <2>7. upTo(n + 1) = upTo(n) \cup {x \in late : iv[1] <= x /\ x <= iv[2]}
    <3>1. \A i : i \in 1 .. n + 1 <=> i \in 1 .. n \/ i = n + 1
      OBVIOUS
    <3> QED BY <3>1
  <2>8. CASE iv[2] >= min
    <3>1. new = Append(old, iv)
      BY <2>6, <2>8 DEF KeepOne
    <3> HIDE DEF iv, old, new
    <3>2. /\ new \in Seq(Interval) /\ Len(new) = M + 1 /\ DOMAIN new = 1 .. M + 1
          /\ new[M + 1] = iv /\ \A i \in 1 .. M : new[i] = old[i]
      BY <2>1, <2>3, <2>4, <3>1 DEF old
    <3> HIDE DEF M
    <3>3. \A i \in 1 .. M + 1 : new[i][1] <= new[i][2] /\ new[i][2] >= min
      BY <2>1, <2>4, <2>8, <3>2
    <3>4. \A i \in 1 .. M : new[i][2] < new[i + 1][1]
      <4>1. \A i \in 1 .. M - 1 : new[i][2] < new[i + 1][1]
        BY <2>4, <3>2
      <4>2. M > 0 => new[M][2] < new[M + 1][1]
        BY <2>4, <2>5, <3>2
      <4> QED BY <2>4, <4>1, <4>2
    <3>5. Canonical(new)
      BY <2>4, <3>2, <3>3, <3>4 DEF Canonical
    <3>6. Points(new) \cap late = upTo(n + 1)
      <4>1. ASSUME NEW x
            PROVE  (\E i \in 1 .. M + 1 : new[i][1] <= x /\ x <= new[i][2])
                     <=> \/ \E i \in 1 .. M : old[i][1] <= x /\ x <= old[i][2]
                         \/ iv[1] <= x /\ x <= iv[2]
        <5>1. M + 1 \in 1 .. M + 1 /\ \A i : i \in 1 .. M + 1 <=> i = M + 1 \/ i \in 1 .. M
          BY <2>4
        <5> QED BY <3>2, <5>1
      <4>2. old \in Seq(Interval) /\ Points(old) \cap late = upTo(n)
        BY <2>3 DEF old
      <4> HIDE DEF upTo
      <4>3. ASSUME NEW x \in late
            PROVE  x \in Points(new) <=> x \in Points(old) \/ (iv[1] <= x /\ x <= iv[2])
        BY <3>2, <4>1, <4>2, PointsAre DEF M
      <4> HIDE DEF late
      <4> QED BY <2>7, <4>2, <4>3
    <3>7. Kept(n + 1)
      <4>1. n + 1 > 0 /\ Final(new)[2] <= list[n + 1][2]
        BY <2>1, <2>4, <3>2 DEF Final, iv
      <4> QED BY <3>2, <3>3, <3>5, <3>6, <4>1 DEF new
    <3> HIDE DEF Kept
    <3> QED BY <2>1, <3>7
  <2>9. CASE ~(iv[2] >= min)
    <3>1. new = old
      BY <2>6, <2>9 DEF KeepOne
    <3>2. upTo(n + 1) = upTo(n)
      BY <2>1, <2>7, <2>9
    <3>3. new # <<>> => n + 1 > 0 /\ Final(new)[2] <= list[n + 1][2]
      <4>1. M > 0 => old[M][2] \in Nat /\ old[M][2] < iv[1]
        BY <2>4, <2>5
      <4> QED BY <2>1, <2>4, <3>1, <4>1 DEF Final
    <3> HIDE DEF upTo, late
    <3>4. Kept(n + 1)
      BY <2>3, <3>1, <3>2, <3>3
    <3> HIDE DEF Kept
    <3> QED BY <2>1, <3>4
  <2> QED BY <2>8, <2>9
<1>6. N \in T
  <2> HIDE DEF T
  <2>1. \A n \in 0 .. N : n \in T
    BY <1>1, <1>4, <1>5, Rounds
  <2> QED BY <1>1, <2>1
<1>7. Kept(N)
  BY <1>6
<1> HIDE DEF upTo
<1> QED BY <1>3, <1>7 DEF N, K

(* trim keeps the list canonical and forgets exactly the milliseconds before
   min (telegram-coverage-service.ts:96-99). *)
THEOREM TrimIsExact ==
  ASSUME NEW list \in Seq(Interval), Canonical(list), NEW min \in Nat
  PROVE  /\ TrimList(list, min) \in Seq(Interval)
         /\ Canonical(TrimList(list, min))
         /\ Points(TrimList(list, min)) = {x \in Points(list) : x >= min}
<1> DEFINE kept == Keeping(list, min)[Len(list)]
           N == Len(kept)
           t == [i \in 1 .. N |-> <<Larger(kept[i][1], min), kept[i][2]>>]
           late == {x \in Nat : x >= min}
<1>1. /\ kept \in Seq(Interval) /\ Canonical(kept)
      /\ \A i \in 1 .. N : kept[i][2] >= min
      /\ Points(list) \cap late = Points(kept) \cap late
  BY KeepsLate
<1>2. DOMAIN kept = 1 .. N /\ TrimList(list, min) = t
  BY <1>1 DEF TrimList
<1> HIDE DEF kept
<1>3. /\ N \in Nat
      /\ \A i \in 1 .. N : /\ kept[i][1] \in Nat /\ kept[i][2] \in Nat
                           /\ kept[i][1] <= kept[i][2]
      /\ \A i \in 1 .. N - 1 : kept[i][2] < kept[i + 1][1]
  BY <1>1, Bounds, CanonicalBounds
<1> HIDE DEF N
<1>4. \A i \in 1 .. N : t[i] \in Interval
  BY <1>3 DEF Larger, Interval
<1>5. \A i \in 1 .. N : /\ t[i][1] \in Nat /\ t[i][2] = kept[i][2] /\ t[i][1] <= t[i][2]
                        /\ t[i][1] >= min /\ t[i][1] >= kept[i][1]
                        /\ t[i][1] = min \/ t[i][1] = kept[i][1]
  BY <1>1, <1>3 DEF Larger
<1>6. t \in Seq(Interval) /\ Len(t) = N /\ DOMAIN t = 1 .. N
  BY <1>3, <1>4
<1> HIDE DEF t
<1>7. \A i \in 1 .. N - 1 : t[i][2] < t[i + 1][1]
  <2> SUFFICES ASSUME NEW i \in 1 .. N - 1 PROVE t[i][2] < t[i + 1][1]
    OBVIOUS
  <2>1. i \in 1 .. N /\ i + 1 \in 1 .. N
    BY <1>3
  <2>2. /\ t[i][2] = kept[i][2] /\ kept[i][2] \in Nat /\ kept[i][2] < kept[i + 1][1]
        /\ kept[i + 1][1] \in Nat /\ t[i + 1][1] >= kept[i + 1][1] /\ t[i + 1][1] \in Nat
    BY <1>3, <1>5, <2>1
  <2> QED BY <2>2
<1>8. Canonical(t)
  BY <1>5, <1>6, <1>7 DEF Canonical
<1>9. Points(t) = {x \in Points(list) : x >= min}
  <2>1. ASSUME NEW x
        PROVE  x \in Points(t) <=> x \in late /\ x \in Points(kept)
    <3>1. ASSUME NEW i \in 1 .. N, x \in Nat
          PROVE  (t[i][1] <= x /\ x <= t[i][2])
                   <=> (x >= min /\ kept[i][1] <= x /\ x <= kept[i][2])
      <4>1. /\ kept[i][1] \in Nat /\ kept[i][2] \in Nat /\ t[i][2] = kept[i][2]
            /\ t[i][1] \in Nat /\ t[i][1] >= min /\ t[i][1] >= kept[i][1]
            /\ t[i][1] = min \/ t[i][1] = kept[i][1]
        BY <1>3, <1>5
      <4> QED BY <3>1, <4>1
    <3>2. x \in Points(t) <=> x \in Nat /\ \E i \in 1 .. N : t[i][1] <= x /\ x <= t[i][2]
      BY <1>6, PointsAre
    <3>3. x \in Points(kept) <=> x \in Nat /\ \E i \in 1 .. N : kept[i][1] <= x /\ x <= kept[i][2]
      BY <1>1, PointsAre DEF N
    <3>4. x \in late <=> x \in Nat /\ x >= min
      OBVIOUS
    <3>5. x \in Points(t) => \E i \in 1 .. N : x >= min /\ kept[i][1] <= x /\ x <= kept[i][2]
      BY <3>1, <3>2
    <3>6. x \in Points(t) => x \in late /\ x \in Points(kept)
      BY <1>3, <3>2, <3>3, <3>4, <3>5
    <3>7. x \in late /\ x \in Points(kept) => x \in Points(t)
      BY <3>1, <3>2, <3>3, <3>4
    <3> QED BY <3>6, <3>7
  <2>2. \A x : x \in late /\ x \in Points(kept) <=> x \in late /\ x \in Points(list)
    <3> HIDE DEF late
    <3> QED BY <1>1
  <2>3. \A x : x \in Points(list) => x \in Nat
    BY PointsAre
  <2>4. \A x : x \in Points(t) <=> x \in Points(list) /\ x >= min
    BY <2>1, <2>2, <2>3
  <2> QED BY <2>4
<1> QED BY <1>2, <1>6, <1>8, <1>9
-----------------------------------------------------------------------------
(* What holds of the walk of gaps after n intervals: everything between start
   and the cursor is settled, and the gaps say how. *)
Settled(list, start, end, w, n) ==
  /\ w \in Walk /\ start <= w.cursor
  /\ w.cursor > end \/ \A i \in 1 .. n : list[i][2] < w.cursor \/ list[i][1] > end
  /\ \A x \in Nat : x \in Points(w.gaps)
                     <=> start <= x /\ x <= end /\ x < w.cursor /\ x \notin Points(list)
  /\ \A i \in 1 .. Len(w.gaps) : w.gaps[i][1] <= w.gaps[i][2] /\ w.gaps[i][2] + 1 < w.cursor
  /\ \A i \in 1 .. Len(w.gaps) - 1 : w.gaps[i][2] + 1 < w.gaps[i + 1][1]

(* A gap behind all others is one more run of milliseconds. *)
LEMMA PushGap ==
  ASSUME NEW g \in Seq(Interval), NEW a \in Nat, NEW b \in Nat, a <= b,
         \A i \in 1 .. Len(g) : g[i][1] <= g[i][2] /\ g[i][2] + 1 < a,
         \A i \in 1 .. Len(g) - 1 : g[i][2] + 1 < g[i + 1][1]
  PROVE  LET h == Append(g, <<a, b>>)
         IN  /\ h \in Seq(Interval) /\ Len(h) = Len(g) + 1
             /\ \A x \in Nat : x \in Points(h) <=> x \in Points(g) \/ (a <= x /\ x <= b)
             /\ \A i \in 1 .. Len(h) : h[i][1] <= h[i][2] /\ (h[i][2] = b \/ h[i][2] + 1 < a)
             /\ \A i \in 1 .. Len(h) - 1 : h[i][2] + 1 < h[i + 1][1]
<1> DEFINE M == Len(g)
           iv == <<a, b>>
           h == Append(g, iv)
<1>1. M \in Nat /\ iv \in Interval /\ iv[1] = a /\ iv[2] = b
  BY DEF Interval
<1> HIDE DEF iv
<1>2. /\ h \in Seq(Interval) /\ Len(h) = M + 1 /\ h[M + 1] = iv
      /\ \A i \in 1 .. M : h[i] = g[i]
  BY <1>1
<1> HIDE DEF h
<1>3. ASSUME NEW x \in Nat
      PROVE  x \in Points(h) <=> x \in Points(g) \/ (a <= x /\ x <= b)
  <2>1. M + 1 \in 1 .. M + 1 /\ \A i : i \in 1 .. M + 1 <=> i = M + 1 \/ i \in 1 .. M
    BY <1>1
  <2>2. x \in Points(g) <=> \E i \in 1 .. M : g[i][1] <= x /\ x <= g[i][2]
    BY PointsAre
  <2>3. x \in Points(h) <=> \E i \in 1 .. M + 1 : h[i][1] <= x /\ x <= h[i][2]
    BY <1>2, PointsAre
  <2> QED BY <1>1, <1>2, <2>1, <2>2, <2>3
<1>4. \A i \in 1 .. M + 1 : h[i][1] <= h[i][2] /\ (h[i][2] = b \/ h[i][2] + 1 < a)
  BY <1>1, <1>2
<1>5. \A i \in 1 .. M : h[i][2] + 1 < h[i + 1][1]
  <2>1. \A i \in 1 .. M - 1 : i \in 1 .. M /\ i + 1 \in 1 .. M
    BY <1>1
  <2>2. \A i \in 1 .. M - 1 : h[i][2] + 1 < h[i + 1][1]
    BY <1>2, <2>1
  <2>3. M > 0 => h[M][2] + 1 < h[M + 1][1]
    BY <1>1, <1>2
  <2>4. \A i \in 1 .. M : i \in 1 .. M - 1 \/ (i = M /\ M > 0)
    BY <1>1
  <2> QED BY <2>2, <2>3, <2>4
<1>6. (M + 1) - 1 = M
  BY <1>1
<1> QED BY <1>2, <1>3, <1>4, <1>5, <1>6 DEF h, iv

(* One more interval settles what lies before it and what it covers. *)
LEMMA StepSettles ==
  ASSUME NEW list \in Seq(Interval), Canonical(list), NEW start \in Nat, NEW end \in Nat,
         NEW n \in 0 .. Len(list) - 1, NEW w, Settled(list, start, end, w, n)
  PROVE  Settled(list, start, end, GapStep(w, list[n + 1], end), n + 1)
<1> DEFINE N == Len(list)
           iv == list[n + 1]
           v == GapStep(w, iv, end)
           c == w.cursor
           d == Larger(c, iv[2] + 1)
<1>1. /\ N \in Nat /\ n + 1 \in 1 .. N
      /\ \A i \in 1 .. N : /\ list[i] \in Interval /\ list[i][1] \in Nat
                           /\ list[i][2] \in Nat /\ list[i][1] <= list[i][2]
  BY DEF Interval, Canonical
<1>2. /\ iv \in Interval /\ iv[1] \in Nat /\ iv[2] \in Nat /\ iv[1] <= iv[2]
      /\ c \in Nat /\ w.gaps \in Seq(Interval) /\ start <= c
  BY <1>1 DEF Settled, Walk
<1>3. \A i \in n + 2 .. N : iv[2] < list[i][1]
  <2>1. \A i \in n + 2 .. N : i \in 1 .. N /\ n + 1 \in 1 .. i - 1
    BY <1>1
  <2> QED BY <2>1, CanonicalAscends
<1>4. \A i \in 1 .. N : i \in 1 .. n \/ i = n + 1 \/ i \in n + 2 .. N
  BY <1>1
<1>5. \A i \in 1 .. n + 1 : i \in 1 .. n \/ i = n + 1
  OBVIOUS
<1>6. v \in Walk
  BY <1>2, GapStepType DEF Settled
<1>7. \A x \in Nat : x \in Points(list) <=> \E i \in 1 .. N : list[i][1] <= x /\ x <= list[i][2]
  BY PointsAre
<1>8. CASE iv[2] < c \/ iv[1] > end \/ c > end
  <2>1. v = w
    BY <1>8 DEF GapStep
  <2>2. c > end \/ \A i \in 1 .. n : list[i][2] < c \/ list[i][1] > end
    BY DEF Settled
  <2>3. c > end \/ iv[2] < c \/ iv[1] > end
    BY <1>8
  <2>4. c > end \/ \A i \in 1 .. n + 1 : list[i][2] < c \/ list[i][1] > end
    BY <1>5, <2>2, <2>3
  <2> HIDE DEF v, iv
  <2> QED BY <2>1, <2>4 DEF Settled, v, iv
<1>9. CASE ~(iv[2] < c \/ iv[1] > end \/ c > end)
  <2>1. c <= end /\ c <= iv[2] /\ iv[1] <= end /\ d = iv[2] + 1 /\ d \in Nat
    <3>1. c <= end /\ c <= iv[2] /\ iv[1] <= end
      <4> HIDE DEF c, iv
      <4> QED BY <1>2, <1>9
    <3>2. iv[2] + 1 \in Nat /\ ~(c >= iv[2] + 1)
      <4> HIDE DEF c, iv
      <4> QED BY <1>2, <3>1
    <3> HIDE DEF c, iv
    <3> QED BY <3>1, <3>2 DEF Larger
  <2>2. \A i \in 1 .. n + 1 : list[i][2] < d \/ list[i][1] > end
    <3>1. \A i \in 1 .. n : list[i][2] < c \/ list[i][1] > end
      BY <1>2, <2>1 DEF Settled
    <3>2. \A i \in 1 .. n : list[i][2] \in Nat /\ i \in 1 .. N
      BY <1>1
    <3>3. iv[2] < d
      BY <1>2, <2>1
    <3> HIDE DEF d, c
    <3>4. ASSUME NEW i \in 1 .. n PROVE list[i][2] < d \/ list[i][1] > end
      <4>1. list[i][2] \in Nat /\ (list[i][2] < c \/ list[i][1] > end)
        BY <3>1, <3>2
      <4>2. \A y \in Nat : y < c => y < d
        BY <1>2, <2>1
      <4> QED BY <4>1, <4>2
    <3> QED BY <1>5, <3>3, <3>4
  <2>3. ASSUME NEW x \in Nat, c <= x, x <= end
        PROVE  /\ x < iv[1] => x \notin Points(list)
               /\ iv[1] <= x /\ x <= iv[2] => x \in Points(list)
    <3>1. ASSUME x < iv[1], NEW i \in 1 .. N, list[i][1] <= x, x <= list[i][2] PROVE FALSE
      <4>1. CASE i \in 1 .. n
        <5>1. list[i][2] < c \/ list[i][1] > end
          BY <1>2, <2>1, <4>1 DEF Settled
        <5> QED BY <1>1, <1>2, <2>3, <3>1, <5>1
      <4>2. CASE i = n + 1
        BY <1>2, <3>1, <4>2
      <4>3. CASE i \in n + 2 .. N
        <5>1. iv[2] < list[i][1] /\ list[i][1] \in Nat
          BY <1>1, <1>3, <4>3
        <5> HIDE DEF iv
        <5> QED BY <1>2, <2>3, <3>1, <5>1
      <4> QED BY <1>4, <4>1, <4>2, <4>3
    <3>2. iv[1] <= x /\ x <= iv[2] => x \in Points(list)
      BY <1>1, <1>7
    <3> QED BY <1>7, <3>1, <3>2
  <2>4. \A x \in Nat : x \in Points(w.gaps)
                        <=> start <= x /\ x <= end /\ x < c /\ x \notin Points(list)
    BY DEF Settled
  <2>5. /\ \A i \in 1 .. Len(w.gaps) : w.gaps[i][1] <= w.gaps[i][2] /\ w.gaps[i][2] + 1 < c
        /\ \A i \in 1 .. Len(w.gaps) - 1 : w.gaps[i][2] + 1 < w.gaps[i + 1][1]
    BY DEF Settled
  <2>6. v.cursor = d
    BY <1>9 DEF GapStep
  <2>7. CASE iv[1] > c
    <3> DEFINE b == iv[1] - 1
    <3>1. b \in Nat /\ c <= b /\ b + 1 < d /\ b <= end
      <4>1. \A p, q, r \in Nat : p > r /\ p <= q /\ p <= end =>
              p - 1 \in Nat /\ r <= p - 1 /\ (p - 1) + 1 < q + 1 /\ p - 1 <= end
        OBVIOUS
      <4> HIDE DEF d, c, iv
      <4> QED BY <1>2, <2>1, <2>7, <4>1
    <3>2. v.gaps = Append(w.gaps, <<c, b>>)
      BY <1>9, <2>7 DEF GapStep
    <3>3. \A x \in Nat : x <= b <=> x < iv[1]
      BY <1>2
    <3> DEFINE h == Append(w.gaps, <<c, b>>)
    <3> HIDE DEF b
    <3>4. /\ h \in Seq(Interval) /\ Len(h) = Len(w.gaps) + 1
          /\ \A x \in Nat : x \in Points(h) <=> x \in Points(w.gaps) \/ (c <= x /\ x <= b)
          /\ \A i \in 1 .. Len(h) : h[i][1] <= h[i][2] /\ (h[i][2] = b \/ h[i][2] + 1 < c)
          /\ \A i \in 1 .. Len(h) - 1 : h[i][2] + 1 < h[i + 1][1]
      BY <1>2, <2>5, <3>1, PushGap
    <3>5. v.gaps = h
      BY <3>2
    <3> HIDE DEF h, c, d, v, iv
    <3>6. ASSUME NEW x \in Nat
          PROVE  x \in Points(h) <=> start <= x /\ x <= end /\ x < d /\ x \notin Points(list)
      <4>1. x \in Points(h) <=> x \in Points(w.gaps) \/ (c <= x /\ x <= b)
        BY <3>4
      <4>2. x \in Points(w.gaps) <=> start <= x /\ x <= end /\ x < c /\ x \notin Points(list)
        BY <2>4
      <4>3. /\ c <= x /\ x < iv[1] /\ x <= end => x \notin Points(list)
            /\ c <= x /\ iv[1] <= x /\ x <= iv[2] /\ x <= end => x \in Points(list)
        BY <2>3
      <4>4. x <= b <=> x < iv[1]
        BY <3>3
      <4>5. x < d <=> x <= iv[2]
        BY <1>2, <2>1
      <4>6. c <= x \/ (x < c /\ x < d)
        BY <1>2, <2>1
      <4>7. c <= x => ~(x < c) /\ start <= x
        BY <1>2
      <4>8. x < iv[1] => x <= end /\ x <= iv[2]
        BY <1>2, <2>1
      <4>9. x < iv[1] \/ iv[1] <= x
        BY <1>2
      <4>10. iv[1] <= x => ~(x < iv[1])
        BY <1>2
      <4>11. x < c => ~(c <= x)
        BY <1>2
      <4>12. CASE x < c
        BY <4>1, <4>2, <4>6, <4>11, <4>12, Zenon
      <4>13. CASE c <= x /\ x < iv[1]
        <5>1. x \in Points(h)
          BY <4>1, <4>4, <4>13, Zenon
        <5>2. start <= x /\ x <= end /\ x < d
          BY <4>5, <4>7, <4>8, <4>13, Zenon
        <5>3. x \notin Points(list)
          BY <4>3, <4>13, <5>2, Zenon
        <5> QED BY <5>1, <5>2, <5>3, Zenon
      <4>14. CASE c <= x /\ iv[1] <= x
        BY <4>1, <4>2, <4>3, <4>4, <4>5, <4>7, <4>10, <4>14, Zenon
      <4> QED BY <4>6, <4>9, <4>12, <4>13, <4>14, Zenon
    <3>7. \A i \in 1 .. Len(h) : h[i][1] <= h[i][2] /\ h[i][2] + 1 < d
      <4>1. \A i \in 1 .. Len(h) : h[i][2] \in Nat
        BY <3>4, Bounds
      <4>2. ASSUME NEW y \in Nat, y = b \/ y + 1 < c PROVE y + 1 < d
        BY <1>2, <2>1, <3>1, <4>2
      <4> QED BY <3>4, <4>1, <4>2
    <3>8. start <= d
      BY <1>2, <2>1
    <3> QED BY <1>6, <2>2, <2>6, <3>4, <3>5, <3>6, <3>7, <3>8 DEF Settled, v, iv
  <2>8. CASE ~(iv[1] > c)
    <3>1. v.gaps = w.gaps
      BY <1>9, <2>8 DEF GapStep
    <3> HIDE DEF c, d, v, iv
    <3>2. ASSUME NEW x \in Nat
          PROVE  x \in Points(w.gaps) <=> start <= x /\ x <= end /\ x < d /\ x \notin Points(list)
      <4>1. x \in Points(w.gaps) <=> start <= x /\ x <= end /\ x < c /\ x \notin Points(list)
        BY <2>4
      <4>2. c <= x /\ x <= end /\ iv[1] <= x /\ x <= iv[2] => x \in Points(list)
        BY <2>3
      <4>3. x < d <=> x <= iv[2]
        BY <1>2, <2>1
      <4>4. (c <= x /\ iv[1] <= x) \/ (x < c /\ x < d)
        <5>1. \A p, q, r \in Nat : p <= r /\ ~(q > p) =>
                (p <= x /\ q <= x) \/ (x < p /\ x < r + 1)
          OBVIOUS
        <5> QED BY <1>2, <2>1, <2>8, <5>1
      <4>5. c <= x => ~(x < c)
        BY <1>2
      <4> QED BY <4>1, <4>2, <4>3, <4>4, <4>5, Zenon
    <3>3. \A i \in 1 .. Len(w.gaps) : w.gaps[i][1] <= w.gaps[i][2] /\ w.gaps[i][2] + 1 < d
      <4>1. \A i \in 1 .. Len(w.gaps) : w.gaps[i][2] \in Nat
        BY <1>2, Bounds
      <4>2. ASSUME NEW y \in Nat, y + 1 < c PROVE y + 1 < d
        BY <1>2, <2>1, <4>2
      <4> QED BY <2>5, <4>1, <4>2
    <3>4. start <= d
      BY <1>2, <2>1
    <3> QED BY <1>6, <2>2, <2>5, <2>6, <3>1, <3>2, <3>3, <3>4 DEF Settled, v, iv
  <2> QED BY <2>7, <2>8
<1> QED BY <1>8, <1>9

(* gaps answers a request with exactly the milliseconds of it that are not
   covered, as sorted and separated intervals (telegram-coverage-service.ts:63-90). *)
THEOREM GapsAreExact ==
  ASSUME NEW list \in Seq(Interval), Canonical(list), NEW start \in Nat, NEW end \in Nat
  PROVE  GapsExact(list, start, end)
<1> DEFINE N == Len(list)
           W(n) == GapWalk(list, start, end)[n]
           T == {n \in 0 .. N : Settled(list, start, end, W(n), n)}
           g == Gaps(list, start, end)
<1>1. CASE end < start
  <2>1. g = <<>> /\ start .. end = {} /\ Points(<<>>) = {}
    BY <1>1 DEF Gaps, Points
  <2>2. IsCovered(list, start, end)
    BY <2>1 DEF IsCovered
  <2> HIDE DEF g
  <2>3. DOMAIN g = {} /\ 1 .. Len(g) - 1 = {}
    BY <2>1
  <2> QED BY <2>1, <2>2, <2>3 DEF GapsExact, g
<1>2. CASE ~(end < start)
  <2>1. N \in Nat /\ N \in 0 .. N
    OBVIOUS
  <2>2. GapWalk(list, start, end)[0] = [cursor |-> start, gaps |-> <<>>]
    BY GapWalkRuns
  <2>3. \A n \in 0 .. N - 1 : W(n + 1) = GapStep(W(n), list[n + 1], end)
    <3>1. \A n \in 0 .. N - 1 : n + 1 \in 1 .. N /\ (n + 1) - 1 = n
      BY <2>1
    <3>2. \A n \in 1 .. N :
            GapWalk(list, start, end)[n] = GapStep(GapWalk(list, start, end)[n - 1], list[n], end)
      BY GapWalkRuns
    <3> QED BY <3>1, <3>2
  <2>4. 0 \in T
    <3> DEFINE w == [cursor |-> start, gaps |-> <<>>]
    <3>1. w.cursor = start /\ w.gaps = <<>> /\ w \in Walk
      BY DEF Walk
    <3>2. Points(<<>>) = {} /\ Len(<<>>) = 0
      BY DEF Points
    <3> HIDE DEF w
    <3>3. \A x \in Nat : x \in Points(w.gaps)
                          <=> start <= x /\ x <= end /\ x < w.cursor /\ x \notin Points(list)
      BY <3>1, <3>2
    <3>4. Len(w.gaps) = 0
      BY <3>1
    <3>5. Settled(list, start, end, w, 0)
      BY <3>1, <3>3, <3>4 DEF Settled
    <3>6. W(0) = w
      BY <2>2 DEF w
    <3> HIDE DEF W
    <3> QED BY <2>1, <3>5, <3>6
  <2> HIDE DEF W
  <2>5. ASSUME NEW n \in 0 .. N - 1, n \in T PROVE n + 1 \in T
    <3>1. Settled(list, start, end, GapStep(W(n), list[n + 1], end), n + 1)
      BY <2>5, StepSettles
    <3>2. n + 1 \in 0 .. N
      BY <2>1
    <3> QED BY <2>3, <3>1, <3>2
  <2>6. N \in T
    <3> HIDE DEF T, N
    <3>1. \A n \in 0 .. N : n \in T
      BY <2>1, <2>4, <2>5, Rounds
    <3> QED BY <2>1, <3>1
  <2> DEFINE w == W(N)
             c == w.cursor
  <2>7. Settled(list, start, end, w, N)
    BY <2>6
  <2> HIDE DEF w
  <2>8. /\ c \in Nat /\ w.gaps \in Seq(Interval) /\ start <= c
        /\ c > end \/ \A i \in 1 .. N : list[i][2] < c \/ list[i][1] > end
        /\ \A x \in Nat : x \in Points(w.gaps)
                         <=> start <= x /\ x <= end /\ x < c /\ x \notin Points(list)
        /\ \A i \in 1 .. Len(w.gaps) : w.gaps[i][1] <= w.gaps[i][2] /\ w.gaps[i][2] + 1 < c
        /\ \A i \in 1 .. Len(w.gaps) - 1 : w.gaps[i][2] + 1 < w.gaps[i + 1][1]
    BY <2>7 DEF Settled, Walk
  <2>9. g = IF c <= end THEN Append(w.gaps, <<c, end>>) ELSE w.gaps
    BY <1>2 DEF Gaps, w, W
  <2> HIDE DEF g, c
  <2>10. ASSUME NEW x \in Nat, c <= x, x <= end PROVE x \notin Points(list)
    <3>1. \A i \in 1 .. N : list[i][1] \in Nat /\ list[i][2] \in Nat
      BY DEF Interval
    <3>2. ASSUME NEW i \in 1 .. N, list[i][1] <= x, x <= list[i][2] PROVE FALSE
      BY <2>8, <2>10, <3>1, <3>2
    <3> QED BY <3>2, PointsAre
  <2>11. /\ g \in Seq(Interval)
         /\ \A x \in Nat : x \in Points(g) <=> start <= x /\ x <= end /\ x \notin Points(list)
         /\ \A i \in 1 .. Len(g) : g[i][1] <= g[i][2]
         /\ \A i \in 1 .. Len(g) - 1 : g[i][2] + 1 < g[i + 1][1]
    <3>1. CASE c <= end
      <4> DEFINE h == Append(w.gaps, <<c, end>>)
      <4>1. /\ h \in Seq(Interval) /\ Len(h) = Len(w.gaps) + 1
            /\ \A x \in Nat : x \in Points(h) <=> x \in Points(w.gaps) \/ (c <= x /\ x <= end)
            /\ \A i \in 1 .. Len(h) : h[i][1] <= h[i][2] /\ (h[i][2] = end \/ h[i][2] + 1 < c)
            /\ \A i \in 1 .. Len(h) - 1 : h[i][2] + 1 < h[i + 1][1]
        BY <2>8, <3>1, PushGap
      <4>2. g = h
        BY <2>9, <3>1
      <4> HIDE DEF h
      <4>3. ASSUME NEW x \in Nat
            PROVE  x \in Points(g) <=> start <= x /\ x <= end /\ x \notin Points(list)
        <5>1. CASE x < c
          BY <2>8, <3>1, <4>1, <4>2, <5>1
        <5>2. CASE c <= x
          BY <2>8, <2>10, <3>1, <4>1, <4>2, <5>2
        <5> QED BY <2>8, <5>1, <5>2
      <4> QED BY <4>1, <4>2, <4>3
    <3>2. CASE ~(c <= end)
      <4>1. g = w.gaps
        BY <2>9, <3>2
      <4>2. ASSUME NEW x \in Nat
            PROVE  x \in Points(w.gaps) <=> start <= x /\ x <= end /\ x \notin Points(list)
        <5>1. x <= end => x < c
          BY <2>8, <3>2
        <5> QED BY <2>8, <5>1
      <4> QED BY <2>8, <4>1, <4>2
    <3> QED BY <3>1, <3>2
  <2>12. Points(g) = (start .. end) \ Points(list)
    <3>1. \A x : x \in Points(g) => x \in Nat
      BY <2>11, PointsAre
    <3>2. \A x : x \in start .. end <=> x \in Nat /\ start <= x /\ x <= end
      OBVIOUS
    <3>3. \A x : x \in Points(g) <=> x \in start .. end /\ x \notin Points(list)
      BY <2>11, <3>1, <3>2
    <3> QED BY <3>3
  <2>13. DOMAIN g = 1 .. Len(g)
    BY <2>11
  <2>14. IsCovered(list, start, end) <=> (start .. end) \subseteq Points(list)
    <3>1. g = <<>> => Points(g) = {}
      BY DEF Points
    <3>2. g # <<>> => Points(g) # {}
      <4> SUFFICES ASSUME g # <<>> PROVE g[1][1] \in Points(g)
        OBVIOUS
      <4>1. 1 \in 1 .. Len(g) /\ g[1][1] \in Nat
        BY <2>11 DEF Interval
      <4> QED BY <2>11, <4>1, PointsAre
    <3> QED BY <2>12, <3>1, <3>2 DEF IsCovered, g
  <2> QED BY <2>11, <2>12, <2>13, <2>14 DEF GapsExact, g
<1> QED BY <1>1, <1>2
-----------------------------------------------------------------------------
(* The inductive invariant: a canonical list of intervals of milliseconds and
   an anchor that is one, or none. *)
IInv ==
  /\ covered \in Seq(Interval) /\ Canonical(covered)
  /\ liveStart \in Nat \cup {NoLive}

LEMMA InitHolds == Init => IInv
<1>1. <<>> \in Seq(Interval) /\ Canonical(<<>>)
  BY DEF Canonical
<1> QED BY <1>1 DEF Init, IInv

(* Every method keeps the invariant. *)
LEMMA StepHolds == IInv /\ [Next]_vars => IInv'
<1> SUFFICES ASSUME IInv, [Next]_vars PROVE IInv'
  OBVIOUS
<1>1. covered \in Seq(Interval) /\ Canonical(covered) /\ liveStart \in Nat \cup {NoLive}
  BY DEF IInv
<1>2. ASSUME NEW s \in Time, NEW e \in Time, AddCoveredOp(s, e) PROVE IInv'
  BY <1>1, <1>2, TimeAssumption, AddCoveredIsExact DEF AddCoveredOp, IInv
<1>3. ASSUME NEW t \in Time, ExtendLiveOp(t) PROVE IInv'
  <2> DEFINE from == IF liveStart = NoLive THEN t ELSE liveStart
  <2>1. t \in Nat /\ from \in Nat
    BY <1>1, TimeAssumption
  <2>2. covered' = AddCovered(covered, from, t) /\ liveStart' = t
    BY <1>3 DEF ExtendLiveOp
  <2> HIDE DEF from
  <2> QED BY <1>1, <2>1, <2>2, AddCoveredIsExact DEF IInv
<1>4. CASE CloseLiveOp
  BY <1>1, <1>4 DEF CloseLiveOp, IInv
<1>5. ASSUME NEW m \in Time, TrimOp(m) PROVE IInv'
  <2>1. m \in Nat
    BY TimeAssumption
  <2>2. covered' \in Seq(Interval) /\ Canonical(covered')
    BY <1>1, <1>5, <2>1, TrimIsExact DEF TrimOp
  <2>3. liveStart' \in Nat \cup {NoLive}
    BY <1>1, <1>5, <2>1 DEF TrimOp, Larger
  <2> QED BY <2>2, <2>3 DEF IInv
<1>6. CASE ClearOp
  BY <1>6, InitHolds DEF ClearOp, Init, IInv, Canonical
<1>7. CASE UNCHANGED vars
  BY <1>1, <1>7 DEF vars, IInv
<1> QED BY <1>2, <1>3, <1>4, <1>5, <1>6, <1>7 DEF Next

(* The list is always a canonical list of intervals. *)
THEOREM Invariance == Spec => []IInv
BY InitHolds, StepHolds, PTL DEF Spec

(* In every reachable state and for every request, the list is canonical and
   gaps names exactly the milliseconds that are missing: ListIsExact, for
   lists of any length (telegram-coverage-service.ts:26-99). *)
THEOREM ListIsAlwaysExact == Spec => []ListIsExact
<1>1. IInv => ListIsExact
  BY TimeAssumption, GapsAreExact DEF IInv, ListIsExact
<1> QED BY <1>1, Invariance, PTL
-----------------------------------------------------------------------------
(* What the abstract specification sees of the list. *)
Seen == [pts |-> Points(covered), live |-> liveStart]

LEMMA InitRefines == Init => AbstractCoverage!Init
<1>1. Points(<<>>) = {}
  BY DEF Points
<1> QED BY <1>1 DEF Init, AbstractCoverage!Init, AbstractCoverage!Empty

(* Every method does to the set of covered milliseconds what the abstract
   method of that name does, or nothing. *)
LEMMA StepRefines ==
  ASSUME IInv, [Next]_vars
  PROVE  [AbstractCoverage!Next]_Seen
<1>1. covered \in Seq(Interval) /\ Canonical(covered) /\ liveStart \in Nat \cup {NoLive}
  BY DEF IInv
<1>2. ASSUME NEW s \in Time, NEW e \in Time, AddCoveredOp(s, e)
      PROVE  AbstractCoverage!AddCoveredOp(s, e)
  <2>1. s \in Nat /\ e \in Nat
    BY TimeAssumption
  <2>2. Points(covered') = Points(covered) \cup (s .. e) /\ liveStart' = liveStart
    BY <1>1, <1>2, <2>1, AddCoveredIsExact DEF AddCoveredOp
  <2> QED BY <2>2 DEF AbstractCoverage!AddCoveredOp, AbstractCoverage!Add
<1>3. ASSUME NEW t \in Time, ExtendLiveOp(t)
      PROVE  AbstractCoverage!ExtendLiveOp(t)
  <2> DEFINE from == IF liveStart = NoLive THEN t ELSE liveStart
  <2>1. t \in Nat /\ from \in Nat
    BY <1>1, TimeAssumption
  <2>2. covered' = AddCovered(covered, from, t) /\ liveStart' = t
    BY <1>3 DEF ExtendLiveOp
  <2>3. Points(covered') = Points(covered) \cup (from .. t)
    <3> HIDE DEF from
    <3> QED BY <1>1, <2>1, <2>2, AddCoveredIsExact
  <2> QED BY <2>2, <2>3 DEF AbstractCoverage!ExtendLiveOp, AbstractCoverage!ExtendLive
<1>4. ASSUME CloseLiveOp PROVE AbstractCoverage!CloseLiveOp
  BY <1>4 DEF CloseLiveOp, AbstractCoverage!CloseLiveOp, AbstractCoverage!CloseLive
<1>5. ASSUME NEW m \in Time, TrimOp(m)
      PROVE  AbstractCoverage!TrimOp(m)
  <2>1. m \in Nat
    BY TimeAssumption
  <2>2. Points(covered') = {x \in Points(covered) : x >= m}
    BY <1>1, <1>5, <2>1, TrimIsExact DEF TrimOp
  <2>3. liveStart' = IF liveStart # NoLive /\ liveStart < m THEN m ELSE liveStart
    BY <1>1, <1>5, <2>1 DEF TrimOp, Larger
  <2> QED BY <2>2, <2>3 DEF AbstractCoverage!TrimOp, AbstractCoverage!Trim
<1>6. ASSUME ClearOp PROVE AbstractCoverage!ClearOp
  <2>1. Points(<<>>) = {}
    BY DEF Points
  <2> QED BY <1>6, <2>1 DEF ClearOp, AbstractCoverage!ClearOp, AbstractCoverage!Empty
<1>7. CASE UNCHANGED vars
  BY <1>7 DEF vars, Seen
<1>8. CASE Next
  <2>1. \/ \E s, e \in Time : AbstractCoverage!AddCoveredOp(s, e)
        \/ \E t \in Time : AbstractCoverage!ExtendLiveOp(t)
        \/ AbstractCoverage!CloseLiveOp
        \/ \E m \in Time : AbstractCoverage!TrimOp(m)
        \/ AbstractCoverage!ClearOp
    BY <1>2, <1>3, <1>4, <1>5, <1>6, <1>8 DEF Next
  <2> QED BY <2>1 DEF AbstractCoverage!Next, Seen
<1> QED BY <1>7, <1>8

(* The interval list implements the set of covered milliseconds:
   ImplementsCoveragePromise, for every set of times and lists of any length. *)
THEOREM ImplementsPromise == Spec => ImplementsCoveragePromise
<1>1. Init => AbstractCoverage!Init
  BY InitRefines
<1>2. IInv /\ [Next]_vars => [AbstractCoverage!Next]_Seen
  BY StepRefines
<1> QED BY <1>1, <1>2, Invariance, PTL
     DEF Spec, ImplementsCoveragePromise, AbstractCoverage!Spec, Seen
-----------------------------------------------------------------------------
(* The buffer of the telegrams, the other service of the page, for any capacity
   and any telegrams. *)
CONSTANTS Entry, Ts(_), MaxSizes, MaxMerge
VARIABLES buffer, maxSize, ids, shown, paused, pausedCount

Buf == INSTANCE TelegramBuffer

(* The module counts as the library does. *)
LEMMA CountsAlike ==
  \A S : /\ Buf!Cardinality(S) = Cardinality(S) /\ Buf!Promise!Cardinality(S) = Cardinality(S)
         /\ Buf!IsFiniteSet(S) = IsFiniteSet(S)
<1>1. \A S : Buf!Cardinality(S) = Cardinality(S)
  BY Zenon DEF Cardinality, Buf!Cardinality
<1>2. \A S : Buf!Promise!Cardinality(S) = Cardinality(S)
  BY Zenon DEF Cardinality, Buf!Promise!Cardinality
<1>3. \A S : Buf!IsFiniteSet(S) = IsFiniteSet(S)
  BY DEF IsFiniteSet, Buf!IsFiniteSet
<1> QED BY <1>1, <1>2, <1>3

(* In a finite set P that R orders, a member's rank is the number of those before
   it: every rank below the size of P is taken. *)
Rank(P, R, i) == Cardinality({j \in P : <<j, i>> \in R})

(* The ranks are the first naturals, and follow the order. *)
LEMMA Ranking ==
  ASSUME NEW P, IsFiniteSet(P), NEW R,
         \A i \in P : <<i, i>> \notin R,
         \A i, j, k \in P : <<i, j>> \in R /\ <<j, k>> \in R => <<i, k>> \in R,
         \A i, j \in P : i = j \/ <<i, j>> \in R \/ <<j, i>> \in R
  PROVE  /\ Cardinality(P) \in Nat
         /\ \A i \in P : Rank(P, R, i) \in 0 .. Cardinality(P) - 1
         /\ \A i, j \in P : <<i, j>> \in R => Rank(P, R, i) < Rank(P, R, j)
         /\ \A k \in 0 .. Cardinality(P) - 1 : \E i \in P : Rank(P, R, i) = k
<1> DEFINE N == Cardinality(P)
           before(i) == {j \in P : <<j, i>> \in R}
           rank(i) == Cardinality(before(i))
           place == [i \in P |-> rank(i) + 1]
<1>1. N \in Nat
  BY FS_CardinalityType
<1>2. ASSUME NEW i \in P
      PROVE  before(i) \in SUBSET P /\ before(i) # P /\ IsFiniteSet(before(i)) /\ rank(i) \in 0 .. N - 1
  <2>1. before(i) \in SUBSET P /\ before(i) # P
    OBVIOUS
  <2> HIDE DEF before
  <2>2. IsFiniteSet(before(i)) /\ rank(i) <= N /\ rank(i) # N
    BY <2>1, FS_Subset
  <2>3. rank(i) \in Nat
    BY <2>2, FS_CardinalityType
  <2> QED BY <1>1, <2>1, <2>2, <2>3
<1>3. ASSUME NEW i \in P, NEW j \in P, <<i, j>> \in R
      PROVE  before(i) \in SUBSET before(j) /\ before(i) # before(j)
  <2>1. before(i) \in SUBSET before(j)
    BY <1>3
  <2>2. i \in before(j) /\ i \notin before(i)
    BY <1>3
  <2> QED BY <2>1, <2>2
<1> HIDE DEF before
<1>4. ASSUME NEW i \in P, NEW j \in P, <<i, j>> \in R
      PROVE  rank(i) < rank(j)
  <2>1. rank(i) <= rank(j) /\ rank(i) # rank(j)
    <3>1. IsFiniteSet(before(j)) /\ before(i) \in SUBSET before(j) /\ before(i) # before(j)
      BY <1>2, <1>3, <1>4
    <3> QED BY <3>1, FS_Subset
  <2>2. rank(i) \in 0 .. N - 1 /\ rank(j) \in 0 .. N - 1
    BY <1>2
  <2> HIDE DEF rank
  <2> QED BY <1>1, <2>1, <2>2
<1>5. \A i \in P : rank(i) \in 0 .. N - 1
  BY <1>2
<1> HIDE DEF rank, N
<1>6. place \in Injection(P, 1 .. N)
  <2>1. \A i \in P : rank(i) + 1 \in 1 .. N
    BY <1>1, <1>5
  <2>2. \A i, j \in P : rank(i) + 1 = rank(j) + 1 => i = j
    <3>1. SUFFICES ASSUME NEW i \in P, NEW j \in P, rank(i) + 1 = rank(j) + 1, i # j PROVE FALSE
      OBVIOUS
    <3>2. <<i, j>> \in R \/ <<j, i>> \in R
      BY <3>1
    <3>3. rank(i) < rank(j) \/ rank(j) < rank(i)
      BY <1>4, <3>2
    <3> QED BY <1>1, <1>5, <3>1, <3>3
  <2> QED BY <2>1, <2>2 DEF Injection, IsInjective
<1>7. place \in Surjection(P, 1 .. N)
  <2> HIDE DEF place
  <2>1. IsFiniteSet(1 .. N) /\ Cardinality(1 .. N) = N
    BY <1>1, FirstNaturals
  <2>2. Cardinality(P) = N
    BY DEF N
  <2> QED BY <1>6, <2>1, <2>2, FS_Injection
<1>8. ASSUME NEW k \in 0 .. N - 1
      PROVE  \E i \in P : rank(i) = k
  <2>1. k + 1 \in 1 .. N
    BY <1>1
  <2>2. PICK i \in P : place[i] = k + 1
    <3> HIDE DEF place
    <3> QED BY <1>7, <2>1 DEF Surjection
  <2>3. rank(i) + 1 = k + 1
    BY <2>2
  <2> QED BY <1>1, <1>5, <2>3
<1>9. \A i : rank(i) = Rank(P, R, i)
  BY DEF rank, before, Rank
<1> QED BY <1>1, <1>4, <1>5, <1>8, <1>9 DEF N

(* Timestamps are numbers. *)
Timed == \A e \in Entry : Ts(e) \in Nat

(* In an order of neighbours, whoever comes later is not older. *)
Ascends(s) == \A i, j \in 1 .. Len(s) : i <= j => Ts(s[i]) <= Ts(s[j])

LEMMA OrderAscends ==
  ASSUME Timed, NEW s \in Seq(Entry), Buf!InOrder(s)
  PROVE  Ascends(s)
<1> SUFFICES ASSUME NEW i \in 1 .. Len(s), NEW j \in 1 .. Len(s), i <= j
             PROVE  Ts(s[i]) <= Ts(s[j])
  BY DEF Ascends
<1> DEFINE T == {n \in Nat : i + n <= Len(s) => Ts(s[i]) <= Ts(s[i + n])}
<1>1. Len(s) \in Nat /\ \A k \in 1 .. Len(s) : Ts(s[k]) \in Nat
  BY ElementOfSeq, LenProperties DEF Timed
<1>2. 0 \in T
  BY <1>1
<1>3. ASSUME NEW n \in 0 .. (j - i) - 1, n \in T
      PROVE  n + 1 \in T
  <2>1. i + n \in 1 .. Len(s) - 1 /\ (i + n) + 1 = i + (n + 1)
    BY <1>1
  <2>2. Ts(s[i + n]) <= Ts(s[(i + n) + 1])
    BY <2>1 DEF Buf!InOrder
  <2>3. Ts(s[i]) \in Nat /\ Ts(s[i + n]) \in Nat /\ Ts(s[i + (n + 1)]) \in Nat
    BY <1>1, <2>1
  <2>4. Ts(s[i]) <= Ts(s[i + n])
    BY <1>1, <1>3, <2>1
  <2>5. Ts(s[i]) <= Ts(s[i + (n + 1)])
    BY <2>1, <2>2, <2>3, <2>4
  <2> QED BY <2>5
<1>4. j - i \in T
  <2> HIDE DEF T
  <2>1. j - i \in Nat
    BY <1>1
  <2> QED BY <1>2, <1>3, <2>1, Rounds
<1>5. i + (j - i) = j
  BY <1>1
<1> QED BY <1>1, <1>4, <1>5

(* Sorting what is at the places P of s puts each of it once, in time order. *)
LEMMA SortedIs ==
  ASSUME Timed, NEW s, NEW P \in SUBSET Nat, IsFiniteSet(P), \A i \in P : s[i] \in Entry
  PROVE  LET r == Buf!Sorted(s, P)
         IN  /\ r \in Seq(Entry) /\ Cardinality(P) \in Nat /\ Len(r) = Cardinality(P)
             /\ Buf!InOrder(r)
             /\ \A k \in 1 .. Len(r) : \E i \in P : r[k] = s[i]
             /\ \A i \in P : \E k \in 1 .. Len(r) : r[k] = s[i]
             /\ (\A i, j \in P : s[i] = s[j] => i = j) => \A k, l \in 1 .. Len(r) : r[k] = r[l] => k = l
<1> DEFINE N == Cardinality(P)
           R == {w \in P \X P : Buf!Before(s, w[1], w[2])}
           rank(i) == Rank(P, R, i)
           at(k) == CHOOSE i \in P : Buf!Cardinality({j \in P : Buf!Before(s, j, i)}) = k - 1
           r == [k \in 1 .. N |-> s[at(k)]]
<1>1. \A i \in P : i \in Nat /\ Ts(s[i]) \in Nat
  BY DEF Timed
<1>2. \A i, j \in P : <<i, j>> \in R <=> Ts(s[i]) < Ts(s[j]) \/ (Ts(s[i]) = Ts(s[j]) /\ i < j)
  BY DEF Buf!Before
<1>3. Buf!Sorted(s, P) = r
  BY CountsAlike DEF Buf!Sorted
<1>p. \A i \in P : Buf!Cardinality({j \in P : Buf!Before(s, j, i)}) = rank(i)
  <2>1. \A i \in P : {j \in P : Buf!Before(s, j, i)} = {j \in P : <<j, i>> \in R}
    OBVIOUS
  <2> HIDE DEF R
  <2> QED BY <2>1, CountsAlike DEF Rank
<1> HIDE DEF R
<1>t. /\ \A i \in P : <<i, i>> \notin R
      /\ \A i, j, k \in P : <<i, j>> \in R /\ <<j, k>> \in R => <<i, k>> \in R
      /\ \A i, j \in P : i = j \/ <<i, j>> \in R \/ <<j, i>> \in R
  BY <1>1, <1>2
<1>4. /\ N \in Nat
      /\ \A i \in P : rank(i) \in 0 .. N - 1
      /\ \A i, j \in P : <<i, j>> \in R => rank(i) < rank(j)
      /\ \A k \in 0 .. N - 1 : \E i \in P : rank(i) = k
  BY <1>t, Ranking
<1> HIDE DEF rank, N
<1>5. \A k \in 1 .. N : at(k) \in P /\ rank(at(k)) = k - 1
  <2> SUFFICES ASSUME NEW k \in 1 .. N PROVE at(k) \in P /\ rank(at(k)) = k - 1
    OBVIOUS
  <2>1. k - 1 \in 0 .. N - 1
    BY <1>4
  <2>2. \E i \in P : rank(i) = k - 1
    BY <1>4, <2>1
  <2> QED BY <2>2, <1>p
<1>6. \A k, l \in 1 .. N : at(k) = at(l) => k = l
  <2> SUFFICES ASSUME NEW k \in 1 .. N, NEW l \in 1 .. N, at(k) = at(l) PROVE k = l
    OBVIOUS
  <2>1. k - 1 = l - 1
    <3>1. rank(at(k)) = k - 1 /\ rank(at(l)) = l - 1
      BY <1>5
    <3> HIDE DEF at
    <3> QED BY <3>1
  <2> QED BY <1>4, <2>1
<1>7. \A i \in P : \E k \in 1 .. N : at(k) = i
  <2> SUFFICES ASSUME NEW i \in P PROVE \E k \in 1 .. N : at(k) = i
    OBVIOUS
  <2> DEFINE k == rank(i) + 1
  <2>1. k \in 1 .. N /\ k - 1 = rank(i)
    BY <1>4
  <2>2. at(k) \in P /\ rank(at(k)) = rank(i)
    BY <1>5, <2>1
  <2> HIDE DEF k
  <2>3. at(k) = i
    <3> HIDE DEF at
    <3>1. at(k) = i \/ <<at(k), i>> \in R \/ <<i, at(k)>> \in R
      BY <1>t, <2>2
    <3>2. rank(at(k)) \in Nat /\ rank(i) \in Nat
      BY <1>4, <2>2
    <3>3. ~(rank(at(k)) < rank(i)) /\ ~(rank(i) < rank(at(k)))
      BY <2>2, <3>2
    <3> QED BY <1>4, <2>2, <3>1, <3>3
  <2> QED BY <2>1, <2>3
<1> HIDE DEF at
<1>8. \A k \in 1 .. N : r[k] = s[at(k)] /\ r[k] \in Entry
  BY <1>5
<1>9. r \in Seq(Entry) /\ Len(r) = N /\ DOMAIN r = 1 .. N
  BY <1>4, <1>8
<1>10. ASSUME NEW k \in 1 .. N - 1
       PROVE  Ts(r[k]) <= Ts(r[k + 1])
  <2>1. k \in 1 .. N /\ k + 1 \in 1 .. N
    BY <1>4
  <2>2. at(k) \in P /\ at(k + 1) \in P /\ rank(at(k)) = k - 1 /\ rank(at(k + 1)) = k
    BY <1>5, <2>1
  <2>3. <<at(k + 1), at(k)>> \notin R
    <3>1. ~(k < k - 1)
      BY <1>4
    <3> QED BY <1>4, <2>2, <3>1
  <2>4. Ts(s[at(k)]) <= Ts(s[at(k + 1)])
    <3> DEFINE a == at(k)
               b == at(k + 1)
    <3>1. a \in P /\ b \in P /\ <<b, a>> \notin R
      BY <2>2, <2>3
    <3> HIDE DEF a, b
    <3>2. Ts(s[a]) <= Ts(s[b])
      BY <1>1, <1>2, <3>1
    <3> QED BY <3>2 DEF a, b
  <2> QED BY <1>8, <2>1, <2>4
<1> HIDE DEF r
<1>11. Buf!InOrder(r)
  BY <1>9, <1>10 DEF Buf!InOrder
<1>12. (\A i, j \in P : s[i] = s[j] => i = j) => \A k, l \in 1 .. N : r[k] = r[l] => k = l
  BY <1>5, <1>6, <1>8
<1>13. \A i \in P : \E k \in 1 .. N : r[k] = s[i]
  BY <1>7, <1>8
<1>14. \A k \in 1 .. N : \E i \in P : r[k] = s[i]
  BY <1>5, <1>8
<1> QED BY <1>3, <1>4, <1>9, <1>11, <1>12, <1>13, <1>14 DEF N

(* A list of different telegrams in time order, and what it holds. *)
Chronicle(s) == s \in Seq(Entry) /\ Buf!IsInjective(s) /\ Buf!InOrder(s)

(* The places of a list, and what it holds. *)
LEMMA SetOf ==
  ASSUME NEW s \in Seq(Entry)
  PROVE  /\ Len(s) \in Nat /\ DOMAIN s = 1 .. Len(s)
         /\ \A i \in 1 .. Len(s) : s[i] \in Entry
         /\ Buf!ToSet(s) \in SUBSET Entry
         /\ \A e : e \in Buf!ToSet(s) <=> \E i \in 1 .. Len(s) : e = s[i]
         /\ Buf!IsInjective(s) <=> \A i, j \in 1 .. Len(s) : s[i] = s[j] => i = j
<1>1. /\ Len(s) \in Nat /\ DOMAIN s = 1 .. Len(s)
      /\ \A i \in 1 .. Len(s) : s[i] \in Entry
  BY ElementOfSeq, LenProperties
<1> QED BY <1>1 DEF Buf!ToSet, Buf!IsInjective

(* It holds as many as it is long. *)
LEMMA HoldsItsLength ==
  ASSUME NEW s \in Seq(Entry), Buf!IsInjective(s)
  PROVE  IsFiniteSet(Buf!ToSet(s)) /\ Cardinality(Buf!ToSet(s)) = Len(s)
<1> DEFINE n == Len(s)
           f == [i \in 1 .. n |-> s[i]]
           S == Buf!ToSet(s)
<1>1. /\ n \in Nat /\ \A i \in 1 .. n : s[i] \in S
      /\ \A e \in S : \E i \in 1 .. n : e = s[i]
      /\ \A i, j \in 1 .. n : s[i] = s[j] => i = j
  BY SetOf
<1> HIDE DEF n, S
<1>2. f \in Bijection(1 .. n, S)
  <2>1. f \in [1 .. n -> S] /\ \A i, j \in 1 .. n : f[i] = f[j] => i = j
    BY <1>1
  <2>2. \A e \in S : \E i \in 1 .. n : f[i] = e
    BY <1>1
  <2> HIDE DEF f
  <2> QED BY <2>1, <2>2 DEF Bijection, Injection, Surjection, IsInjective
<1>3. ExistsBijection(1 .. n, S)
  BY <1>2 DEF ExistsBijection
<1>4. IsFiniteSet(1 .. n) /\ Cardinality(1 .. n) = n
  BY <1>1, FirstNaturals
<1>5. IsFiniteSet(S) /\ Cardinality(S) = n
  BY <1>3, <1>4, FS_Bijection
<1> QED BY <1>5 DEF n, S

(* add puts what is new among what is there, in time order, on the fast path
   too. *)
LEMMA PushIs ==
  ASSUME Timed, NEW buf, Chronicle(buf), NEW new \in Seq(Entry), Buf!IsInjective(new),
         Buf!ToSet(buf) \cap Buf!ToSet(new) = {}
  PROVE  /\ Chronicle(Buf!Push(buf, new))
         /\ Len(Buf!Push(buf, new)) = Len(buf) + Len(new)
         /\ Buf!ToSet(Buf!Push(buf, new)) = Buf!ToSet(buf) \cup Buf!ToSet(new)
<1> DEFINE m == Len(buf)
           n == Len(new)
           s == buf \o new
           P == 1 .. m + n
<1>1. /\ m \in Nat /\ n \in Nat /\ buf \in Seq(Entry)
      /\ \A i \in 1 .. m : buf[i] \in Buf!ToSet(buf) /\ buf[i] \in Entry
      /\ \A i \in 1 .. n : new[i] \in Buf!ToSet(new) /\ new[i] \in Entry
      /\ \A i, j \in 1 .. m : buf[i] = buf[j] => i = j
      /\ \A i, j \in 1 .. n : new[i] = new[j] => i = j
  BY SetOf DEF Chronicle
<1>2. /\ s \in Seq(Entry) /\ Len(s) = m + n
      /\ \A i \in 1 .. m + n : s[i] = IF i <= m THEN buf[i] ELSE new[i - m]
  BY <1>1, ConcatProperties
<1>3. \A i, j \in P : s[i] = s[j] => i = j
  <2> SUFFICES ASSUME NEW i \in P, NEW j \in P, s[i] = s[j] PROVE i = j
    OBVIOUS
  <2> HIDE DEF s
  <2>1. \A x, y : x \in Buf!ToSet(buf) /\ y \in Buf!ToSet(new) => x # y
    OBVIOUS
  <2>2. CASE i <= m /\ j <= m
    <3>1. i \in 1 .. m /\ j \in 1 .. m
      BY <1>1, <2>2
    <3> QED BY <1>1, <1>2, <2>2, <3>1
  <2>3. CASE i > m /\ j > m
    <3>1. i - m \in 1 .. n /\ j - m \in 1 .. n /\ ~(i <= m) /\ ~(j <= m)
      BY <1>1, <2>3
    <3>2. new[i - m] = new[j - m]
      BY <1>2, <3>1
    <3>3. i - m = j - m
      BY <1>1, <3>1, <3>2
    <3> QED BY <1>1, <3>3
  <2>4. CASE i <= m /\ j > m
    <3>1. i \in 1 .. m /\ j - m \in 1 .. n /\ ~(j <= m)
      BY <1>1, <2>4
    <3> QED BY <1>1, <1>2, <2>1, <2>4, <3>1
  <2>5. CASE i > m /\ j <= m
    <3>1. j \in 1 .. m /\ i - m \in 1 .. n /\ ~(i <= m)
      BY <1>1, <2>5
    <3> QED BY <1>1, <1>2, <2>1, <2>5, <3>1
  <2> QED BY <1>1, <2>2, <2>3, <2>4, <2>5
<1>4. \A e : e \in Buf!ToSet(s) <=> e \in Buf!ToSet(buf) \/ e \in Buf!ToSet(new)
  <2> HIDE DEF s, m, n
  <2> SUFFICES ASSUME NEW e
               PROVE  (\E i \in P : e = s[i])
                        <=> (\E i \in 1 .. m : e = buf[i]) \/ (\E i \in 1 .. n : e = new[i])
    <3>1. \A e : e \in Buf!ToSet(s) <=> \E i \in P : e = s[i]
      BY <1>2, SetOf
    <3>2. \A e : e \in Buf!ToSet(buf) <=> \E i \in 1 .. m : e = buf[i]
      BY <1>1, SetOf DEF m
    <3>3. \A e : e \in Buf!ToSet(new) <=> \E i \in 1 .. n : e = new[i]
      BY <1>1, SetOf DEF n
    <3> QED BY <3>1, <3>2, <3>3
  <2>1. ASSUME NEW i \in 1 .. m PROVE i \in P /\ s[i] = buf[i]
    BY <1>1, <1>2
  <2>2. ASSUME NEW i \in 1 .. n PROVE i + m \in P /\ s[i + m] = new[i]
    BY <1>1, <1>2
  <2>3. ASSUME NEW i \in P PROVE (i \in 1 .. m /\ s[i] = buf[i]) \/ (i - m \in 1 .. n /\ s[i] = new[i - m])
    BY <1>1, <1>2
  <2> QED BY <2>1, <2>2, <2>3
<1>5. CASE new = <<>>
  <2>1. Buf!Push(buf, new) = buf /\ n = 0
    BY <1>5, EmptySeq DEF Buf!Push
  <2>2. Buf!ToSet(new) = {}
    <3>1. \A e : e \in Buf!ToSet(new) <=> \E i \in 1 .. Len(new) : e = new[i]
      BY SetOf
    <3> QED BY <2>1, <3>1
  <2> HIDE DEF m, n
  <2>3. m = m + n
    BY <1>1, <2>1
  <2> QED BY <2>1, <2>2, <2>3 DEF m, n
<1>6. CASE new # <<>> /\ Buf!InOrder(new) /\ (buf = <<>> \/ Ts(Buf!Last(buf)) <= Ts(Head(new)))
  <2>1. Buf!Push(buf, new) = s
    BY <1>6 DEF Buf!Push
  <2>2. n \in Nat \ {0} /\ (m # 0 => buf # <<>>) /\ Head(new) = new[1]
    BY <1>1, <1>6, EmptySeq
  <2>3. m # 0 => Ts(buf[m]) <= Ts(new[1])
    BY <1>6, <2>2 DEF Buf!Last
  <2> HIDE DEF s
  <2>4. ASSUME NEW i \in 1 .. (m + n) - 1
        PROVE  Ts(s[i]) <= Ts(s[i + 1])
    <3>1. i \in 1 .. m + n /\ i + 1 \in 1 .. m + n
      BY <1>1
    <3>2. CASE i < m
      <4>1. i \in 1 .. m - 1 /\ i <= m /\ i + 1 <= m
        BY <1>1, <3>2
      <4>2. Ts(buf[i]) <= Ts(buf[i + 1])
        BY <4>1 DEF Chronicle, Buf!InOrder
      <4> QED BY <1>2, <3>1, <4>1, <4>2
    <3>3. CASE i = m
      <4>1. i <= m /\ ~(i + 1 <= m) /\ (i + 1) - m = 1 /\ m # 0
        BY <1>1, <3>3
      <4> QED BY <1>2, <2>3, <3>1, <3>3, <4>1
    <3>4. CASE i > m
      <4>1. i - m \in 1 .. n - 1 /\ ~(i <= m) /\ ~(i + 1 <= m) /\ (i + 1) - m = (i - m) + 1
        BY <1>1, <3>4
      <4>2. Ts(new[i - m]) <= Ts(new[(i - m) + 1])
        BY <1>6, <4>1 DEF Buf!InOrder
      <4> QED BY <1>2, <3>1, <4>1, <4>2
    <3> QED BY <1>1, <3>2, <3>3, <3>4
  <2>5. Chronicle(s)
    <3>1. Buf!InOrder(s)
      BY <1>2, <2>4 DEF Buf!InOrder
    <3> QED BY <1>2, <1>3, <3>1, SetOf DEF Chronicle
  <2> QED BY <1>2, <1>4, <2>1, <2>5
<1>7. CASE new # <<>> /\ ~(Buf!InOrder(new) /\ (buf = <<>> \/ Ts(Buf!Last(buf)) <= Ts(Head(new))))
  <2> DEFINE r == Buf!Sorted(s, P)
  <2>1. Buf!Push(buf, new) = r
    BY <1>7 DEF Buf!Push
  <2>2. P \in SUBSET Nat /\ IsFiniteSet(P) /\ Cardinality(P) = m + n
    <3>1. m + n \in Nat
      BY <1>1
    <3> QED BY <3>1, FirstNaturals
  <2>3. \A i \in P : s[i] \in Entry
    BY <1>2, ElementOfSeq
  <2> HIDE DEF s, P
  <2>4. /\ r \in Seq(Entry) /\ Len(r) = m + n /\ Buf!InOrder(r)
        /\ \A k \in 1 .. Len(r) : \E i \in P : r[k] = s[i]
        /\ \A i \in P : \E k \in 1 .. Len(r) : r[k] = s[i]
        /\ \A k, l \in 1 .. Len(r) : r[k] = r[l] => k = l
    BY <1>3, <2>2, <2>3, SortedIs
  <2> HIDE DEF r
  <2>5. Chronicle(r)
    BY <2>4, SetOf DEF Chronicle
  <2>6. \A e : e \in Buf!ToSet(r) <=> e \in Buf!ToSet(s)
    <3>1. \A e : e \in Buf!ToSet(r) <=> \E k \in 1 .. Len(r) : e = r[k]
      BY <2>4, SetOf
    <3>2. \A e : e \in Buf!ToSet(s) <=> \E i \in P : e = s[i]
      BY <1>2, SetOf DEF P
    <3> QED BY <2>4, <3>1, <3>2
  <2> QED BY <1>4, <2>1, <2>4, <2>5, <2>6
<1> QED BY <1>5, <1>6, <1>7

(* What overflows leaves at the old end. *)
LEMMA CutIs ==
  ASSUME Timed, NEW s, Chronicle(s), NEW size \in Nat
  PROVE  /\ Chronicle(Buf!Cut(s, size))
         /\ Len(Buf!Cut(s, size)) <= size
         /\ Len(s) <= size => Buf!Cut(s, size) = s
         /\ Buf!ToSet(Buf!Cut(s, size)) \in Buf!Promise!NewestOf(Buf!ToSet(s), size)
<1> DEFINE c == Buf!Cut(s, size)
           d == Len(s) - size
<1>1. Len(s) \in Nat /\ DOMAIN s = 1 .. Len(s) /\ s \in Seq(Entry) /\ \A i \in 1 .. Len(s) : s[i] \in Entry
  BY SetOf DEF Chronicle
<1>2. CASE Len(s) <= size
  <2>1. c = s
    BY <1>1, <1>2 DEF Buf!Cut
  <2> HIDE DEF c
  <2>2. /\ IsFiniteSet(Buf!ToSet(s)) /\ Cardinality(Buf!ToSet(s)) = Len(s)
    BY <1>1, HoldsItsLength DEF Chronicle
  <2>3. Buf!ToSet(s) \in Buf!Promise!NewestOf(Buf!ToSet(s), size)
    BY <1>2, <2>2, CountsAlike DEF Buf!Promise!NewestOf
  <2> QED BY <1>2, <2>1, <2>3 DEF c
<1>3. CASE Len(s) > size
  <2>1. c = SubSeq(s, d + 1, Len(s)) /\ d \in 1 .. Len(s) /\ Len(s) - (d + 1) + 1 = size
    BY <1>1, <1>3 DEF Buf!Cut
  <2>2. /\ c \in Seq(Entry) /\ Len(c) = size
        /\ \A i \in 1 .. size : c[i] = s[d + i]
    <3>1. d + 1 \in Int /\ Len(s) \in Int /\ \A i \in d + 1 .. Len(s) : s[i] \in Entry
      BY <1>1, <2>1
    <3>2. /\ SubSeq(s, d + 1, Len(s)) \in Seq(Entry)
          /\ Len(SubSeq(s, d + 1, Len(s))) = IF d + 1 <= Len(s) THEN Len(s) - (d + 1) + 1 ELSE 0
          /\ \A i \in 1 .. Len(s) - (d + 1) + 1 : SubSeq(s, d + 1, Len(s))[i] = s[(d + 1) + i - 1]
      BY <3>1, SubSeqProperties
    <3>3. (IF d + 1 <= Len(s) THEN Len(s) - (d + 1) + 1 ELSE 0) = size
      BY <1>1, <1>3
    <3>4. \A i \in 1 .. size : (d + 1) + i - 1 = d + i
      BY <1>1
    <3> HIDE DEF c, d
    <3> QED BY <2>1, <3>2, <3>3, <3>4
  <2>3. \A i \in 1 .. size : d + i \in 1 .. Len(s) /\ (d + i) + 1 = d + (i + 1)
    BY <1>1, <2>1
  <2>4. d \in Int
    BY <1>1
  <2> HIDE DEF c, d
  <2>5. \A i, j \in 1 .. size : c[i] = c[j] => i = j
    <3> SUFFICES ASSUME NEW i \in 1 .. size, NEW j \in 1 .. size, c[i] = c[j] PROVE i = j
      OBVIOUS
    <3>1. \A k, l \in 1 .. Len(s) : s[k] = s[l] => k = l
      BY <1>1, SetOf DEF Chronicle
    <3>2. d + i = d + j
      <4>1. d + i \in 1 .. Len(s) /\ d + j \in 1 .. Len(s)
        BY <2>3
      <4>2. s[d + i] = s[d + j]
        BY <2>2
      <4> QED BY <3>1, <4>1, <4>2
    <3> QED BY <2>4, <3>2
  <2>6. Buf!InOrder(c)
    <3> SUFFICES ASSUME NEW i \in 1 .. size - 1 PROVE Ts(c[i]) <= Ts(c[i + 1])
      BY <2>2 DEF Buf!InOrder
    <3>1. i \in 1 .. size /\ i + 1 \in 1 .. size /\ d + i \in 1 .. Len(s) - 1
      BY <1>1, <2>1, <2>3
    <3>2. Ts(s[d + i]) <= Ts(s[(d + i) + 1])
      BY <3>1 DEF Chronicle, Buf!InOrder
    <3>3. c[i] = s[d + i] /\ c[i + 1] = s[(d + i) + 1]
      BY <2>2, <2>3, <3>1
    <3> QED BY <3>2, <3>3
  <2>7. Chronicle(c)
    BY <2>2, <2>5, <2>6, SetOf DEF Chronicle
  <2>8. /\ Cardinality(Buf!ToSet(s)) = Len(s) /\ Cardinality(Buf!ToSet(c)) = size
    BY <1>1, <2>2, <2>7, HoldsItsLength DEF Chronicle
  <2>9. Buf!ToSet(c) \in SUBSET Buf!ToSet(s)
    <3> SUFFICES ASSUME NEW e \in Buf!ToSet(c) PROVE e \in Buf!ToSet(s)
      OBVIOUS
    <3>1. PICK i \in 1 .. size : e = c[i]
      BY <2>2, SetOf
    <3> QED BY <1>1, <2>2, <2>3, <3>1, SetOf
  <2>10. ASSUME NEW e \in Buf!ToSet(c), NEW old \in Buf!ToSet(s) \ Buf!ToSet(c)
         PROVE  Ts(old) <= Ts(e)
    <3>1. PICK i \in 1 .. size : e = c[i]
      BY <2>2, SetOf
    <3>2. PICK k \in 1 .. Len(s) : old = s[k]
      BY <1>1, SetOf
    <3>3. ~(k > d)
      <4> SUFFICES ASSUME k > d PROVE FALSE
        OBVIOUS
      <4>1. k - d \in 1 .. size /\ d + (k - d) = k
        BY <1>1, <2>1, <2>4
      <4>2. old = c[k - d]
        BY <2>2, <3>2, <4>1
      <4> QED BY <2>2, <4>1, <4>2, SetOf
    <3>4. k <= d + i
      BY <1>1, <2>4, <3>3
    <3>5. Ascends(s)
      BY <1>1, OrderAscends DEF Chronicle
    <3>6. Ts(s[k]) <= Ts(s[d + i])
      BY <2>3, <3>4, <3>5 DEF Ascends
    <3> QED BY <2>2, <3>1, <3>2, <3>6
  <2>11. Buf!ToSet(c) \in Buf!Promise!NewestOf(Buf!ToSet(s), size)
    <3>1. Buf!Promise!Cardinality(Buf!ToSet(c))
            = IF Buf!Promise!Cardinality(Buf!ToSet(s)) <= size THEN Buf!Promise!Cardinality(Buf!ToSet(s)) ELSE size
      BY <1>1, <1>3, <2>8, CountsAlike
    <3> QED BY <2>9, <2>10, <3>1 DEF Buf!Promise!NewestOf
  <2>12. ~(Len(s) <= size)
    BY <1>1, <1>3
  <2> QED BY <2>2, <2>7, <2>11, <2>12 DEF c
<1> QED BY <1>1, <1>2, <1>3
-----------------------------------------------------------------------------
(* The buffer in every state is an inductive invariant as it stands. *)
BufInv == Buf!Sized /\ Buf!BufferIsTrue

LEMMA BufIs ==
  ASSUME BufInv
  PROVE  /\ Timed /\ Chronicle(buffer) /\ maxSize \in Nat /\ Len(buffer) <= maxSize
         /\ maxSize \in MaxSizes /\ MaxSizes \subseteq Nat
         /\ ids \in SUBSET Entry /\ Buf!ToSet(buffer) \in SUBSET ids
         /\ shown \in Seq(Entry) /\ paused \in BOOLEAN /\ (~paused => shown = Buf!Reverse(buffer))
         /\ Buf!MaxPausedCount \in Nat /\ pausedCount \in 0 .. Buf!MaxPausedCount
<1>1. Buf!MaxPausedCount \in Nat
  BY CountsAlike, FS_CardinalityType DEF BufInv, Buf!Sized, Buf!MaxPausedCount
<1> QED BY <1>1 DEF BufInv, Buf!Sized, Buf!BufferIsTrue, Buf!TypeOK, Buf!StaysSorted, Buf!LiveKnowsBuffer,
       Buf!ScreenIsCurrent, Timed, Chronicle

(* What each step has to show. *)
LEMMA BufKeeps ==
  ASSUME BufInv, Chronicle(buffer'), maxSize' \in MaxSizes, Len(buffer') <= maxSize',
         ids' \in SUBSET Entry, Buf!ToSet(buffer') \in SUBSET ids',
         shown' \in Seq(Entry), paused' \in BOOLEAN, ~paused' => shown' = Buf!Reverse(buffer'),
         pausedCount' \in 0 .. Buf!MaxPausedCount
  PROVE  BufInv'
BY DEF BufInv, Buf!Sized, Buf!BufferIsTrue, Buf!TypeOK, Buf!StaysSorted, Buf!LiveKnowsBuffer,
       Buf!ScreenIsCurrent, Chronicle

(* The newest-first copy is a list too. *)
LEMMA ReverseIs ==
  ASSUME NEW s \in Seq(Entry)
  PROVE  Buf!Reverse(s) \in Seq(Entry)
<1>1. Len(s) \in Nat /\ \A i \in 1 .. Len(s) : s[i] \in Entry
  BY SetOf
<1>2. \A i \in 1 .. Len(s) : Len(s) - i + 1 \in 1 .. Len(s)
  BY <1>1
<1>3. Buf!Reverse(s) \in [1 .. Len(s) -> Entry]
  BY <1>1, <1>2 DEF Buf!Reverse
<1> QED BY <1>1, <1>3

(* Nothing, and one telegram. *)
LEMMA NothingIs ==
  ASSUME NEW s \in Seq(Entry), Len(s) = 0
  PROVE  Buf!ToSet(s) = {} /\ Chronicle(s) /\ Buf!Reverse(s) = <<>>
<1>0. \A i : i \notin 1 .. Len(s)
  OBVIOUS
<1>1. \A e : e \notin Buf!ToSet(s)
  <2>1. \A e : e \in Buf!ToSet(s) <=> \E i \in 1 .. Len(s) : e = s[i]
    BY SetOf
  <2> QED BY <1>0, <2>1
<1>2. Buf!IsInjective(s)
  <2>1. DOMAIN s = 1 .. Len(s)
    BY SetOf
  <2> QED BY <1>0, <2>1 DEF Buf!IsInjective
<1>3. Buf!InOrder(s)
  BY DEF Buf!InOrder
<1>4. Buf!Reverse(s) = <<>>
  <2>1. Buf!Reverse(s) \in Seq(Entry) /\ Buf!Reverse(s) \in [1 .. 0 -> Entry]
    BY ReverseIs DEF Buf!Reverse
  <2> QED BY <2>1, EmptySeq, LenProperties
<1> QED BY <1>1, <1>2, <1>3, <1>4 DEF Chronicle

LEMMA OneIs ==
  ASSUME NEW s \in Seq(Entry), NEW e, Len(s) = 1, s[1] = e
  PROVE  Buf!ToSet(s) = {e} /\ Buf!IsInjective(s)
<1>1. \A x : x \in Buf!ToSet(s) <=> \E i \in 1 .. 1 : x = s[i]
  BY SetOf
<1>2. Buf!IsInjective(s)
  BY SetOf
<1> QED BY <1>1, <1>2

(* What publish shows. *)
LEMMA PublishIs ==
  ASSUME BufInv, buffer' \in Seq(Entry), Buf!Publish(buffer'), UNCHANGED paused
  PROVE  shown' \in Seq(Entry) /\ (~paused' => shown' = Buf!Reverse(buffer'))
<1>1. Buf!Reverse(buffer') \in Seq(Entry)
  BY ReverseIs
<1> QED BY <1>1, BufIs DEF Buf!Publish

(* An empty buffer. *)
LEMMA BufInit == Buf!Sized /\ Buf!Init => BufInv /\ Buf!Promise!Init
<1> SUFFICES ASSUME Buf!Sized, Buf!Init PROVE BufInv /\ Buf!Promise!Init
  OBVIOUS
<1>1. /\ buffer = <<>> /\ buffer \in Seq(Entry) /\ Len(buffer) = 0 /\ ids = {} /\ shown = <<>>
      /\ maxSize \in MaxSizes /\ MaxSizes \subseteq Nat /\ paused = FALSE /\ pausedCount = 0
  BY EmptySeq DEF Buf!Init, Buf!Sized
<1>2. Buf!ToSet(buffer) = {} /\ Chronicle(buffer) /\ Buf!Reverse(buffer) = <<>>
  BY <1>1, NothingIs
<1>4. Buf!MaxPausedCount \in Nat
  BY CountsAlike, FS_CardinalityType DEF Buf!Sized, Buf!MaxPausedCount
<1>5. BufInv
  <2>1. /\ ids \subseteq Entry /\ Buf!ToSet(buffer) \subseteq ids /\ shown \in Seq(Entry)
        /\ Len(buffer) <= maxSize /\ paused \in BOOLEAN /\ pausedCount \in 0 .. Buf!MaxPausedCount
        /\ shown = Buf!Reverse(buffer)
    <3>1. maxSize \in Nat /\ Len(buffer) = 0 /\ shown = <<>> /\ ids = {} /\ Buf!ToSet(buffer) = {}
      BY <1>1, <1>2
    <3>2. Len(buffer) <= maxSize /\ ids \subseteq Entry /\ Buf!ToSet(buffer) \subseteq ids
      BY <3>1
    <3>3. shown \in Seq(Entry) /\ shown = Buf!Reverse(buffer)
      BY <1>2, <3>1, EmptySeq
    <3>4. paused \in BOOLEAN
      BY <1>1
    <3>5. pausedCount = 0 /\ 0 \in 0 .. Buf!MaxPausedCount
      BY <1>1, <1>4
    <3> QED BY <3>2, <3>3, <3>4, <3>5
  <2> QED BY <1>1, <1>2, <2>1 DEF BufInv, Chronicle, Buf!BufferIsTrue, Buf!TypeOK, Buf!StaysSorted,
         Buf!LiveKnowsBuffer, Buf!ScreenIsCurrent
<1>6. Buf!Promise!Init
  BY <1>1, <1>2 DEF Buf!Promise!Init
<1> QED BY <1>5, <1>6

(* A live telegram that is new. *)
LEMMA AddLiveKeeps ==
  ASSUME BufInv, NEW e \in Entry, Buf!Bounded, Buf!AddLive(e)
  PROVE  BufInv' /\ Buf!Promise!Ingest({e})
<1> DEFINE p == Buf!Push(buffer, <<e>>)
<1>1. /\ e \notin ids /\ buffer' = Buf!Cut(p, maxSize)
      /\ ids' = (ids \ (Buf!ToSet(buffer) \ Buf!ToSet(buffer'))) \cup {e}
      /\ pausedCount' = IF paused THEN pausedCount + 1 ELSE pausedCount
      /\ Buf!Publish(buffer') /\ UNCHANGED <<maxSize, paused>>
  BY DEF Buf!AddLive, Buf!TrackIds
<1>2. /\ <<e>> \in Seq(Entry) /\ Len(<<e>>) = 1 /\ Buf!ToSet(<<e>>) = {e} /\ Buf!IsInjective(<<e>>)
  <2>1. <<e>> \in Seq(Entry) /\ Len(<<e>>) = 1 /\ \A i \in 1 .. 1 : <<e>>[i] = e
    OBVIOUS
  <2> QED BY <2>1, OneIs
<1>3. Chronicle(p) /\ Buf!ToSet(p) = Buf!ToSet(buffer) \cup {e}
  <2>1. Timed /\ Chronicle(buffer) /\ Buf!ToSet(buffer) \cap {e} = {}
    BY <1>1, BufIs
  <2> QED BY <1>2, <2>1, PushIs
<1> HIDE DEF p
<1>4. /\ Chronicle(buffer') /\ Len(buffer') <= maxSize
      /\ Buf!ToSet(buffer') \in Buf!Promise!NewestOf(Buf!ToSet(buffer) \cup {e}, maxSize)
  BY <1>1, <1>3, BufIs, CutIs
<1>5. Buf!ToSet(buffer') \in SUBSET (Buf!ToSet(buffer) \cup {e})
  BY <1>4 DEF Buf!Promise!NewestOf
<1>6. ids' \in SUBSET Entry /\ Buf!ToSet(buffer') \in SUBSET ids'
  BY <1>1, <1>5, BufIs
<1>7. pausedCount' \in 0 .. Buf!MaxPausedCount
  BY <1>1, BufIs DEF Buf!Bounded
<1>8. shown' \in Seq(Entry) /\ (~paused' => shown' = Buf!Reverse(buffer'))
  BY <1>1, <1>4, PublishIs DEF Chronicle
<1>9. maxSize' \in MaxSizes /\ Len(buffer') <= maxSize' /\ paused' \in BOOLEAN
  BY <1>1, <1>4, BufIs
<1>10. BufInv'
  BY <1>4, <1>6, <1>7, <1>8, <1>9, BufKeeps
<1>11. Buf!Promise!Ingest({e})
  BY <1>1, <1>4 DEF Buf!Promise!Ingest
<1> QED BY <1>10, <1>11

(* A history chunk: what is new of it is buffered as far as there is room. *)
LEMMA MergeKeeps ==
  ASSUME BufInv, NEW rows \in Buf!Chunks, Buf!Merge(rows)
  PROVE  BufInv' /\ \E S \in SUBSET Entry : Buf!Promise!Ingest(S)
<1> DEFINE P == {i \in DOMAIN rows : rows[i] \notin Buf!ToSet(buffer)}
           S == {rows[i] : i \in P}
           new == Buf!Sorted(rows, P)
           p == Buf!Push(buffer, new)
<1>1. /\ buffer' = Buf!Cut(p, maxSize)
      /\ ids' = (ids \cup S) \ (Buf!ToSet(p) \ Buf!ToSet(buffer'))
      /\ IF P = {} THEN UNCHANGED shown ELSE Buf!Publish(buffer')
      /\ UNCHANGED <<maxSize, paused, pausedCount>>
  BY DEF Buf!Merge
<1>2. PICK n \in Nat : DOMAIN rows = 1 .. n /\ \A i \in 1 .. n : rows[i] \in Entry
  <2>1. PICK n \in 0 .. MaxMerge : rows \in [1 .. n -> Entry]
    BY DEF Buf!Chunks
  <2>2. n \in Nat
    BY <2>1 DEF BufInv, Buf!Sized
  <2> QED BY <2>1, <2>2
<1>3. \A i, j \in P : rows[i] = rows[j] => i = j
  BY DEF Buf!Chunks, Buf!IsInjective
<1>4. P \in SUBSET Nat /\ IsFiniteSet(P) /\ \A i \in P : rows[i] \in Entry
  <2>1. P \in SUBSET (1 .. n)
    BY <1>2
  <2>2. IsFiniteSet(1 .. n)
    BY FirstNaturals
  <2> HIDE DEF P
  <2>3. IsFiniteSet(P)
    BY <2>1, <2>2, FS_Subset
  <2> QED BY <1>2, <2>1, <2>3
<1>5. /\ new \in Seq(Entry) /\ Cardinality(P) \in Nat /\ Len(new) = Cardinality(P)
      /\ \A k \in 1 .. Len(new) : \E i \in P : new[k] = rows[i]
      /\ \A i \in P : \E k \in 1 .. Len(new) : new[k] = rows[i]
      /\ \A k, l \in 1 .. Len(new) : new[k] = new[l] => k = l
  <2>1. Timed
    BY BufIs
  <2> HIDE DEF P
  <2> QED BY <1>3, <1>4, <2>1, SortedIs
<1>6. S \in SUBSET Entry /\ S \cap Buf!ToSet(buffer) = {}
  BY <1>4
<1>7. P = {} => new = <<>>
  <2> HIDE DEF P
  <2>1. P = {} => Cardinality(P) = 0
    BY FS_EmptySet
  <2> HIDE DEF new
  <2> QED BY <1>5, <2>1, EmptySeq
<1> HIDE DEF new
<1>8. Buf!ToSet(new) = S /\ Buf!IsInjective(new)
  <2>1. \A e : e \in Buf!ToSet(new) <=> \E k \in 1 .. Len(new) : e = new[k]
    BY <1>5, SetOf
  <2>2. \A e : e \in S <=> \E i \in P : e = rows[i]
    OBVIOUS
  <2> HIDE DEF P, S
  <2>3. \A e : e \in Buf!ToSet(new) <=> e \in S
    BY <1>5, <2>1, <2>2
  <2> QED BY <1>5, <2>3, SetOf
<1> HIDE DEF P, S
<1>9. Chronicle(p) /\ Buf!ToSet(p) = Buf!ToSet(buffer) \cup S
  BY <1>5, <1>6, <1>8, BufIs, PushIs
<1>10. P = {} => p = buffer
  BY <1>7 DEF Buf!Push
<1> HIDE DEF p
<1>11. /\ Chronicle(buffer') /\ Len(buffer') <= maxSize
       /\ Buf!ToSet(buffer') \in Buf!Promise!NewestOf(Buf!ToSet(buffer) \cup S, maxSize)
  BY <1>1, <1>9, BufIs, CutIs
<1>12. P = {} => buffer' = buffer
  BY <1>1, <1>10, BufIs, CutIs
<1>13. Buf!ToSet(buffer') \in SUBSET (Buf!ToSet(buffer) \cup S)
  BY <1>11 DEF Buf!Promise!NewestOf
<1>14. ids' \in SUBSET Entry /\ Buf!ToSet(buffer') \in SUBSET ids'
  BY <1>1, <1>6, <1>9, <1>13, BufIs
<1>15. shown' \in Seq(Entry) /\ (~paused' => shown' = Buf!Reverse(buffer'))
  <2>1. CASE P = {}
    BY <1>1, <1>12, <2>1, BufIs
  <2>2. CASE P # {}
    BY <1>1, <1>11, <2>2, PublishIs DEF Chronicle
  <2> QED BY <2>1, <2>2
<1>16. BufInv'
  <2>1. /\ maxSize' \in MaxSizes /\ Len(buffer') <= maxSize' /\ paused' \in BOOLEAN
        /\ pausedCount' \in 0 .. Buf!MaxPausedCount
    BY <1>1, <1>11, BufIs
  <2> QED BY <1>11, <1>14, <1>15, <2>1, BufKeeps
<1>17. Buf!Promise!Ingest(S)
  BY <1>1, <1>11 DEF Buf!Promise!Ingest
<1> QED BY <1>6, <1>16, <1>17

(* Another capacity. *)
LEMMA SetMaxSizeKeeps ==
  ASSUME BufInv, NEW size \in MaxSizes, Buf!SetMaxSize(size)
  PROVE  BufInv' /\ Buf!Promise!Resize(size)
<1>1. /\ maxSize' = size /\ buffer' = Buf!Cut(buffer, size)
      /\ ids' = (ids \ (Buf!ToSet(buffer) \ Buf!ToSet(buffer'))) \cup {}
      /\ IF Len(buffer) > size THEN Buf!Publish(buffer') ELSE UNCHANGED shown
      /\ UNCHANGED <<paused, pausedCount>>
  BY DEF Buf!SetMaxSize, Buf!TrackIds
<1>2. size \in Nat /\ Len(buffer) \in Nat
  BY BufIs, LenProperties DEF Chronicle
<1>3. /\ Chronicle(buffer') /\ Len(buffer') <= size /\ (Len(buffer) <= size => buffer' = buffer)
      /\ Buf!ToSet(buffer') \in Buf!Promise!NewestOf(Buf!ToSet(buffer), size)
  BY <1>1, <1>2, BufIs, CutIs
<1>4. Buf!ToSet(buffer') \in SUBSET Buf!ToSet(buffer)
  BY <1>3 DEF Buf!Promise!NewestOf
<1>5. ids' \in SUBSET Entry /\ Buf!ToSet(buffer') \in SUBSET ids'
  BY <1>1, <1>4, BufIs
<1>6. shown' \in Seq(Entry) /\ (~paused' => shown' = Buf!Reverse(buffer'))
  <2>1. CASE Len(buffer) > size
    BY <1>1, <1>3, <2>1, PublishIs DEF Chronicle
  <2>2. CASE ~(Len(buffer) > size)
    <3>1. buffer' = buffer /\ UNCHANGED <<shown, paused>>
      BY <1>1, <1>2, <1>3, <2>2
    <3> QED BY <3>1, BufIs
  <2> QED BY <2>1, <2>2
<1>7. BufInv'
  <2>1. /\ maxSize' \in MaxSizes /\ Len(buffer') <= maxSize' /\ paused' \in BOOLEAN
        /\ pausedCount' \in 0 .. Buf!MaxPausedCount
    BY <1>1, <1>3, BufIs
  <2> QED BY <1>3, <1>5, <1>6, <2>1, BufKeeps
<1>8. Buf!Promise!Resize(size)
  BY <1>1, <1>3 DEF Buf!Promise!Resize
<1> QED BY <1>7, <1>8

(* Pausing and resuming. *)
LEMMA SetPausedKeeps ==
  ASSUME BufInv, NEW b \in BOOLEAN, Buf!SetPaused(b)
  PROVE  BufInv' /\ UNCHANGED <<buffer, maxSize>>
<1>1. /\ paused' = b /\ pausedCount' = 0 /\ shown' = (IF b THEN shown ELSE Buf!Reverse(buffer))
      /\ UNCHANGED <<buffer, maxSize, ids>>
  BY DEF Buf!SetPaused
<1>2. Buf!Reverse(buffer) \in Seq(Entry)
  BY BufIs, ReverseIs DEF Chronicle
<1>3. /\ Chronicle(buffer') /\ maxSize' \in MaxSizes /\ Len(buffer') <= maxSize'
      /\ ids' \in SUBSET Entry /\ Buf!ToSet(buffer') \in SUBSET ids'
      /\ shown' \in Seq(Entry) /\ paused' \in BOOLEAN /\ (~paused' => shown' = Buf!Reverse(buffer'))
      /\ pausedCount' \in 0 .. Buf!MaxPausedCount
  BY <1>1, <1>2, BufIs
<1> QED BY <1>1, <1>3, BufKeeps

(* The buffer is emptied. *)
LEMMA ClearKeeps ==
  ASSUME BufInv, Buf!Clear
  PROVE  BufInv' /\ Buf!Promise!Wipe
<1>1. /\ buffer' = <<>> /\ shown' = <<>> /\ ids' \in SUBSET ids
      /\ UNCHANGED <<maxSize, paused, pausedCount>>
  BY DEF Buf!Clear, Buf!TrackIds
<1>2. buffer' \in Seq(Entry) /\ Len(buffer') = 0 /\ shown' \in Seq(Entry)
  BY <1>1, EmptySeq
<1>3. Buf!ToSet(buffer') = {} /\ Chronicle(buffer') /\ Buf!Reverse(buffer') = <<>>
  BY <1>2, NothingIs
<1>5. /\ maxSize' \in MaxSizes /\ Len(buffer') <= maxSize' /\ ids' \in SUBSET Entry /\ paused' \in BOOLEAN
      /\ pausedCount' \in 0 .. Buf!MaxPausedCount
  BY <1>1, <1>2, BufIs
<1>6. BufInv'
  BY <1>1, <1>2, <1>3, <1>5, BufKeeps
<1>7. Buf!Promise!Wipe
  BY <1>1, <1>3 DEF Buf!Promise!Wipe
<1> QED BY <1>6, <1>7

(* One step of the buffer is one of the set it implements, or none. *)
LEMMA BufStep ==
  BufInv /\ [Buf!Next]_(Buf!vars)
    => BufInv' /\ [Buf!Promise!Next]_(<<Buf!ToSet(buffer), maxSize>>)
<1> SUFFICES ASSUME BufInv, [Buf!Next]_(Buf!vars)
             PROVE  BufInv' /\ (Buf!Promise!Next \/ UNCHANGED <<Buf!ToSet(buffer), maxSize>>)
  OBVIOUS
<1>1. ASSUME NEW e \in Entry, Buf!Bounded, Buf!AddLive(e) PROVE BufInv' /\ Buf!Promise!Next
  BY <1>1, AddLiveKeeps DEF Buf!Promise!Next
<1>2. ASSUME NEW rows \in Buf!Chunks, Buf!Merge(rows) PROVE BufInv' /\ Buf!Promise!Next
  BY <1>2, MergeKeeps DEF Buf!Promise!Next
<1>3. ASSUME NEW size \in MaxSizes, Buf!SetMaxSize(size) PROVE BufInv' /\ Buf!Promise!Next
  BY <1>3, SetMaxSizeKeeps DEF Buf!Promise!Next
<1>4. ASSUME NEW b \in BOOLEAN, Buf!SetPaused(b) PROVE BufInv' /\ UNCHANGED <<Buf!ToSet(buffer), maxSize>>
  BY <1>4, SetPausedKeeps DEF Buf!ToSet
<1>5. CASE Buf!Clear
  BY <1>5, ClearKeeps DEF Buf!Promise!Next
<1>6. CASE UNCHANGED Buf!vars
  <2>1. UNCHANGED <<buffer, maxSize, ids, shown, paused, pausedCount>>
    BY <1>6 DEF Buf!vars
  <2>2. BufInv'
    BY <2>1, BufIs, BufKeeps
  <2> QED BY <2>1, <2>2 DEF Buf!ToSet
<1> QED BY <1>1, <1>2, <1>3, <1>4, <1>5, <1>6 DEF Buf!Next

(* The buffer is bounded, in time order although the fast path never sorts,
   known to the live path and, unless frozen, what is on screen
   (telegram-buffer-service.ts, useTelegramCache.ts). *)
THEOREM BufferStaysTrue == Buf!Sized /\ Buf!Spec => []Buf!BufferIsTrue
<1>1. BufInv => Buf!BufferIsTrue
  BY DEF BufInv
<1> QED BY <1>1, BufInit, BufStep, PTL DEF Buf!Spec

(* The sorted array implements the set that the telegram cache is modelled
   with: whatever is added in whatever order, it gives up oldest telegrams only
   (telegram-buffer-service.ts). *)
THEOREM BufferKeepsPromise == Buf!Sized /\ Buf!Spec => Buf!ImplementsBufferPromise
BY BufInit, BufStep, PTL DEF Buf!Spec, Buf!ImplementsBufferPromise, Buf!Promise!Spec

(* A paused screen does not move under the reader, but for a clear
   (useTelegramCache.ts). *)
THEOREM PausedScreenRests == Buf!Spec => Buf!PauseFreezes
<1>1. [Buf!Next]_(Buf!vars) => [paused /\ paused' => shown' \in {shown, <<>>}]_(Buf!vars)
  BY DEF Buf!Next, Buf!vars, Buf!AddLive, Buf!Merge, Buf!SetMaxSize, Buf!SetPaused, Buf!Clear, Buf!Publish
<1> QED BY <1>1, PTL DEF Buf!Spec, Buf!PauseFreezes
-----------------------------------------------------------------------------
(* The list of what was last seen, for any addresses and any number of
   telegrams. *)
CONSTANTS GA, Limit, Envs
VARIABLES seenEnv, seenBus, close, wire, latest, stale, sel, seenValues, seenList, pending, live,
          resend, fetches

Ls == INSTANCE LastSeen WITH env <- seenEnv, bus <- seenBus, values <- seenValues, list <- seenList

(* The module counts as the library does. *)
LEMMA SeenCountsAlike == \A S : Ls!Cardinality(S) = Cardinality(S)
BY Zenon DEF Cardinality, Ls!Cardinality

(* A member that none exceeds is what Max chooses. *)
LEMMA GreatestIs ==
  ASSUME NEW S \in SUBSET Nat, NEW m \in S, \A x \in S : x <= m
  PROVE  Ls!Max(S) = m
<1>1. \A x \in S : (\A y \in S : x >= y) => x = m
  <2> SUFFICES ASSUME NEW x \in S, \A y \in S : x >= y PROVE x = m
    OBVIOUS
  <2>1. x >= m /\ x <= m /\ x \in Nat /\ m \in Nat
    OBVIOUS
  <2> QED BY <2>1
<1>2. \A y \in S : m >= y
  OBVIOUS
<1> QED BY <1>1, <1>2 DEF Ls!Max

(* What LastSeen says of its bus, of any bus b: those of the first n telegrams
   that are on S, the newest of them, and their list. *)
Among(b, n, S) == {t \in 1 .. n : b[t] \in S}
Newest(b, n, S) == Ls!Max({0} \cup Among(b, n, S))
ListOf(b, n, S) == Ls!Listed(Among(b, n, S))

(* They are those of LastSeen. *)
LEMMA OfTheBus ==
  \A n, S : /\ Ls!Among(n, S) = Among(seenBus, n, S)
            /\ Ls!Newest(n, S) = Newest(seenBus, n, S)
            /\ Ls!NewestOf(n, S) = ListOf(seenBus, n, S)
BY DEF Ls!Among, Ls!Newest, Ls!NewestOf, Among, Newest, ListOf

(* Those among the first n are finitely many, and one more telegram adds itself. *)
LEMMA AmongIs ==
  ASSUME NEW b, NEW n \in Nat, NEW S
  PROVE  /\ Among(b, n, S) \in SUBSET (1 .. n) /\ Among(b, n, S) \in SUBSET Nat
         /\ IsFiniteSet(Among(b, n, S)) /\ Cardinality(Among(b, n, S)) \in Nat
         /\ Among(b, 0, S) = {}
         /\ b[n + 1] \in S => Among(b, n + 1, S) = Among(b, n, S) \cup {n + 1}
         /\ b[n + 1] \notin S => Among(b, n + 1, S) = Among(b, n, S)
<1>1. Among(b, n, S) \in SUBSET (1 .. n) /\ Among(b, n, S) \in SUBSET Nat
  BY DEF Among
<1>2. IsFiniteSet(Among(b, n, S)) /\ Cardinality(Among(b, n, S)) \in Nat
  <2>1. IsFiniteSet(1 .. n)
    BY FirstNaturals
  <2>2. IsFiniteSet(Among(b, n, S))
    BY <1>1, <2>1, FS_Subset
  <2> QED BY <2>2, FS_CardinalityType
<1>3. Among(b, 0, S) = {}
  BY DEF Among
<1>4. /\ b[n + 1] \in S => Among(b, n + 1, S) = Among(b, n, S) \cup {n + 1}
      /\ b[n + 1] \notin S => Among(b, n + 1, S) = Among(b, n, S)
  <2>1. \A t : t \in 1 .. n + 1 <=> t \in 1 .. n \/ t = n + 1
    OBVIOUS
  <2> QED BY <2>1 DEF Among
<1> QED BY <1>1, <1>2, <1>3, <1>4

(* Another telegram on the bus changes nothing of those before it. *)
LEMMA BusGrows ==
  ASSUME NEW b \in Seq(GA), NEW g \in GA, NEW n \in 0 .. Len(b), NEW S
  PROVE  /\ Among(Append(b, g), n, S) = Among(b, n, S)
         /\ Newest(Append(b, g), n, S) = Newest(b, n, S)
         /\ ListOf(Append(b, g), n, S) = ListOf(b, n, S)
<1>1. \A t \in 1 .. n : Append(b, g)[t] = b[t]
  BY AppendProperties, LenProperties
<1>2. Among(Append(b, g), n, S) = Among(b, n, S)
  BY <1>1 DEF Among
<1> QED BY <1>2 DEF Newest, ListOf

(* The newest of them, when another telegram comes. *)
LEMMA NewestStep ==
  ASSUME NEW b, NEW n \in Nat, NEW S
  PROVE  /\ Newest(b, 0, S) = 0
         /\ b[n + 1] \in S => Newest(b, n + 1, S) = n + 1
         /\ b[n + 1] \notin S => Newest(b, n + 1, S) = Newest(b, n, S)
<1>1. Newest(b, 0, S) = 0
  <2>1. Newest(b, 0, S) = Ls!Max({0})
    BY AmongIs DEF Newest
  <2> QED BY <2>1, GreatestIs
<1>2. CASE b[n + 1] \in S
  <2> DEFINE T == {0} \cup Among(b, n + 1, S)
  <2>1. T \in SUBSET Nat /\ n + 1 \in T /\ \A x \in T : x <= n + 1
    <3>1. Among(b, n, S) \in SUBSET (1 .. n)
      BY AmongIs
    <3>2. Among(b, n + 1, S) = Among(b, n, S) \cup {n + 1}
      BY <1>2, AmongIs
    <3> QED BY <3>1, <3>2
  <2> HIDE DEF T
  <2>2. Ls!Max(T) = n + 1
    BY <2>1, GreatestIs
  <2> QED BY <1>1, <1>2, <2>2 DEF T, Newest
<1>3. CASE b[n + 1] \notin S
  <2>1. Among(b, n + 1, S) = Among(b, n, S)
    BY <1>3, AmongIs
  <2> QED BY <1>1, <1>3, <2>1 DEF Newest
<1> QED BY <1>1, <1>2, <1>3

(* The newest is one of them, or none. *)
LEMMA NewestType ==
  ASSUME NEW b, NEW n \in Nat, NEW S
  PROVE  Newest(b, n, S) \in 0 .. n
<1> DEFINE T == {k \in Nat : Newest(b, k, S) \in 0 .. k}
<1>1. 0 \in T
  BY NewestStep
<1>2. ASSUME NEW k \in 0 .. n - 1, k \in T PROVE k + 1 \in T
  <2>1. k \in Nat /\ Newest(b, k, S) \in 0 .. k
    BY <1>2
  <2>2. Newest(b, k + 1, S) = k + 1 \/ Newest(b, k + 1, S) = Newest(b, k, S)
    BY <2>1, NewestStep
  <2> QED BY <2>1, <2>2
<1> HIDE DEF T
<1>3. n \in T
  BY <1>1, <1>2, Rounds
<1> QED BY <1>3 DEF T
-----------------------------------------------------------------------------
(* A list from new to old; how many of a set are newer than t. *)
Falling(l) == \A i, k \in 1 .. Len(l) : i < k => l[i] > l[k]
Newer(all, t) == Cardinality({u \in all : u > t})
Least(a, b) == IF a < b THEN a ELSE b

(* The numbers of newer ones are the first naturals, fewer for a newer one. *)
LEMMA NewerIs ==
  ASSUME NEW all \in SUBSET Nat, IsFiniteSet(all)
  PROVE  /\ Cardinality(all) \in Nat
         /\ \A t \in all : Newer(all, t) \in 0 .. Cardinality(all) - 1
         /\ \A t, u \in all : t > u => Newer(all, t) < Newer(all, u)
         /\ \A k \in 0 .. Cardinality(all) - 1 : \E t \in all : Newer(all, t) = k
<1> DEFINE R == {w \in all \X all : w[1] > w[2]}
<1>1. \A u, v \in all : <<u, v>> \in R <=> u > v
  OBVIOUS
<1> HIDE DEF R
<1>2. /\ \A t \in all : <<t, t>> \notin R
      /\ \A t, u, v \in all : <<t, u>> \in R /\ <<u, v>> \in R => <<t, v>> \in R
      /\ \A t, u \in all : t = u \/ <<t, u>> \in R \/ <<u, t>> \in R
  BY <1>1
<1>3. \A t \in all : Newer(all, t) = Rank(all, R, t)
  <2>1. \A t \in all : {u \in all : u > t} = {u \in all : <<u, t>> \in R}
    BY <1>1
  <2> QED BY <2>1 DEF Rank, Newer
<1>4. /\ Cardinality(all) \in Nat
      /\ \A t \in all : Rank(all, R, t) \in 0 .. Cardinality(all) - 1
      /\ \A t, u \in all : <<t, u>> \in R => Rank(all, R, t) < Rank(all, R, u)
      /\ \A k \in 0 .. Cardinality(all) - 1 : \E t \in all : Rank(all, R, t) = k
  BY <1>2, Ranking
<1>5. \A t \in all : Newer(all, t) \in 0 .. Cardinality(all) - 1
  BY <1>3, <1>4
<1>6. ASSUME NEW t \in all, NEW u \in all, t > u
      PROVE  Newer(all, t) < Newer(all, u)
  <2>1. Rank(all, R, t) < Rank(all, R, u)
    BY <1>1, <1>4, <1>6
  <2> QED BY <1>3, <2>1
<1>7. ASSUME NEW k \in 0 .. Cardinality(all) - 1
      PROVE  \E t \in all : Newer(all, t) = k
  BY <1>3, <1>4
<1> QED BY <1>4, <1>5, <1>6, <1>7

(* The newest of a set, newest first, as many as the list has room for. *)
LEMMA ListedIs ==
  ASSUME Limit \in Nat, NEW all \in SUBSET Nat, IsFiniteSet(all)
  PROVE  LET l == Ls!Listed(all)
             n == Cardinality(all)
         IN  /\ l \in Seq(all) /\ n \in Nat /\ Len(l) = Least(n, Limit) /\ Falling(l)
             /\ \A k \in 1 .. Len(l), t \in all : Newer(all, t) = k - 1 <=> t = l[k]
             /\ \A t \in all : Limit # 0 => Len(l) # 0 /\ t <= l[1]
<1> DEFINE n == Cardinality(all)
           m == Least(n, Limit)
           at(k) == CHOOSE t \in all : Ls!Cardinality({u \in all : u > t}) = k - 1
           l == [k \in 1 .. m |-> at(k)]
<1>1. /\ n \in Nat
      /\ \A t \in all : Newer(all, t) \in 0 .. n - 1
      /\ \A t, u \in all : t > u => Newer(all, t) < Newer(all, u)
      /\ \A k \in 0 .. n - 1 : \E t \in all : Newer(all, t) = k
  BY NewerIs
<1> HIDE DEF n
<1>2. Ls!Listed(all) = l
  BY SeenCountsAlike DEF Ls!Listed, Least, n
<1>3. m \in Nat /\ m <= n /\ m <= Limit /\ (m = n \/ m = Limit)
  BY <1>1 DEF Least
<1>4. ASSUME NEW k \in 1 .. m
      PROVE  at(k) \in all /\ Newer(all, at(k)) = k - 1
  <2>1. k - 1 \in 0 .. n - 1
    BY <1>1, <1>3
  <2>2. \E t \in all : Newer(all, t) = k - 1
    BY <1>1, <2>1
  <2>3. \A t : Ls!Cardinality({u \in all : u > t}) = Newer(all, t)
    BY SeenCountsAlike DEF Newer
  <2> QED BY <2>2, <2>3
<1> HIDE DEF at, m
<1>5. l \in Seq(all) /\ Len(l) = m /\ \A k \in 1 .. m : l[k] \in all /\ Newer(all, l[k]) = k - 1
  BY <1>3, <1>4
<1> HIDE DEF l
<1>6. ASSUME NEW t \in all, NEW u \in all, Newer(all, t) = Newer(all, u)
      PROVE  t = u
  BY <1>1, <1>6
<1>7. \A k \in 1 .. m, t \in all : Newer(all, t) = k - 1 <=> t = l[k]
  BY <1>5, <1>6
<1>8. Falling(l)
  <2> SUFFICES ASSUME NEW i \in 1 .. m, NEW k \in 1 .. m, i < k PROVE l[i] > l[k]
    BY <1>5 DEF Falling
  <2>1. /\ l[i] \in all /\ l[k] \in all /\ Newer(all, l[i]) = i - 1 /\ Newer(all, l[k]) = k - 1
    BY <1>5
  <2>2. l[i] \in Nat /\ l[k] \in Nat
    BY <2>1
  <2>3. i - 1 < k - 1 /\ ~(k - 1 < i - 1) /\ i - 1 # k - 1
    BY <1>3
  <2>4. ~(l[k] > l[i]) /\ l[k] # l[i]
    BY <1>1, <2>1, <2>3
  <2> QED BY <2>2, <2>4
<1>9. ASSUME NEW t \in all, Limit # 0
      PROVE  m # 0 /\ t <= l[1]
  <2>1. n # 0
    BY <1>1
  <2>2. m # 0 /\ 1 \in 1 .. m
    BY <1>3, <1>9, <2>1
  <2>3. l[1] \in all /\ Newer(all, l[1]) = 0
    BY <1>5, <2>2
  <2>4. PICK u \in all : u = l[1] /\ Newer(all, u) = 0
    BY <2>3
  <2>5. ~(t > u)
    BY <1>1, <2>4
  <2> QED BY <2>2, <2>4, <2>5
<1>10. /\ l \in Seq(all) /\ n \in Nat /\ Len(l) = m /\ Falling(l)
       /\ \A k \in 1 .. Len(l), t \in all : Newer(all, t) = k - 1 <=> t = l[k]
       /\ \A t \in all : Limit # 0 => Len(l) # 0 /\ t <= l[1]
  BY <1>1, <1>5, <1>7, <1>8, <1>9
<1> QED BY <1>2, <1>10 DEF m, n

(* What the overlay makes of a list when t comes. *)
Prepended(l, t) == SubSeq(<<t>> \o l, 1, IF Len(l) < Limit THEN Len(l) + 1 ELSE Limit)

(* It comes first, and the others move one place down. *)
LEMMA PrependedIs ==
  ASSUME Limit \in Nat \ {0}, NEW A \in SUBSET Nat, NEW l \in Seq(A), Len(l) <= Limit, NEW t \in Nat
  PROVE  LET p == Prepended(l, t)
         IN  /\ p \in Seq(A \cup {t}) /\ Len(p) = Least(Len(l) + 1, Limit)
             /\ p[1] = t /\ \A k \in 2 .. Len(p) : k - 1 \in 1 .. Len(l) /\ p[k] = l[k - 1]
<1> DEFINE q == <<t>> \o l
           m == IF Len(l) < Limit THEN Len(l) + 1 ELSE Limit
           B == A \cup {t}
<1>1. Len(l) \in Nat /\ \A k \in 1 .. Len(l) : l[k] \in A
  BY ElementOfSeq, LenProperties
<1>2. /\ l \in Seq(B) /\ <<t>> \in Seq(B) /\ Len(<<t>>) = 1 /\ <<t>>[1] = t
  <2>1. t \in B
    OBVIOUS
  <2>2. l \in Seq(B)
    BY <1>1
  <2> HIDE DEF B
  <2> QED BY <2>1, <2>2
<1> HIDE DEF B
<1>3. q \in Seq(B) /\ Len(q) = Len(l) + 1 /\ q[1] = t /\ \A k \in 2 .. Len(l) + 1 : q[k] = l[k - 1]
  BY <1>1, <1>2, ConcatProperties
<1> HIDE DEF q
<1>4. m \in 1 .. Len(q) /\ m = Least(Len(l) + 1, Limit)
  BY <1>1, <1>3 DEF Least
<1> HIDE DEF m
<1>5. SubSeq(q, 1, m) \in Seq(B) /\ Len(SubSeq(q, 1, m)) = m /\ \A k \in 1 .. m : SubSeq(q, 1, m)[k] = q[k]
  BY <1>3, <1>4, SubSeqProperties
<1>6. Prepended(l, t) = SubSeq(q, 1, m)
  BY DEF Prepended, q, m
<1>7. 1 \in 1 .. m /\ \A k \in 2 .. m : k \in 1 .. m /\ k \in 2 .. Len(l) + 1 /\ k - 1 \in 1 .. Len(l)
  BY <1>1, <1>3, <1>4
<1> QED BY <1>3, <1>4, <1>5, <1>6, <1>7 DEF B

(* With a newer telegram, the list is the one before, with that in front. *)
LEMMA ListedStep ==
  ASSUME Limit \in Nat \ {0}, NEW all \in SUBSET Nat, IsFiniteSet(all), NEW t \in Nat, \A u \in all : u < t
  PROVE  Ls!Listed(all \cup {t}) = Prepended(Ls!Listed(all), t)
<1> DEFINE l == Ls!Listed(all)
           more == all \cup {t}
           l2 == Ls!Listed(more)
           p == Prepended(l, t)
<1>1. t \notin all /\ more \in SUBSET Nat
  OBVIOUS
<1>2. IsFiniteSet(more) /\ Cardinality(more) = Cardinality(all) + 1
  BY <1>1, FS_AddElement
<1>3. Newer(more, t) = 0
  <2>1. \A u \in more : ~(u > t)
    OBVIOUS
  <2>2. {u \in more : u > t} = {}
    BY <2>1
  <2> HIDE DEF more
  <2> QED BY <2>2, FS_EmptySet DEF Newer
<1>4. ASSUME NEW u \in all PROVE Newer(more, u) = Newer(all, u) + 1
  <2> DEFINE S == {v \in all : v > u}
  <2>1. {v \in more : v > u} = S \cup {t} /\ t \notin S /\ S \in SUBSET all
    OBVIOUS
  <2> HIDE DEF S, more
  <2>2. IsFiniteSet(S)
    BY <2>1, FS_Subset
  <2>3. Cardinality(S \cup {t}) = Cardinality(S) + 1
    BY <2>1, <2>2, FS_AddElement
  <2> QED BY <2>1, <2>3 DEF Newer, S
<1>5. /\ l \in Seq(all) /\ Cardinality(all) \in Nat /\ Len(l) = Least(Cardinality(all), Limit)
      /\ \A k \in 1 .. Len(l), u \in all : Newer(all, u) = k - 1 <=> u = l[k]
  BY ListedIs
<1>6. /\ l2 \in Seq(more) /\ Len(l2) = Least(Cardinality(all) + 1, Limit)
      /\ \A k \in 1 .. Len(l2), u \in more : Newer(more, u) = k - 1 <=> u = l2[k]
  <2> HIDE DEF more
  <2> QED BY <1>1, <1>2, ListedIs
<1>7. t \in more /\ \A u \in all : u \in more
  OBVIOUS
<1> HIDE DEF l, l2, more
<1>8. Len(l) <= Limit /\ Len(l) \in Nat /\ \A k \in 1 .. Len(l) : l[k] \in all
  BY <1>5, ElementOfSeq, LenProperties DEF Least
<1>9. /\ p \in Seq(all \cup {t}) /\ Len(p) = Least(Len(l) + 1, Limit)
      /\ p[1] = t /\ \A k \in 2 .. Len(p) : k - 1 \in 1 .. Len(l) /\ p[k] = l[k - 1]
  <2>1. l \in Seq(all) /\ Len(l) <= Limit /\ Limit \in Nat \ {0} /\ all \in SUBSET Nat /\ t \in Nat
    BY <1>5, <1>8
  <2> HIDE DEF p
  <2>2. /\ Prepended(l, t) \in Seq(all \cup {t}) /\ Len(Prepended(l, t)) = Least(Len(l) + 1, Limit)
        /\ Prepended(l, t)[1] = t
        /\ \A k \in 2 .. Len(Prepended(l, t)) : k - 1 \in 1 .. Len(l) /\ Prepended(l, t)[k] = l[k - 1]
    BY <2>1, PrependedIs
  <2> QED BY <2>2 DEF p
<1> HIDE DEF p
<1>10. Len(p) = Len(l2) /\ Len(p) \in Nat
  BY <1>5, <1>6, <1>9 DEF Least
<1>11. ASSUME NEW k \in 1 .. Len(l2) PROVE l2[k] = p[k]
  <2>1. CASE k = 1
    <3>1. Newer(more, t) = k - 1
      BY <1>3, <2>1
    <3> QED BY <1>6, <1>7, <1>9, <2>1, <3>1
  <2>2. CASE k # 1
    <3>1. k \in 2 .. Len(p) /\ k \in Nat
      BY <1>10, <2>2
    <3>2. k - 1 \in 1 .. Len(l) /\ p[k] = l[k - 1]
      BY <1>9, <3>1
    <3>3. p[k] \in all /\ Newer(all, p[k]) = (k - 1) - 1
      BY <1>5, <1>8, <3>2
    <3>4. PICK u \in all : u = p[k] /\ Newer(all, u) = (k - 1) - 1
      BY <3>3
    <3>5. Newer(more, u) = ((k - 1) - 1) + 1
      BY <1>4, <3>4
    <3>6. Newer(more, u) = k - 1 /\ u \in more
      BY <1>7, <3>1, <3>5
    <3> QED BY <1>6, <3>4, <3>6
  <2> QED BY <2>1, <2>2
<1>12. l2 = p
  BY <1>6, <1>9, <1>10, <1>11, SeqEqual DEF more
<1> QED BY <1>12 DEF l, l2, p, more

(* The same of the bus. *)
LEMMA ListOfIs ==
  ASSUME Limit \in Nat \ {0}, NEW b, NEW n \in Nat, NEW S
  PROVE  LET l == ListOf(b, n, S)
         IN  /\ l \in Seq(1 .. n) /\ Len(l) \in Nat /\ Len(l) <= Limit /\ Falling(l)
             /\ \A k \in 1 .. Len(l) : l[k] \in Among(b, n, S)
             /\ \A t \in Among(b, n, S) : Len(l) # 0 /\ t <= l[1]
             /\ ListOf(b, n + 1, S) = IF b[n + 1] \in S THEN Prepended(l, n + 1) ELSE l
<1> DEFINE A == Among(b, n, S)
           l == Ls!Listed(A)
<1>1. A \in SUBSET (1 .. n) /\ A \in SUBSET Nat /\ IsFiniteSet(A) /\ Cardinality(A) \in Nat
  BY AmongIs
<1>2. /\ b[n + 1] \in S => Among(b, n + 1, S) = A \cup {n + 1}
      /\ b[n + 1] \notin S => Among(b, n + 1, S) = A
  BY AmongIs
<1> HIDE DEF A
<1>3. l \in Seq(A) /\ Len(l) = Least(Cardinality(A), Limit) /\ Falling(l)
  BY <1>1, ListedIs
<1>4. \A t \in A : Len(l) # 0 /\ t <= l[1]
  BY <1>1, ListedIs
<1>5. b[n + 1] \in S => Ls!Listed(A \cup {n + 1}) = Prepended(l, n + 1)
  <2>1. n + 1 \in Nat /\ \A u \in A : u < n + 1
    BY <1>1
  <2> QED BY <1>1, <2>1, ListedStep
<1>6. ListOf(b, n + 1, S) = IF b[n + 1] \in S THEN Prepended(l, n + 1) ELSE l
  <2>1. CASE b[n + 1] \in S
    BY <1>2, <1>5, <2>1 DEF ListOf
  <2>2. CASE b[n + 1] \notin S
    <3>1. Among(b, n + 1, S) = A
      BY <1>2, <2>2
    <3> QED BY <2>2, <3>1 DEF ListOf
  <2> QED BY <2>1, <2>2
<1> HIDE DEF l
<1>7. Len(l) \in Nat /\ Len(l) <= Limit /\ \A k \in 1 .. Len(l) : l[k] \in A /\ l[k] \in 1 .. n
  <2>1. Len(l) \in Nat /\ \A k \in 1 .. Len(l) : l[k] \in A
    BY <1>3, ElementOfSeq, LenProperties
  <2>2. Len(l) <= Limit
    BY <1>1, <1>3 DEF Least
  <2> QED BY <1>1, <2>1, <2>2
<1>8. l \in Seq(1 .. n)
  BY <1>3, <1>7
<1> QED BY <1>3, <1>4, <1>6, <1>7, <1>8 DEF A, l, ListOf
-----------------------------------------------------------------------------
(* The invariant of what was last seen.  Up to which telegram the page has
   come: a telegram that was not rendered yet does not count. *)
Come == IF stale THEN latest - 1 ELSE latest
Requests == [sel : SUBSET GA, since : Nat]

(* Types, and no telegram is listed twice. *)
SeenTypes ==
  /\ Ls!Sized /\ Ls!TypeOK /\ fetches \in Seq(Requests) /\ (stale => latest # 0)
  /\ \A i, k \in 1 .. Len(seenList) : seenList[i] = seenList[k] => i = k

(* Where the feed misses nothing, what is on the wire comes next. *)
Delivered ==
  "outage" \notin seenEnv.habits =>
    latest = Len(seenBus) - Len(wire) /\ \A i \in 1 .. Len(wire) : wire[i] = latest + i

(* Where answers come in order, the last one awaited is about what is shown. *)
Asked ==
  "race" \notin seenEnv.habits /\ (seenEnv.view = "values" \/ "switch" \notin seenEnv.habits) =>
    /\ fetches # <<>> => fetches[Len(fetches)].sel = sel
    /\ resend \in {{}, sel} /\ (seenEnv.view = "values" => resend = {})

(* Where nothing is overtaken or missed, nothing listed is newer than the latest. *)
Falls ==
  {"race", "outage"} \cap seenEnv.habits = {} =>
    Falling(seenList) /\ \A i \in 1 .. Len(seenList) : seenList[i] <= latest

(* With no answer to come, the values are those of what has come. *)
Valued ==
  seenEnv.habits \subseteq {"close", "switch"} /\ seenEnv.view = "values" /\ fetches = <<>> =>
    \A g \in sel : seenValues[g] = Newest(seenBus, Come, {g})

(* ... and the list is that of the first m telegrams, where those missing since
   are counted; live, none is. *)
Counted(m) ==
  /\ seenList = ListOf(seenBus, m, sel)
  /\ pending = Cardinality(Among(seenBus, Come, sel) \ Among(seenBus, m, sel))
  /\ live => m = Come
Enlisted ==
  seenEnv.habits = {} /\ seenEnv.view = "list" =>
    close = {} /\ (fetches = <<>> => \E m \in 0 .. Come : Counted(m))

SeenInv == SeenTypes /\ Delivered /\ Asked /\ Falls /\ Valued /\ Enlisted

(* What the types say, taken apart. *)
LEMMA SeenFacts ==
  ASSUME SeenTypes
  PROVE  /\ Limit \in Nat \ {0}
         /\ seenBus \in Seq(GA) /\ Len(seenBus) \in Nat /\ \A t \in 1 .. Len(seenBus) : seenBus[t] \in GA
         /\ wire \in Seq(1 .. Len(seenBus)) /\ Len(wire) \in Nat
         /\ \A i \in 1 .. Len(wire) : wire[i] \in 1 .. Len(seenBus)
         /\ latest \in 0 .. Len(seenBus) /\ stale \in BOOLEAN /\ (stale => latest # 0)
         /\ sel \in SUBSET GA /\ sel # {} /\ resend \in SUBSET GA /\ close \in SUBSET (1 .. Len(seenBus))
         /\ seenValues \in [GA -> 0 .. Len(seenBus)]
         /\ seenList \in Seq(1 .. Len(seenBus)) /\ Len(seenList) \in Nat /\ Len(seenList) <= Limit
         /\ \A i \in 1 .. Len(seenList) : seenList[i] \in 1 .. Len(seenBus)
         /\ \A i, k \in 1 .. Len(seenList) : seenList[i] = seenList[k] => i = k
         /\ pending \in Nat /\ live \in BOOLEAN /\ fetches \in Seq(Requests) /\ Len(fetches) \in Nat
<1>1. Ls!Sized /\ Ls!TypeOK /\ fetches \in Seq(Requests) /\ (stale => latest # 0)
      /\ \A i, k \in 1 .. Len(seenList) : seenList[i] = seenList[k] => i = k
  BY DEF SeenTypes
<1>2. seenBus \in Seq(GA)
  BY <1>1 DEF Ls!TypeOK
<1>3. Len(seenBus) \in Nat /\ DOMAIN seenBus = 1 .. Len(seenBus) /\ \A t \in 1 .. Len(seenBus) : seenBus[t] \in GA
  BY <1>2, ElementOfSeq, LenProperties
<1>4. Ls!Telegram = 1 .. Len(seenBus)
  BY <1>3 DEF Ls!Telegram
<1>5. /\ wire \in Seq(1 .. Len(seenBus)) /\ latest \in 0 .. Len(seenBus) /\ stale \in BOOLEAN
      /\ sel \in SUBSET GA /\ sel # {} /\ resend \in SUBSET GA /\ close \in SUBSET (1 .. Len(seenBus))
      /\ seenValues \in [GA -> 0 .. Len(seenBus)]
      /\ seenList \in Seq(1 .. Len(seenBus)) /\ Len(seenList) <= Limit
      /\ pending \in Nat /\ live \in BOOLEAN
  BY <1>1, <1>4 DEF Ls!TypeOK
<1>6. /\ Len(wire) \in Nat /\ \A i \in 1 .. Len(wire) : wire[i] \in 1 .. Len(seenBus)
      /\ Len(seenList) \in Nat /\ \A i \in 1 .. Len(seenList) : seenList[i] \in 1 .. Len(seenBus)
  BY <1>5, ElementOfSeq, LenProperties
<1>7. Len(fetches) \in Nat
  BY <1>1, LenProperties
<1> QED BY <1>1, <1>2, <1>3, <1>5, <1>6, <1>7 DEF Ls!Sized

(* The types after a step. *)
LEMMA TypesKeep ==
  ASSUME SeenTypes, seenBus' \in Seq(GA),
         wire' \in Seq(1 .. Len(seenBus')), latest' \in 0 .. Len(seenBus'), stale' \in BOOLEAN, stale' => latest' # 0,
         sel' \in SUBSET GA, sel' # {}, resend' \in SUBSET GA, close' \in SUBSET (1 .. Len(seenBus')),
         seenValues' \in [GA -> 0 .. Len(seenBus')],
         seenList' \in Seq(1 .. Len(seenBus')), Len(seenList') <= Limit,
         \A i, k \in 1 .. Len(seenList') : seenList'[i] = seenList'[k] => i = k,
         pending' \in Nat, live' \in BOOLEAN, fetches' \in Seq(Requests)
  PROVE  SeenTypes'
<1>1. DOMAIN seenBus' = 1 .. Len(seenBus')
  BY LenProperties
<1>2. Ls!Telegram' = 1 .. Len(seenBus')
  BY <1>1 DEF Ls!Telegram
<1>3. Ls!TypeOK'
  BY <1>2 DEF Ls!TypeOK
<1> QED BY <1>3 DEF SeenTypes, Ls!Sized, Requests

(* Up to where the page has come. *)
LEMMA ComeIs == SeenTypes => Come \in 0 .. latest /\ Come \in 0 .. Len(seenBus) /\ Come \in Nat
BY SeenFacts DEF Come

(* A list of different telegrams up to n gets one more that is not in it. *)
LEMMA PrependKeeps ==
  ASSUME Limit \in Nat \ {0}, NEW n \in Nat, NEW l \in Seq(1 .. n), Len(l) <= Limit,
         \A i, k \in 1 .. Len(l) : l[i] = l[k] => i = k,
         NEW t \in 1 .. n, \A i \in 1 .. Len(l) : l[i] # t
  PROVE  LET p == Prepended(l, t)
         IN  /\ p \in Seq(1 .. n) /\ Len(p) <= Limit
             /\ \A i, k \in 1 .. Len(p) : p[i] = p[k] => i = k
             /\ Falling(l) /\ (\A i \in 1 .. Len(l) : l[i] <= t) =>
                  Falling(p) /\ \A i \in 1 .. Len(p) : p[i] <= t
<1> DEFINE p == Prepended(l, t)
<1>1. Len(l) \in Nat /\ \A i \in 1 .. Len(l) : l[i] \in 1 .. n
  BY ElementOfSeq, LenProperties
<1>2. /\ p \in Seq((1 .. n) \cup {t}) /\ Len(p) = Least(Len(l) + 1, Limit)
      /\ p[1] = t /\ \A k \in 2 .. Len(p) : k - 1 \in 1 .. Len(l) /\ p[k] = l[k - 1]
  <2>1. 1 .. n \in SUBSET Nat /\ t \in Nat
    OBVIOUS
  <2> DEFINE A == 1 .. n
  <2>2. l \in Seq(A) /\ A \in SUBSET Nat
    BY <2>1
  <2> HIDE DEF A, p
  <2>3. /\ Prepended(l, t) \in Seq(A \cup {t}) /\ Len(Prepended(l, t)) = Least(Len(l) + 1, Limit)
        /\ Prepended(l, t)[1] = t
        /\ \A k \in 2 .. Len(Prepended(l, t)) : k - 1 \in 1 .. Len(l) /\ Prepended(l, t)[k] = l[k - 1]
    BY <2>1, <2>2, PrependedIs
  <2> QED BY <2>3 DEF p, A
<1> HIDE DEF p
<1>3. (1 .. n) \cup {t} = 1 .. n
  OBVIOUS
<1>4. p \in Seq(1 .. n) /\ Len(p) <= Limit /\ Len(p) \in Nat
  BY <1>1, <1>2, <1>3, LenProperties DEF Least
<1>5. ASSUME NEW i \in 1 .. Len(p), NEW k \in 1 .. Len(p), i < k
      PROVE  /\ p[i] # p[k]
             /\ Falling(l) /\ (\A j \in 1 .. Len(l) : l[j] <= t) => p[i] > p[k]
  <2>1. k \in 2 .. Len(p) /\ k - 1 \in 1 .. Len(l) /\ p[k] = l[k - 1]
    BY <1>2, <1>4, <1>5
  <2>2. CASE i = 1
    <3>1. p[i] = t /\ l[k - 1] # t /\ l[k - 1] \in 1 .. n
      BY <1>1, <1>2, <2>1, <2>2
    <3> QED BY <2>1, <3>1
  <2>3. CASE i # 1
    <3>0. i \in 2 .. Len(p)
      BY <1>4, <2>3
    <3>1. i \in 2 .. Len(p) /\ i - 1 \in 1 .. Len(l) /\ p[i] = l[i - 1]
      BY <1>2, <3>0
    <3>2. i - 1 < k - 1 /\ i - 1 # k - 1
      BY <1>5
    <3> QED BY <2>1, <3>1, <3>2 DEF Falling
  <2> QED BY <2>2, <2>3
<1>6. \A i, k \in 1 .. Len(p) : p[i] = p[k] => i = k
  <2> SUFFICES ASSUME NEW i \in 1 .. Len(p), NEW k \in 1 .. Len(p), i # k PROVE p[i] # p[k]
    OBVIOUS
  <2>1. i < k \/ k < i
    BY <1>4
  <2> QED BY <1>5, <2>1
<1>7. ASSUME Falling(l), \A i \in 1 .. Len(l) : l[i] <= t
      PROVE  Falling(p) /\ \A i \in 1 .. Len(p) : p[i] <= t
  <2>1. Falling(p)
    BY <1>5, <1>7 DEF Falling
  <2>2. ASSUME NEW i \in 1 .. Len(p) PROVE p[i] <= t
    <3>1. CASE i = 1
      BY <1>2, <3>1
    <3>2. CASE i # 1
      <4>1. i \in 2 .. Len(p)
        BY <1>4, <3>2
      <4> QED BY <1>2, <1>7, <4>1
    <3> QED BY <3>1, <3>2
  <2> QED BY <2>1, <2>2
<1> QED BY <1>4, <1>6, <1>7 DEF p

(* What the effects make of the latest telegram, with the selection S. *)
LEMMA EffectIs ==
  ASSUME SeenTypes, NEW t \in 0 .. Len(seenBus), NEW S, Ls!Effect(t, S)
  PROVE  /\ seenValues' \in [GA -> 0 .. Len(seenBus)] /\ pending' \in Nat
         /\ seenList' \in Seq(1 .. Len(seenBus)) /\ Len(seenList') <= Limit
         /\ \A i, k \in 1 .. Len(seenList') : seenList'[i] = seenList'[k] => i = k
         /\ Falling(seenList) /\ (\A i \in 1 .. Len(seenList) : seenList[i] <= t) =>
              Falling(seenList') /\ \A i \in 1 .. Len(seenList') : seenList'[i] <= t
         /\ ~live => seenList' = seenList
<1>1. CASE UNCHANGED <<seenValues, seenList, pending>>
  BY <1>1, SeenFacts
<1>2. CASE t # 0 /\ Ls!IntoValues(t)
  <2>1. seenValues' = [seenValues EXCEPT ![seenBus[t]] = t] /\ UNCHANGED <<seenList, pending>>
    BY <1>2 DEF Ls!IntoValues
  <2>2. seenBus[t] \in GA /\ t \in 0 .. Len(seenBus)
    BY <1>2, SeenFacts
  <2>3. seenValues' \in [GA -> 0 .. Len(seenBus)]
    BY <2>1, <2>2, SeenFacts
  <2> QED BY <2>1, <2>3, SeenFacts
<1>3. CASE t # 0 /\ Ls!Follow(t)
  <2>1. CASE live
    <3>1. /\ seenList' = (IF Ls!There(t) THEN seenList ELSE Prepended(seenList, t))
          /\ UNCHANGED <<seenValues, pending>>
      BY <1>3, <2>1 DEF Ls!Follow, Ls!Prepend, Prepended
    <3>2. CASE Ls!There(t)
      BY <2>1, <3>1, <3>2, SeenFacts
    <3>3. CASE ~Ls!There(t)
      <4>1. \A i \in 1 .. Len(seenList) : seenList[i] # t
        <5>1. DOMAIN seenList = 1 .. Len(seenList)
          BY SeenFacts, LenProperties
        <5> QED BY <3>3, <5>1 DEF Ls!There
      <4>2. t \in 1 .. Len(seenBus) /\ Len(seenBus) \in Nat
        BY <1>3, SeenFacts
      <4> DEFINE p == Prepended(seenList, t)
      <4>3. /\ p \in Seq(1 .. Len(seenBus)) /\ Len(p) <= Limit
            /\ \A i, k \in 1 .. Len(p) : p[i] = p[k] => i = k
            /\ Falling(seenList) /\ (\A i \in 1 .. Len(seenList) : seenList[i] <= t) =>
                 Falling(p) /\ \A i \in 1 .. Len(p) : p[i] <= t
        <5>1. /\ Limit \in Nat \ {0} /\ seenList \in Seq(1 .. Len(seenBus)) /\ Len(seenList) <= Limit
              /\ \A i, k \in 1 .. Len(seenList) : seenList[i] = seenList[k] => i = k
          BY SeenFacts
        <5> QED BY <4>1, <4>2, <5>1, PrependKeeps
      <4> HIDE DEF p
      <4>4. seenList' = p /\ UNCHANGED <<seenValues, pending>>
        BY <3>1, <3>3 DEF p
      <4> QED BY <2>1, <4>3, <4>4, SeenFacts
    <3> QED BY <3>2, <3>3
  <2>2. CASE ~live
    <3>1. pending' = pending + 1 /\ UNCHANGED <<seenValues, seenList>>
      BY <1>3, <2>2 DEF Ls!Follow
    <3> QED BY <3>1, SeenFacts
  <2> QED BY <2>1, <2>2
<1>4. UNCHANGED <<seenValues, seenList, pending>> \/ (t # 0 /\ (Ls!IntoValues(t) \/ Ls!Follow(t)))
  BY DEF Ls!Effect, Ls!shown
<1> QED BY <1>1, <1>2, <1>3, <1>4

(* A request less. *)
LEMMA OneAnswered ==
  ASSUME NEW F, NEW q \in Seq(F), NEW i \in 1 .. Len(q)
  PROVE  LET r == Ls!RemoveAt(q, i)
         IN  /\ r \in Seq(F) /\ Len(r) = Len(q) - 1
             /\ i = 1 /\ r # <<>> => r[Len(r)] = q[Len(q)]
             /\ r = <<>> => Len(q) = 1
<1> DEFINE a == SubSeq(q, 1, i - 1)
           b == SubSeq(q, i + 1, Len(q))
           r == a \o b
<1>1. Len(q) \in Nat /\ q \in Seq(F) /\ \A k \in 1 .. Len(q) : q[k] \in F
  BY ElementOfSeq, LenProperties
<1>2. a \in Seq(F) /\ Len(a) = i - 1
  <2>1. \A k \in 1 .. i - 1 : k \in 1 .. Len(q)
    BY <1>1
  <2>2. Len(a) = i - 1
    BY <1>1, <2>1, SubSeqProperties
  <2> QED BY <1>1, <2>1, <2>2, SubSeqProperties
<1>3. b \in Seq(F) /\ Len(b) = Len(q) - i /\ \A k \in 1 .. Len(b) : b[k] = q[i + k]
  <2>1. \A k \in i + 1 .. Len(q) : k \in 1 .. Len(q)
    BY <1>1
  <2>2. b \in Seq(F) /\ Len(b) = Len(q) - i
    BY <1>1, <2>1, SubSeqProperties
  <2>3. \A k \in 1 .. Len(q) - i : b[k] = q[(i + 1) + k - 1]
    BY <1>1, <2>1, SubSeqProperties
  <2>4. \A k \in 1 .. Len(q) - i : (i + 1) + k - 1 = i + k
    BY <1>1
  <2> HIDE DEF b
  <2> QED BY <2>2, <2>3, <2>4
<1> HIDE DEF a, b
<1>4. r \in Seq(F) /\ Len(r) = Len(q) - 1 /\ \A k \in 1 .. Len(r) : k > Len(a) => r[k] = b[k - Len(a)]
  BY <1>1, <1>2, <1>3, ConcatProperties
<1>5. Ls!RemoveAt(q, i) = r
  BY DEF Ls!RemoveAt, a, b
<1> HIDE DEF r
<1>6. ASSUME i = 1, r # <<>> PROVE r[Len(r)] = q[Len(q)]
  <2>1. Len(r) # 0 /\ Len(r) \in Nat
    BY <1>4, <1>6, EmptySeq, LenProperties
  <2>2. r[Len(r)] = b[Len(r)]
    BY <1>2, <1>4, <1>6, <2>1
  <2>3. b[Len(r)] = q[i + Len(r)]
    BY <1>1, <1>3, <1>4, <1>6, <2>1
  <2>4. i + Len(r) = Len(q)
    BY <1>1, <1>4, <1>6
  <2> QED BY <2>2, <2>3, <2>4
<1>7. r = <<>> => Len(q) = 1
  BY <1>1, <1>4, EmptySeq
<1> QED BY <1>4, <1>5, <1>6, <1>7

(* Nothing shown yet, and one request. *)
LEMMA SeenInit == Ls!Sized /\ Ls!Init => SeenInv
<1> SUFFICES ASSUME Ls!Sized, Ls!Init PROVE SeenInv
  OBVIOUS
<1>1. /\ seenBus = <<>> /\ close = {} /\ wire = <<>> /\ latest = 0 /\ stale = FALSE
      /\ sel \in (SUBSET GA) \ {{}} /\ seenValues = [g \in GA |-> 0] /\ seenList = <<>> /\ pending = 0
      /\ live \in BOOLEAN /\ resend = {} /\ fetches = <<[sel |-> sel, since |-> 0]>>
  BY DEF Ls!Init
<1>2. [sel |-> sel, since |-> 0] \in Requests
  BY <1>1 DEF Requests
<1>3. /\ fetches \in Seq(Requests) /\ Len(fetches) = 1 /\ fetches # <<>> /\ fetches[1].sel = sel
  <2> DEFINE r == [sel |-> sel, since |-> 0]
  <2>1. r.sel = sel /\ fetches = <<r>> /\ r \in Requests
    BY <1>1, <1>2
  <2> HIDE DEF r
  <2>2. fetches \in Seq(Requests) /\ Len(fetches) = 1 /\ fetches[1] = r
    BY <2>1
  <2> QED BY <2>1, <2>2, EmptySeq
<1>4. seenList \in Seq(1 .. Len(seenBus)) /\ Len(seenList) = 0 /\ Len(seenBus) = 0 /\ Len(wire) = 0
  BY <1>1, EmptySeq
<1>5. Ls!TypeOK
  <2>1. /\ seenBus \in Seq(GA) /\ wire \in Seq(Ls!Telegram) /\ seenList \in Seq(Ls!Telegram)
    BY <1>1, EmptySeq
  <2>2. Len(seenList) <= Limit
    BY <1>4 DEF Ls!Sized
  <2>3. seenValues \in [GA -> 0 .. Len(seenBus)] /\ latest \in 0 .. Len(seenBus)
    BY <1>1, <1>4
  <2>4. sel \subseteq GA /\ sel # {} /\ resend \subseteq GA /\ close \subseteq Ls!Telegram
    <3>1. sel \in SUBSET GA /\ sel # {}
      BY <1>1, Zenon
    <3> QED BY <1>1, <3>1
  <2>5. pending \in Nat /\ live \in BOOLEAN /\ stale \in BOOLEAN
    BY <1>1
  <2> QED BY <2>1, <2>2, <2>3, <2>4, <2>5 DEF Ls!TypeOK
<1>6. SeenTypes
  BY <1>1, <1>3, <1>4, <1>5 DEF SeenTypes
<1>7. Delivered /\ Falls
  BY <1>1, <1>4 DEF Delivered, Falls, Falling
<1>8. Asked /\ Valued /\ Enlisted
  BY <1>1, <1>3 DEF Asked, Valued, Enlisted
<1> QED BY <1>6, <1>7, <1>8 DEF SeenInv

(* A telegram is stored, and on its way unless the feed misses it. *)
LEMMA ArriveKeeps ==
  ASSUME SeenInv, NEW g \in GA, Ls!Arrive(g)
  PROVE  SeenInv'
<1> USE DEF SeenInv
<1> DEFINE n == Len(seenBus)
<1>1. /\ seenBus' = Append(seenBus, g)
      /\ close' = close \/ ("close" \in seenEnv.habits /\ close' = close \cup {Len(seenBus')})
      /\ wire' = Append(wire, Len(seenBus')) \/ ("outage" \in seenEnv.habits /\ wire' = wire)
      /\ UNCHANGED <<seenEnv, latest, stale, sel, seenValues, seenList, pending, live, resend, fetches>>
  BY DEF Ls!Arrive, Ls!Has, Ls!shown
<1>2. n \in Nat /\ seenBus \in Seq(GA) /\ seenBus' \in Seq(GA) /\ Len(seenBus') = n + 1
  BY <1>1, SeenFacts, AppendProperties
<1>3. \A k \in 1 .. n : k \in 1 .. n + 1
  BY <1>2
<1>4. /\ wire' \in Seq(1 .. n + 1)
      /\ wire' # wire \/ "outage" \notin seenEnv.habits =>
           Len(wire') = Len(wire) + 1 /\ wire'[Len(wire) + 1] = n + 1
           /\ \A i \in 1 .. Len(wire) : wire'[i] = wire[i]
  <2>1. wire \in Seq(1 .. n + 1) /\ n + 1 \in 1 .. n + 1
    <3>1. Len(wire) \in Nat /\ wire \in Seq(1 .. n) /\ \A i \in 1 .. Len(wire) : wire[i] \in 1 .. n
      BY SeenFacts
    <3> QED BY <1>2, <1>3, <3>1
  <2> DEFINE A == 1 .. n + 1
             x == n + 1
  <2>2. wire \in Seq(A) /\ x \in A
    BY <2>1
  <2> HIDE DEF A, x
  <2>3. /\ Append(wire, x) \in Seq(A) /\ Len(Append(wire, x)) = Len(wire) + 1
        /\ Append(wire, x)[Len(wire) + 1] = x
        /\ \A i \in 1 .. Len(wire) : Append(wire, x)[i] = wire[i]
    BY <2>2, AppendProperties
  <2>4. wire' = Append(wire, x) \/ ("outage" \in seenEnv.habits /\ wire' = wire)
    BY <1>1, <1>2 DEF x
  <2> QED BY <2>2, <2>3, <2>4 DEF A, x
<1> HIDE DEF n
<1>5. SeenTypes'
  <2>1. close' \in SUBSET (1 .. n + 1)
    <3>1. close \in SUBSET (1 .. n)
      BY SeenFacts DEF n
    <3>2. close' = close \/ close' = close \cup {n + 1}
      BY <1>1, <1>2
    <3>3. n + 1 \in 1 .. n + 1 /\ close \in SUBSET (1 .. n + 1)
      BY <1>2, <1>3, <3>1
    <3> QED BY <3>2, <3>3
  <2>2. latest' \in 0 .. n + 1 /\ seenValues' \in [GA -> 0 .. n + 1]
    <3>1. latest \in 0 .. n /\ seenValues \in [GA -> 0 .. n]
      BY SeenFacts DEF n
    <3> QED BY <1>1, <1>2, <3>1
  <2>3. seenList' \in Seq(1 .. n + 1)
    <3>1. Len(seenList) \in Nat /\ seenList \in Seq(1 .. n) /\ \A i \in 1 .. Len(seenList) : seenList[i] \in 1 .. n
      BY SeenFacts DEF n
    <3> QED BY <1>1, <1>2, <1>3, <3>1
  <2>4. /\ stale' \in BOOLEAN /\ (stale' => latest' # 0)
        /\ sel' \in SUBSET GA /\ sel' # {} /\ resend' \in SUBSET GA
        /\ Len(seenList') <= Limit /\ pending' \in Nat /\ live' \in BOOLEAN /\ fetches' \in Seq(Requests)
        /\ \A i, k \in 1 .. Len(seenList') : seenList'[i] = seenList'[k] => i = k
    BY <1>1, SeenFacts
  <2> QED BY <1>2, <1>4, <2>1, <2>2, <2>3, <2>4, TypesKeep
<1>6. Delivered'
  <2> SUFFICES ASSUME "outage" \notin seenEnv.habits
               PROVE  latest = Len(seenBus') - Len(wire') /\ \A i \in 1 .. Len(wire') : wire'[i] = latest + i
    BY <1>1 DEF Delivered
  <2>1. latest = n - Len(wire) /\ (\A i \in 1 .. Len(wire) : wire[i] = latest + i) /\ Len(wire) \in Nat
        /\ latest \in Nat
    BY SeenFacts DEF Delivered, n
  <2>2. latest = (n + 1) - (Len(wire) + 1)
    BY <1>2, <2>1
  <2>3. ASSUME NEW i \in 1 .. Len(wire) + 1 PROVE wire'[i] = latest + i
    <3>1. i \in 1 .. Len(wire) \/ i = Len(wire) + 1
      BY <2>1
    <3>2. n + 1 = latest + (Len(wire) + 1)
      BY <1>2, <2>1
    <3> QED BY <1>4, <2>1, <3>1, <3>2
  <2> QED BY <1>2, <1>4, <2>2, <2>3
<1>7. Asked' /\ Falls'
  BY <1>1 DEF Asked, Falls
<1>8. Come' = Come /\ Come \in 0 .. Len(seenBus)
  BY <1>1, ComeIs DEF Come
<1>9. Valued'
  <2>1. \A x : Newest(seenBus', Come, {x}) = Newest(seenBus, Come, {x})
    BY <1>1, <1>2, <1>8, BusGrows
  <2> QED BY <1>1, <1>8, <2>1 DEF Valued
<1>10. Enlisted'
  <2>1. \A m \in 0 .. Come : Counted(m) => Counted(m)'
    <3> SUFFICES ASSUME NEW m \in 0 .. Come, Counted(m) PROVE Counted(m)'
      OBVIOUS
    <3>1. m \in 0 .. Len(seenBus)
      BY <1>8, SeenFacts
    <3>2. ListOf(seenBus', m, sel) = ListOf(seenBus, m, sel) /\ Among(seenBus', m, sel) = Among(seenBus, m, sel)
          /\ Among(seenBus', Come, sel) = Among(seenBus, Come, sel)
      BY <1>1, <1>2, <1>8, <3>1, BusGrows
    <3> QED BY <1>1, <1>8, <3>2 DEF Counted
  <2>2. seenEnv.habits = {} => close' = close
    BY <1>1
  <2> QED BY <1>1, <1>8, <2>1, <2>2 DEF Enlisted
<1> QED BY <1>5, <1>6, <1>7, <1>9, <1>10

(* handleTelegram. *)
LEMMA OnMessageKeeps ==
  ASSUME SeenInv, Ls!OnMessage
  PROVE  SeenInv'
<1> USE DEF SeenInv
<1>1. /\ wire # <<>> /\ (stale => "burst" \in seenEnv.habits)
      /\ latest' = Head(wire) /\ wire' = Tail(wire) /\ stale' = TRUE
      /\ UNCHANGED <<seenEnv, seenBus, close, sel, seenValues, seenList, pending, live, resend, fetches>>
  BY DEF Ls!OnMessage, Ls!Has, Ls!shown
<1>2. /\ wire' \in Seq(1 .. Len(seenBus)) /\ Len(wire) # 0 /\ Len(wire') = Len(wire) - 1
      /\ latest' = wire[1] /\ latest' \in 1 .. Len(seenBus)
      /\ \A i \in 1 .. Len(wire) - 1 : wire'[i] = wire[i + 1]
  <2> DEFINE A == 1 .. Len(seenBus)
  <2>1. wire \in Seq(A) /\ Len(wire) \in Nat
    BY SeenFacts
  <2> HIDE DEF A
  <2>2. /\ Head(wire) = wire[1] /\ Head(wire) \in A /\ Tail(wire) \in Seq(A) /\ Len(Tail(wire)) = Len(wire) - 1
        /\ \A i \in 1 .. Len(Tail(wire)) : Tail(wire)[i] = wire[i + 1]
    BY <1>1, <2>1, HeadTailProperties
  <2>3. Len(wire) # 0
    BY <1>1, <2>1, EmptySeq
  <2> QED BY <1>1, <2>2, <2>3 DEF A
<1>3. SeenTypes'
  <2>1. /\ seenBus' \in Seq(GA) /\ wire' \in Seq(1 .. Len(seenBus')) /\ latest' \in 0 .. Len(seenBus')
        /\ stale' \in BOOLEAN /\ (stale' => latest' # 0)
    BY <1>1, <1>2, SeenFacts
  <2>2. /\ sel' \in SUBSET GA /\ sel' # {} /\ resend' \in SUBSET GA /\ close' \in SUBSET (1 .. Len(seenBus'))
        /\ seenValues' \in [GA -> 0 .. Len(seenBus')]
        /\ seenList' \in Seq(1 .. Len(seenBus')) /\ Len(seenList') <= Limit
        /\ \A i, k \in 1 .. Len(seenList') : seenList'[i] = seenList'[k] => i = k
        /\ pending' \in Nat /\ live' \in BOOLEAN /\ fetches' \in Seq(Requests)
    BY <1>1, SeenFacts
  <2> QED BY <2>1, <2>2, TypesKeep
<1>4. ASSUME "outage" \notin seenEnv.habits
      PROVE  latest' = latest + 1 /\ latest' = Len(seenBus) - Len(wire')
             /\ \A i \in 1 .. Len(wire') : wire'[i] = latest' + i
  <2>1. /\ latest = Len(seenBus) - Len(wire) /\ (\A i \in 1 .. Len(wire) : wire[i] = latest + i)
        /\ Len(wire) \in Nat /\ Len(seenBus) \in Nat /\ latest \in Nat
    BY <1>4, SeenFacts DEF Delivered
  <2>2. 1 \in 1 .. Len(wire) /\ latest' = latest + 1
    BY <1>2, <2>1
  <2>3. latest' = Len(seenBus) - Len(wire')
    BY <1>2, <2>1, <2>2
  <2>4. ASSUME NEW i \in 1 .. Len(wire') PROVE wire'[i] = latest' + i
    <3>1. i \in 1 .. Len(wire) - 1 /\ i + 1 \in 1 .. Len(wire)
      BY <1>2, <2>1
    <3>2. wire'[i] = latest + (i + 1)
      BY <1>2, <2>1, <3>1
    <3>3. latest + (i + 1) = (latest + 1) + i
      BY <2>1
    <3> QED BY <2>2, <3>2, <3>3
  <2> QED BY <2>2, <2>3, <2>4
<1>5. Delivered' /\ Asked'
  BY <1>1, <1>4 DEF Delivered, Asked
<1>6. Falls'
  <2> SUFFICES ASSUME {"race", "outage"} \cap seenEnv.habits = {}
               PROVE  Falling(seenList) /\ \A i \in 1 .. Len(seenList) : seenList[i] <= latest'
    BY <1>1 DEF Falls
  <2>1. Falling(seenList) /\ \A i \in 1 .. Len(seenList) : seenList[i] <= latest
    BY DEF Falls
  <2>2. latest' = latest + 1
    BY <1>4
  <2>3. latest \in Nat /\ \A i \in 1 .. Len(seenList) : seenList[i] \in Nat
    BY SeenFacts
  <2> QED BY <2>1, <2>2, <2>3
<1>7. {"burst", "outage"} \cap seenEnv.habits = {} => Come' = Come
  <2> SUFFICES ASSUME {"burst", "outage"} \cap seenEnv.habits = {} PROVE Come' = Come
    OBVIOUS
  <2>1. latest' = latest + 1 /\ ~stale /\ stale' /\ latest \in Nat
    BY <1>1, <1>4, SeenFacts
  <2> QED BY <2>1 DEF Come
<1>8. Valued'
  BY <1>1, <1>7 DEF Valued
<1>9. Enlisted'
  <2>1. Come' = Come => \A m : Counted(m) => Counted(m)'
    BY <1>1 DEF Counted
  <2> QED BY <1>1, <1>7, <2>1 DEF Enlisted
<1> QED BY <1>3, <1>5, <1>6, <1>8, <1>9

(* The effects run for a new telegram. *)
LEMMA RenderKeeps ==
  ASSUME SeenInv, Ls!Render
  PROVE  SeenInv'
<1> USE DEF SeenInv
<1>1. /\ stale /\ stale' = FALSE /\ Ls!Effect(latest, sel)
      /\ UNCHANGED <<seenEnv, seenBus, close, wire, latest, sel, live, resend, fetches>>
  BY DEF Ls!Render
<1>2. /\ latest \in 0 .. Len(seenBus) /\ latest # 0 /\ latest \in Nat
  BY <1>1, SeenFacts
<1>3. /\ seenValues' \in [GA -> 0 .. Len(seenBus)] /\ pending' \in Nat
      /\ seenList' \in Seq(1 .. Len(seenBus)) /\ Len(seenList') <= Limit
      /\ \A i, k \in 1 .. Len(seenList') : seenList'[i] = seenList'[k] => i = k
      /\ Falling(seenList) /\ (\A i \in 1 .. Len(seenList) : seenList[i] <= latest) =>
           Falling(seenList') /\ \A i \in 1 .. Len(seenList') : seenList'[i] <= latest
  BY <1>1, <1>2, EffectIs
<1>4. SeenTypes'
  <2>1. /\ seenBus' \in Seq(GA) /\ wire' \in Seq(1 .. Len(seenBus')) /\ latest' \in 0 .. Len(seenBus')
        /\ sel' \in SUBSET GA /\ sel' # {} /\ resend' \in SUBSET GA /\ close' \in SUBSET (1 .. Len(seenBus'))
        /\ live' \in BOOLEAN /\ fetches' \in Seq(Requests)
    BY <1>1, SeenFacts
  <2>2. stale' \in BOOLEAN /\ (stale' => latest' # 0)
    BY <1>1
  <2>3. /\ seenValues' \in [GA -> 0 .. Len(seenBus')] /\ seenList' \in Seq(1 .. Len(seenBus'))
    BY <1>1, <1>3
  <2> QED BY <1>3, <2>1, <2>2, <2>3, TypesKeep
<1>5. Delivered' /\ Asked' /\ Falls'
  BY <1>1, <1>3 DEF Delivered, Asked, Falls
<1>6. PICK c \in Nat : latest = c + 1 /\ Come = c /\ Come' = c + 1
  <2>1. Come = latest - 1 /\ Come' = latest
    BY <1>1 DEF Come
  <2>2. latest - 1 \in Nat /\ latest = (latest - 1) + 1
    BY <1>2
  <2> QED BY <2>1, <2>2
<1>7. Valued'
  <2> SUFFICES ASSUME seenEnv.habits \subseteq {"close", "switch"}, seenEnv.view = "values", fetches = <<>>,
                      NEW g \in sel
               PROVE  seenValues'[g] = Newest(seenBus, c + 1, {g})
    BY <1>1, <1>6 DEF Valued
  <2>1. seenValues[g] = Newest(seenBus, c, {g}) /\ g \in GA
    BY <1>6, SeenFacts DEF Valued
  <2>2. CASE seenBus[latest] = g
    <3>1. seenValues' = [seenValues EXCEPT ![g] = latest]
      BY <1>1, <1>2, <2>2 DEF Ls!Effect, Ls!IntoValues
    <3>2. seenValues'[g] = c + 1
      BY <1>6, <2>1, <3>1, SeenFacts
    <3>3. seenBus[c + 1] \in {g}
      BY <1>6, <2>2
    <3> QED BY <3>2, <3>3, NewestStep
  <2>3. CASE seenBus[latest] # g
    <3>1. seenValues'[g] = seenValues[g]
      <4>1. seenValues' = seenValues \/ seenValues' = [seenValues EXCEPT ![seenBus[latest]] = latest]
        BY <1>1 DEF Ls!Effect, Ls!IntoValues, Ls!shown
      <4> QED BY <2>1, <2>3, <4>1, SeenFacts
    <3>2. seenBus[c + 1] \notin {g}
      BY <1>6, <2>3
    <3> QED BY <2>1, <3>1, <3>2, NewestStep
  <2> QED BY <2>2, <2>3
<1>8. Enlisted'
  <2> SUFFICES ASSUME seenEnv.habits = {}, seenEnv.view = "list"
               PROVE  close' = {} /\ (fetches' = <<>> => \E m \in 0 .. Come' : Counted(m)')
    BY <1>1 DEF Enlisted
  <2>1. close = {} /\ (fetches = <<>> => \E m \in 0 .. Come : Counted(m))
    BY DEF Enlisted
  <2>2. SUFFICES ASSUME NEW m \in 0 .. c, Counted(m) PROVE \E k \in 0 .. c + 1 : Counted(k)'
    BY <1>1, <1>6, <2>1
  <2>m. m \in 0 .. c + 1 /\ c + 1 \in 0 .. c + 1
    BY <1>6
  <2> DEFINE A == Among(seenBus, c, sel)
             B == Among(seenBus, m, sel)
             A2 == Among(seenBus, c + 1, sel)
  <2>3. /\ seenList = ListOf(seenBus, m, sel) /\ pending = Cardinality(A \ B) /\ (live => m = c)
    BY <1>6, <2>2 DEF Counted
  <2>4. /\ A \in SUBSET (1 .. c) /\ B \in SUBSET (1 .. m) /\ IsFiniteSet(A)
        /\ seenBus[c + 1] \in sel => A2 = A \cup {c + 1}
        /\ seenBus[c + 1] \notin sel => A2 = A
    BY <1>6, AmongIs
  <2>5. seenBus' = seenBus /\ sel' = sel /\ live' = live
    BY <1>1
  <2> HIDE DEF A, B, A2
  <2>6. CASE seenBus[c + 1] \notin sel
    <3>1. UNCHANGED <<seenList, pending>>
      BY <1>1, <1>6, <2>6 DEF Ls!Effect, Ls!shown
    <3>2. CASE live
      <4>1. m = c
        BY <2>3, <3>2
      <4>2. seenList' = ListOf(seenBus, c + 1, sel)
        BY <1>6, <2>3, <2>6, <3>1, <4>1, SeenFacts, ListOfIs
      <4>3. Among(seenBus, c + 1, sel) \ Among(seenBus, c + 1, sel) = {} /\ A \ B = {}
        BY <4>1 DEF A, B
      <4>4. Counted(c + 1)'
        BY <1>6, <2>3, <2>5, <3>1, <4>2, <4>3 DEF Counted
      <4> QED BY <2>m, <4>4
    <3>3. CASE ~live
      <4>1. Among(seenBus, c + 1, sel) \ Among(seenBus, m, sel) = A \ B
        BY <2>4, <2>6 DEF A, B, A2
      <4>2. Counted(m)'
        BY <1>6, <2>3, <2>5, <3>1, <3>3, <4>1 DEF Counted
      <4> QED BY <2>m, <4>2
    <3> QED BY <3>2, <3>3
  <2>7. CASE seenBus[c + 1] \in sel
    <3>1. Ls!Follow(c + 1)
      BY <1>1, <1>2, <1>6, <2>7 DEF Ls!Effect
    <3>2. CASE live
      <4>1. m = c
        BY <2>3, <3>2
      <4>2. ~Ls!There(c + 1)
        <5>1. DOMAIN seenList = 1 .. Len(seenList) /\ \A i \in 1 .. Len(seenList) : seenList[i] \in 1 .. c
          <6>1. seenList \in Seq(1 .. c)
            BY <1>6, <2>3, <4>1, SeenFacts, ListOfIs
          <6> QED BY <6>1, ElementOfSeq, LenProperties
        <5>2. \A i \in 1 .. Len(seenList) : seenList[i] # c + 1
          BY <1>6, <5>1
        <5> QED BY <2>1, <5>1, <5>2 DEF Ls!There
      <4>3. seenList' = Prepended(seenList, c + 1) /\ UNCHANGED pending
        BY <3>1, <3>2, <4>2 DEF Ls!Follow, Ls!Prepend, Prepended
      <4>4. seenList' = ListOf(seenBus, c + 1, sel)
        BY <1>6, <2>3, <2>7, <4>1, <4>3, SeenFacts, ListOfIs
      <4>5. Among(seenBus, c + 1, sel) \ Among(seenBus, c + 1, sel) = {} /\ A \ B = {}
        BY <4>1 DEF A, B
      <4>6. Counted(c + 1)'
        BY <1>6, <2>3, <2>5, <4>3, <4>4, <4>5 DEF Counted
      <4> QED BY <2>m, <4>6
    <3>3. CASE ~live
      <4>1. pending' = pending + 1 /\ seenList' = seenList
        BY <3>1, <3>3 DEF Ls!Follow
      <4>2. A2 \ B = (A \ B) \cup {c + 1} /\ c + 1 \notin A \ B
        <5>1. c + 1 \notin A /\ c + 1 \notin B
          BY <1>6, <2>4
        <5> QED BY <2>4, <2>7, <5>1
      <4>3. IsFiniteSet(A \ B)
        BY <2>4, FS_Subset
      <4>4. Cardinality(A2 \ B) = Cardinality(A \ B) + 1
        BY <4>2, <4>3, FS_AddElement
      <4>5. Counted(m)'
        BY <1>6, <2>3, <2>5, <3>3, <4>1, <4>4 DEF Counted, A2, B
      <4> QED BY <2>m, <4>5
    <3> QED BY <3>2, <3>3
  <2> QED BY <2>6, <2>7
<1> QED BY <1>4, <1>5, <1>7, <1>8

(* A request more, about S. *)
LEMMA OneAsked ==
  ASSUME SeenTypes, NEW S \in SUBSET GA, fetches' = Append(fetches, Ls!Request(S))
  PROVE  /\ fetches' \in Seq(Requests) /\ fetches' # <<>> /\ fetches'[Len(fetches')].sel = S
<1> DEFINE r == [sel |-> S, since |-> Len(seenBus)]
<1>1. Len(seenBus) \in Nat /\ fetches \in Seq(Requests)
  BY SeenFacts
<1>2. r \in Requests /\ r.sel = S
  BY <1>1 DEF Requests
<1>3. fetches' = Append(fetches, r)
  BY DEF Ls!Request
<1> HIDE DEF r
<1>4. /\ fetches' \in Seq(Requests) /\ Len(fetches') = Len(fetches) + 1 /\ Len(fetches) \in Nat
      /\ fetches'[Len(fetches) + 1] = r
  BY <1>1, <1>2, <1>3, AppendProperties, LenProperties
<1>5. fetches' # <<>>
  BY <1>4, EmptySeq
<1> QED BY <1>2, <1>4, <1>5

(* Another selection. *)
LEMMA SelectKeeps ==
  ASSUME SeenInv, NEW S \in (SUBSET GA) \ {{}}, Ls!Select(S)
  PROVE  SeenInv'
<1> USE DEF SeenInv
<1>1. /\ ~stale /\ (resend # {} => "switch" \in seenEnv.habits)
      /\ sel' = S /\ fetches' = Append(fetches, Ls!Request(S)) /\ Ls!Effect(latest, S)
      /\ UNCHANGED <<seenEnv, seenBus, close, wire, latest, stale, live, resend>>
  BY DEF Ls!Select, Ls!Has, Ls!Fetch
<1>2. fetches' \in Seq(Requests) /\ fetches' # <<>> /\ fetches'[Len(fetches')].sel = S
  BY <1>1, OneAsked
<1>3. /\ seenValues' \in [GA -> 0 .. Len(seenBus)] /\ pending' \in Nat
      /\ seenList' \in Seq(1 .. Len(seenBus)) /\ Len(seenList') <= Limit
      /\ \A i, k \in 1 .. Len(seenList') : seenList'[i] = seenList'[k] => i = k
      /\ Falling(seenList) /\ (\A i \in 1 .. Len(seenList) : seenList[i] <= latest) =>
           Falling(seenList') /\ \A i \in 1 .. Len(seenList') : seenList'[i] <= latest
  <2>1. latest \in 0 .. Len(seenBus)
    BY SeenFacts
  <2> QED BY <1>1, <2>1, EffectIs
<1>4. SeenTypes'
  <2>1. /\ seenBus' \in Seq(GA) /\ wire' \in Seq(1 .. Len(seenBus')) /\ latest' \in 0 .. Len(seenBus')
        /\ stale' \in BOOLEAN /\ (stale' => latest' # 0)
        /\ resend' \in SUBSET GA /\ close' \in SUBSET (1 .. Len(seenBus')) /\ live' \in BOOLEAN
    BY <1>1, SeenFacts
  <2>2. sel' \in SUBSET GA /\ sel' # {}
    BY <1>1, Zenon
  <2>3. seenValues' \in [GA -> 0 .. Len(seenBus')] /\ seenList' \in Seq(1 .. Len(seenBus'))
    BY <1>1, <1>3
  <2> QED BY <1>2, <1>3, <2>1, <2>2, <2>3, TypesKeep
<1>5. Delivered' /\ Falls'
  BY <1>1, <1>3 DEF Delivered, Falls
<1>6. Asked'
  <2> SUFFICES ASSUME "race" \notin seenEnv.habits, seenEnv.view = "values" \/ "switch" \notin seenEnv.habits
               PROVE  resend = {}
    BY <1>1, <1>2 DEF Asked
  <2> QED BY <1>1 DEF Asked
<1>7. Valued' /\ Enlisted'
  BY <1>1, <1>2 DEF Valued, Enlisted
<1> QED BY <1>4, <1>5, <1>6, <1>7

(* Live or frozen. *)
LEMMA ToggleLiveKeeps ==
  ASSUME SeenInv, Ls!ToggleLive
  PROVE  SeenInv'
<1> USE DEF SeenInv
<1>1. /\ live' = ~live /\ fetches' = (IF live' THEN Append(fetches, Ls!Request(sel)) ELSE fetches)
      /\ UNCHANGED <<seenEnv, seenBus, close, wire, latest, stale, sel, seenValues, seenList, pending, resend>>
  BY DEF Ls!ToggleLive, Ls!CatchUp, Ls!shown
<1>2. live' => fetches' \in Seq(Requests) /\ fetches' # <<>> /\ fetches'[Len(fetches')].sel = sel
  <2>1. sel \in SUBSET GA
    BY SeenFacts
  <2> QED BY <1>1, <2>1, OneAsked
<1>3. ~live' => fetches' = fetches
  BY <1>1
<1>4. SeenTypes'
  <2>1. /\ seenBus' \in Seq(GA) /\ wire' \in Seq(1 .. Len(seenBus')) /\ latest' \in 0 .. Len(seenBus')
        /\ stale' \in BOOLEAN /\ (stale' => latest' # 0)
        /\ sel' \in SUBSET GA /\ sel' # {} /\ resend' \in SUBSET GA /\ close' \in SUBSET (1 .. Len(seenBus'))
        /\ seenValues' \in [GA -> 0 .. Len(seenBus')]
        /\ seenList' \in Seq(1 .. Len(seenBus')) /\ Len(seenList') <= Limit
        /\ \A i, k \in 1 .. Len(seenList') : seenList'[i] = seenList'[k] => i = k
        /\ pending' \in Nat
    BY <1>1, SeenFacts
  <2>2. live' \in BOOLEAN
    BY <1>1
  <2>3. fetches' \in Seq(Requests)
    BY <1>2, <1>3, SeenFacts
  <2> QED BY <2>1, <2>2, <2>3, TypesKeep
<1>5. Delivered' /\ Falls'
  BY <1>1 DEF Delivered, Falls
<1>6. Asked'
  BY <1>1, <1>2, <1>3 DEF Asked
<1>7. Come' = Come
  BY <1>1 DEF Come
<1>8. Valued'
  BY <1>1, <1>2, <1>3, <1>7 DEF Valued
<1>9. Enlisted'
  <2>1. CASE live'
    BY <1>1, <1>2, <2>1 DEF Enlisted
  <2>2. CASE ~live'
    <3>1. \A m : Counted(m) => Counted(m)'
      BY <1>1, <1>7, <2>2 DEF Counted
    <3> QED BY <1>1, <1>3, <1>7, <2>2, <3>1 DEF Enlisted
  <2> QED BY <2>1, <2>2
<1> QED BY <1>4, <1>5, <1>6, <1>8, <1>9

(* A send. *)
LEMMA SendKeeps ==
  ASSUME SeenInv, Ls!Send
  PROVE  SeenInv'
<1> USE DEF SeenInv
<1>1. /\ seenEnv.view = "list" /\ resend' = sel
      /\ UNCHANGED <<seenEnv, seenBus, close, wire, latest, stale, sel, seenValues, seenList, pending, live, fetches>>
  BY DEF Ls!Send, Ls!shown
<1>2. SeenTypes'
  <2>1. /\ seenBus' \in Seq(GA) /\ wire' \in Seq(1 .. Len(seenBus')) /\ latest' \in 0 .. Len(seenBus')
        /\ stale' \in BOOLEAN /\ (stale' => latest' # 0)
        /\ sel' \in SUBSET GA /\ sel' # {} /\ resend' \in SUBSET GA /\ close' \in SUBSET (1 .. Len(seenBus'))
        /\ seenValues' \in [GA -> 0 .. Len(seenBus')]
        /\ seenList' \in Seq(1 .. Len(seenBus')) /\ Len(seenList') <= Limit
        /\ \A i, k \in 1 .. Len(seenList') : seenList'[i] = seenList'[k] => i = k
        /\ pending' \in Nat /\ live' \in BOOLEAN /\ fetches' \in Seq(Requests)
    BY <1>1, SeenFacts
  <2> QED BY <2>1, TypesKeep
<1>3. Delivered' /\ Falls' /\ Asked'
  BY <1>1 DEF Delivered, Falls, Asked
<1>4. Come' = Come /\ \A m : Counted(m) => Counted(m)'
  BY <1>1 DEF Come, Counted
<1>5. Valued' /\ Enlisted'
  BY <1>1, <1>4 DEF Valued, Enlisted
<1> QED BY <1>2, <1>3, <1>5

(* The refresh after a send. *)
LEMMA RefreshSoonKeeps ==
  ASSUME SeenInv, Ls!RefreshSoon
  PROVE  SeenInv'
<1> USE DEF SeenInv
<1>1. /\ resend # {} /\ fetches' = Append(fetches, Ls!Request(resend)) /\ resend' = {}
      /\ UNCHANGED <<seenEnv, seenBus, close, wire, latest, stale, sel, seenValues, seenList, pending, live>>
  BY DEF Ls!RefreshSoon, Ls!shown
<1>2. fetches' \in Seq(Requests) /\ fetches' # <<>> /\ fetches'[Len(fetches')].sel = resend
  <2>1. resend \in SUBSET GA
    BY SeenFacts
  <2> QED BY <1>1, <2>1, OneAsked
<1>3. SeenTypes'
  <2>1. /\ seenBus' \in Seq(GA) /\ wire' \in Seq(1 .. Len(seenBus')) /\ latest' \in 0 .. Len(seenBus')
        /\ stale' \in BOOLEAN /\ (stale' => latest' # 0)
        /\ sel' \in SUBSET GA /\ sel' # {} /\ close' \in SUBSET (1 .. Len(seenBus'))
        /\ seenValues' \in [GA -> 0 .. Len(seenBus')]
        /\ seenList' \in Seq(1 .. Len(seenBus')) /\ Len(seenList') <= Limit
        /\ \A i, k \in 1 .. Len(seenList') : seenList'[i] = seenList'[k] => i = k
        /\ pending' \in Nat /\ live' \in BOOLEAN
    BY <1>1, SeenFacts
  <2>2. resend' \in SUBSET GA
    BY <1>1
  <2> QED BY <1>2, <2>1, <2>2, TypesKeep
<1>4. Delivered' /\ Falls'
  BY <1>1 DEF Delivered, Falls
<1>5. Asked'
  <2> SUFFICES ASSUME "race" \notin seenEnv.habits, seenEnv.view = "values" \/ "switch" \notin seenEnv.habits
               PROVE  fetches'[Len(fetches')].sel = sel
    BY <1>1 DEF Asked
  <2>1. resend = sel
    BY <1>1 DEF Asked
  <2> QED BY <1>2, <2>1
<1>6. Valued' /\ Enlisted'
  BY <1>1, <1>2 DEF Valued, Enlisted
<1> QED BY <1>3, <1>4, <1>5, <1>6

(* An answer. *)
LEMMA AnsweredKeeps ==
  ASSUME SeenInv, NEW i \in DOMAIN fetches, NEW n \in 0 .. Len(seenBus), Ls!Answered(i, n)
  PROVE  SeenInv' /\ Len(fetches') < Len(fetches)
<1> USE DEF SeenInv
<1> DEFINE S == fetches[i].sel
<1>1. /\ "race" \notin seenEnv.habits => i = 1 /\ n = Len(seenBus) /\ wire = <<>> /\ ~stale
      /\ IF seenEnv.view = "values" THEN Ls!AnswerValues(S, n) ELSE Ls!AnswerList(S, n)
      /\ fetches' = Ls!RemoveAt(fetches, i)
      /\ UNCHANGED <<seenEnv, seenBus, close, wire, latest, stale, sel, live, resend>>
  BY DEF Ls!Answered, Ls!Has
<1>2. /\ i \in 1 .. Len(fetches) /\ n \in Nat /\ n <= Len(seenBus) /\ Len(seenBus) \in Nat
      /\ fetches \in Seq(Requests) /\ Len(fetches) \in Nat
  <2>1. DOMAIN fetches = 1 .. Len(fetches) /\ Len(fetches) \in Nat
    BY SeenFacts, LenProperties
  <2> QED BY <2>1, SeenFacts
<1>3. /\ fetches' \in Seq(Requests) /\ Len(fetches') = Len(fetches) - 1
      /\ i = 1 /\ fetches' # <<>> => fetches'[Len(fetches')] = fetches[Len(fetches)]
      /\ fetches' = <<>> => Len(fetches) = 1
  BY <1>1, <1>2, OneAnswered
<1>4. S \in SUBSET GA
  <2>1. fetches[i] \in Requests
    BY <1>2, ElementOfSeq
  <2> QED BY <2>1 DEF Requests
<1> HIDE DEF S
<1>v. ASSUME seenEnv.view = "values"
      PROVE  /\ seenValues' = [g \in GA |-> IF g \in S THEN Newest(seenBus, n, {g}) ELSE 0]
             /\ UNCHANGED <<seenList, pending>>
  BY <1>1, <1>v, OfTheBus DEF Ls!AnswerValues
<1>l. ASSUME seenEnv.view # "values"
      PROVE  seenList' = ListOf(seenBus, n, S) /\ pending' = 0 /\ UNCHANGED seenValues
  BY <1>1, <1>l, OfTheBus DEF Ls!AnswerList
<1> DEFINE l == ListOf(seenBus, n, S)
<1>5. l \in Seq(1 .. n) /\ Len(l) \in Nat /\ Len(l) <= Limit /\ Falling(l) /\ \A k \in 1 .. Len(l) : l[k] \in 1 .. n
  <2>1. l \in Seq(1 .. n) /\ Len(l) \in Nat /\ Len(l) <= Limit /\ Falling(l)
    BY <1>2, SeenFacts, ListOfIs
  <2> HIDE DEF l
  <2> QED BY <2>1, ElementOfSeq
<1> HIDE DEF l
<1>6. /\ seenValues' \in [GA -> 0 .. Len(seenBus)] /\ pending' \in Nat
      /\ seenList' \in Seq(1 .. Len(seenBus)) /\ Len(seenList') <= Limit
      /\ \A j, k \in 1 .. Len(seenList') : seenList'[j] = seenList'[k] => j = k
  <2>1. CASE seenEnv.view = "values"
    <3>1. \A g \in GA : Newest(seenBus, n, {g}) \in 0 .. Len(seenBus)
      <4>1. \A g \in GA : Newest(seenBus, n, {g}) \in 0 .. n
        BY <1>2, NewestType
      <4> QED BY <1>2, <4>1
    <3>0. \A g \in GA : (IF g \in S THEN Newest(seenBus, n, {g}) ELSE 0) \in 0 .. Len(seenBus)
      BY <1>2, <3>1
    <3>2. seenValues' \in [GA -> 0 .. Len(seenBus)]
      <4> DEFINE f(g) == IF g \in S THEN Newest(seenBus, n, {g}) ELSE 0
      <4>1. seenValues' = [g \in GA |-> f(g)] /\ \A g \in GA : f(g) \in 0 .. Len(seenBus)
        BY <1>v, <2>1, <3>0
      <4> HIDE DEF f
      <4> QED BY <4>1
    <3> QED BY <1>v, <2>1, <3>2, SeenFacts
  <2>2. CASE seenEnv.view # "values"
    <3>1. seenList' = l /\ pending' = 0 /\ seenValues' = seenValues
      BY <1>l, <2>2 DEF l
    <3>2. l \in Seq(1 .. Len(seenBus))
      <4>1. \A k \in 1 .. Len(l) : l[k] \in 1 .. Len(seenBus)
        BY <1>2, <1>5
      <4> QED BY <1>5, <4>1
    <3>3. \A j, k \in 1 .. Len(l) : l[j] = l[k] => j = k
      <4> SUFFICES ASSUME NEW j \in 1 .. Len(l), NEW k \in 1 .. Len(l), j # k PROVE l[j] # l[k]
        OBVIOUS
      <4>1. j < k \/ k < j
        BY <1>5
      <4>2. l[j] \in Nat /\ l[k] \in Nat /\ (l[j] > l[k] \/ l[k] > l[j])
        BY <1>2, <1>5, <4>1 DEF Falling
      <4> QED BY <4>2
    <3> QED BY <1>5, <3>1, <3>2, <3>3, SeenFacts
  <2> QED BY <2>1, <2>2
<1>7. SeenTypes'
  <2>1. /\ seenBus' \in Seq(GA) /\ wire' \in Seq(1 .. Len(seenBus')) /\ latest' \in 0 .. Len(seenBus')
        /\ stale' \in BOOLEAN /\ (stale' => latest' # 0)
        /\ sel' \in SUBSET GA /\ sel' # {} /\ resend' \in SUBSET GA /\ close' \in SUBSET (1 .. Len(seenBus'))
        /\ live' \in BOOLEAN
    BY <1>1, SeenFacts
  <2>2. seenValues' \in [GA -> 0 .. Len(seenBus')] /\ seenList' \in Seq(1 .. Len(seenBus'))
    BY <1>1, <1>6
  <2> QED BY <1>3, <1>6, <2>1, <2>2, TypesKeep
<1>8. "race" \notin seenEnv.habits /\ "outage" \notin seenEnv.habits => n = latest /\ Come' = n
  <2> SUFFICES ASSUME "race" \notin seenEnv.habits, "outage" \notin seenEnv.habits PROVE n = latest /\ Come' = n
    OBVIOUS
  <2>1. i = 1 /\ n = Len(seenBus) /\ wire = <<>> /\ ~stale /\ ~stale' /\ latest' = latest
    BY <1>1
  <2>2. Len(wire) = 0 /\ latest \in Nat
    BY <2>1, SeenFacts
  <2>3. latest = Len(seenBus) - Len(wire)
    BY DEF Delivered
  <2>4. n = latest
    BY <1>2, <2>1, <2>2, <2>3
  <2> QED BY <2>1, <2>4 DEF Come
<1>9. Delivered'
  BY <1>1 DEF Delivered
<1>10. Asked'
  BY <1>1, <1>2, <1>3 DEF Asked
<1>11. Falls'
  <2> SUFFICES ASSUME {"race", "outage"} \cap seenEnv.habits = {}
               PROVE  Falling(seenList') /\ \A k \in 1 .. Len(seenList') : seenList'[k] <= latest
    BY <1>1 DEF Falls
  <2>1. CASE seenEnv.view = "values"
    BY <1>v, <2>1 DEF Falls
  <2>2. CASE seenEnv.view # "values"
    <3>1. seenList' = l
      BY <1>l, <2>2 DEF l
    <3>2. n = latest
      BY <1>8
    <3> QED BY <1>2, <1>5, <3>1, <3>2
  <2> QED BY <2>1, <2>2
<1>12. ASSUME fetches' = <<>>, "race" \notin seenEnv.habits, seenEnv.view = "values" \/ "switch" \notin seenEnv.habits
       PROVE  S = sel
  <2>1. Len(fetches) = 1 /\ i = 1 /\ fetches # <<>>
    BY <1>1, <1>2, <1>3, <1>12, EmptySeq
  <2> QED BY <1>12, <2>1 DEF Asked, S
<1>13. Valued'
  <2> SUFFICES ASSUME seenEnv.habits \subseteq {"close", "switch"}, seenEnv.view = "values", fetches' = <<>>,
                      NEW g \in sel
               PROVE  seenValues'[g] = Newest(seenBus, Come', {g})
    BY <1>1 DEF Valued
  <2>1. S = sel /\ Come' = n
    BY <1>8, <1>12
  <2>2. g \in GA
    BY SeenFacts
  <2> QED BY <1>v, <2>1, <2>2
<1>14. Enlisted'
  <2> SUFFICES ASSUME seenEnv.habits = {}, seenEnv.view = "list"
               PROVE  close' = {} /\ (fetches' = <<>> => \E m \in 0 .. Come' : Counted(m)')
    BY <1>1 DEF Enlisted
  <2>1. close' = {}
    BY <1>1 DEF Enlisted
  <2>2. ASSUME fetches' = <<>> PROVE Counted(n)'
    <3>1. S = sel /\ Come' = n
      BY <1>8, <1>12, <2>2
    <3>2. seenList' = ListOf(seenBus, n, sel) /\ pending' = 0
      BY <1>l, <3>1
    <3>3. Cardinality(Among(seenBus, n, sel) \ Among(seenBus, n, sel)) = 0
      BY FS_EmptySet
    <3> QED BY <1>1, <3>1, <3>2, <3>3 DEF Counted
  <2>3. n \in 0 .. Come' \/ fetches' # <<>>
    BY <1>2, <1>8
  <2> QED BY <2>1, <2>2, <2>3
<1>15. Len(fetches') < Len(fetches)
  BY <1>2, <1>3
<1> QED BY <1>7, <1>9, <1>10, <1>11, <1>13, <1>14, <1>15

(* Every step keeps the invariant. *)
LEMMA SeenStep == SeenInv /\ [Ls!Next]_(Ls!vars) => SeenInv'
<1> SUFFICES ASSUME SeenInv, [Ls!Next]_(Ls!vars) PROVE SeenInv'
  OBVIOUS
<1>1. CASE \E g \in GA : Ls!Arrive(g)
  BY <1>1, ArriveKeeps
<1>2. CASE \E S \in (SUBSET GA) \ {{}} : Ls!Select(S)
  BY <1>2, SelectKeeps
<1>3. CASE \E i \in DOMAIN fetches, n \in 0 .. Len(seenBus) : Ls!Answered(i, n)
  BY <1>3, AnsweredKeeps
<1>4. CASE UNCHANGED Ls!vars
  <2>1. UNCHANGED <<seenEnv, seenBus, close, wire, latest, stale, sel, seenValues, seenList, pending, live,
                    resend, fetches>>
    BY <1>4 DEF Ls!vars
  <2>2. SeenTypes' /\ Delivered' /\ Asked' /\ Falls'
    <3>1. SeenTypes'
      BY <2>1, SeenFacts, TypesKeep DEF SeenInv
    <3> QED BY <2>1, <3>1 DEF SeenInv, Delivered, Asked, Falls
  <2>3. Come' = Come /\ \A m : Counted(m) => Counted(m)'
    BY <2>1 DEF Come, Counted
  <2>4. Valued' /\ Enlisted'
    BY <2>1, <2>3 DEF SeenInv, Valued, Enlisted
  <2> QED BY <2>2, <2>4 DEF SeenInv
<1> QED BY <1>1, <1>2, <1>3, <1>4, OnMessageKeeps, RenderKeeps, ToggleLiveKeeps, SendKeeps, RefreshSoonKeeps
    DEF Ls!Next

(* What is counted is what the list is missing. *)
LEMMA MissingIs ==
  ASSUME SeenTypes, NEW m \in 0 .. Len(seenBus), seenList = ListOf(seenBus, m, sel)
  PROVE  {t \in Ls!Telegram : seenBus[t] \in sel /\ t > Ls!Max({0} \cup Ls!ToSet(seenList))}
         = Among(seenBus, Len(seenBus), sel) \ Among(seenBus, m, sel)
<1> DEFINE n == Len(seenBus)
           A == Among(seenBus, m, sel)
           T == {0} \cup Ls!ToSet(seenList)
           top == Ls!Max(T)
<1>1. n \in Nat /\ m \in Nat /\ m <= n /\ Ls!Telegram = 1 .. n
  BY SeenFacts, LenProperties DEF Ls!Telegram
<1>2. /\ Len(seenList) \in Nat /\ Falling(seenList) /\ (\A k \in 1 .. Len(seenList) : seenList[k] \in A)
      /\ \A t \in A : Len(seenList) # 0 /\ t <= seenList[1]
  <2> DEFINE l == ListOf(seenBus, m, sel)
  <2>1. Limit \in Nat \ {0}
    BY SeenFacts
  <2>2. /\ l \in Seq(1 .. m) /\ Len(l) \in Nat /\ Len(l) <= Limit /\ Falling(l)
        /\ \A k \in 1 .. Len(l) : l[k] \in Among(seenBus, m, sel)
        /\ \A t \in Among(seenBus, m, sel) : Len(l) # 0 /\ t <= l[1]
    BY <1>1, <2>1, ListOfIs
  <2>3. seenList = l
    OBVIOUS
  <2> HIDE DEF l
  <2> QED BY <2>2, <2>3
<1>3. A \in SUBSET (1 .. m) /\ \A t \in 1 .. m : t \in A <=> seenBus[t] \in sel
  BY DEF Among
<1>4. \A x : x \in T <=> x = 0 \/ \E k \in 1 .. Len(seenList) : x = seenList[k]
  <2>1. DOMAIN seenList = 1 .. Len(seenList)
    BY SeenFacts, LenProperties
  <2> QED BY <2>1 DEF Ls!ToSet
<1> HIDE DEF A, T
<1>5. top \in 0 .. m /\ (\A t \in A : t <= top) /\ (top # 0 => top \in A)
  <2>1. CASE Len(seenList) = 0
    <3>1. T = {0} /\ A = {}
      BY <1>2, <1>4, <2>1
    <3>2. top = 0
      BY <3>1, GreatestIs
    <3> QED BY <1>1, <3>1, <3>2
  <2>2. CASE Len(seenList) # 0
    <3> DEFINE f == seenList[1]
    <3>1. 1 \in 1 .. Len(seenList)
      BY <1>2, <2>2
    <3>2. f \in A /\ f \in T /\ f \in 1 .. m /\ \A t \in A : t <= f
      BY <1>2, <1>3, <1>4, <3>1
    <3>3. \A x \in T : x = 0 \/ x \in A
      BY <1>2, <1>4
    <3> HIDE DEF f
    <3>4. T \in SUBSET Nat /\ \A x \in T : x <= f
      BY <1>1, <1>3, <3>2, <3>3
    <3>5. top = f
      BY <3>2, <3>4, GreatestIs
    <3> HIDE DEF top
    <3> QED BY <1>1, <3>2, <3>5
  <2> QED BY <2>1, <2>2
<1> HIDE DEF top
<1>6. ASSUME NEW t \in 1 .. n, seenBus[t] \in sel
      PROVE  t > top <=> t \notin A
  BY <1>1, <1>3, <1>5, <1>6
<1>7. \A t : t \in Among(seenBus, n, sel) <=> t \in 1 .. n /\ seenBus[t] \in sel
  BY DEF Among
<1>8. {t \in Ls!Telegram : seenBus[t] \in sel /\ t > top} = Among(seenBus, n, sel) \ A
  <2> HIDE DEF n
  <2> QED BY <1>1, <1>6, <1>7
<1> QED BY <1>8 DEF top, T, A

(* What the run checks follows. *)
LEMMA SeenImplies == SeenInv => Ls!SeenIsTrue
<1> SUFFICES ASSUME SeenInv PROVE Ls!SeenIsTrue
  OBVIOUS
<1> USE DEF SeenInv
<1>1. ASSUME Ls!Quiet
      PROVE  /\ wire = <<>> /\ ~stale /\ fetches = <<>>
             /\ "outage" \notin seenEnv.habits => Come = Len(seenBus)
  <2>1. wire = <<>> /\ ~stale /\ fetches = <<>>
    BY <1>1 DEF Ls!Quiet
  <2>2. "outage" \notin seenEnv.habits => latest = Len(seenBus)
    <3>1. Len(wire) = 0 /\ Len(seenBus) \in Nat
      BY <2>1, SeenFacts
    <3> QED BY <3>1 DEF Delivered
  <2> QED BY <2>1, <2>2 DEF Come
<1>2. Ls!TypeOK
  BY DEF SeenTypes
<1>3. Ls!ShowsNewest
  <2> SUFFICES ASSUME seenEnv.habits \subseteq {"close", "switch"}, Ls!Quiet, seenEnv.view = "values", NEW g \in sel
               PROVE  seenValues[g] = Ls!Newest(Len(seenBus), {g})
    BY DEF Ls!ShowsNewest, Ls!ValuesCurrent
  <2>1. Come = Len(seenBus) /\ fetches = <<>>
    BY <1>1
  <2> QED BY <2>1, OfTheBus DEF Valued
<1>4. ASSUME seenEnv.habits = {}, seenEnv.view = "list", Ls!Quiet
      PROVE  \E m \in 0 .. Len(seenBus) : Counted(m) /\ Come = Len(seenBus)
  <2>1. Come = Len(seenBus) /\ fetches = <<>>
    BY <1>1, <1>4
  <2> QED BY <1>4, <2>1 DEF Enlisted
<1>5. Ls!ListComplete
  <2> SUFFICES ASSUME seenEnv.habits = {}, Ls!Quiet, seenEnv.view = "list", live
               PROVE  seenList = Ls!NewestOf(Len(seenBus), sel)
    BY DEF Ls!ListComplete, Ls!ListCurrent
  <2>1. PICK m \in 0 .. Len(seenBus) : Counted(m) /\ Come = Len(seenBus)
    BY <1>4
  <2> QED BY <2>1, OfTheBus DEF Counted
<1>6. Ls!NoDuplicates
  <2>1. DOMAIN seenList = 1 .. Len(seenList) /\ Len(seenList) \in Nat
    BY SeenFacts, LenProperties
  <2>2. \A i, k \in DOMAIN seenList : seenList[i] = seenList[k] => i = k
    BY <2>1, SeenFacts
  <2>3. ASSUME seenEnv.habits \cap {"race", "outage"} = {}, NEW i \in 1 .. Len(seenList) - 1
        PROVE  seenList[i] > seenList[i + 1]
    <3>1. i \in 1 .. Len(seenList) /\ i + 1 \in 1 .. Len(seenList) /\ i < i + 1
      BY <2>1
    <3>2. Falling(seenList)
      BY <2>3 DEF Falls
    <3> QED BY <3>1, <3>2 DEF Falling
  <2> QED BY <2>2, <2>3 DEF Ls!NoDuplicates
<1>7. Ls!CountsWhatIsMissing
  <2> SUFFICES ASSUME Ls!Quiet, seenEnv.habits = {}, seenEnv.view = "list", ~live
               PROVE  pending = Ls!Cardinality({t \in Ls!Telegram : seenBus[t] \in sel
                                                  /\ t > Ls!Max({0} \cup Ls!ToSet(seenList))})
    BY DEF Ls!CountsWhatIsMissing
  <2>1. PICK m \in 0 .. Len(seenBus) : Counted(m) /\ Come = Len(seenBus)
    BY <1>4
  <2>2. pending = Cardinality(Among(seenBus, Len(seenBus), sel) \ Among(seenBus, m, sel))
    BY <2>1 DEF Counted
  <2>3. {t \in Ls!Telegram : seenBus[t] \in sel /\ t > Ls!Max({0} \cup Ls!ToSet(seenList))}
        = Among(seenBus, Len(seenBus), sel) \ Among(seenBus, m, sel)
    BY <2>1, MissingIs DEF Counted
  <2> QED BY <2>2, <2>3, SeenCountsAlike
<1> QED BY <1>2, <1>3, <1>5, <1>6, <1>7 DEF Ls!SeenIsTrue

(* The inductive invariant of what was last seen, for any addresses, limit and
   number of telegrams (LastSeenOverlay.tsx, useLastSeenValues.ts). *)
THEOREM SeenInvariance == Ls!Sized /\ Ls!Spec => []SeenInv
BY SeenInit, SeenStep, PTL DEF Ls!Spec

(* What was last seen is true: at rest, the values and the live list are those
   of the newest telegrams, none is listed twice, and what a frozen list is
   missing is what it counts (LastSeenOverlay.tsx, useLastSeenValues.ts). *)
THEOREM SeenStaysTrue == Ls!Sized /\ Ls!Spec => []Ls!SeenIsTrue
BY SeenImplies, SeenInvariance, PTL

(* Only an answer replaces a frozen list (LastSeenOverlay.tsx). *)
THEOREM FrozenListRests == Ls!Sized /\ Ls!Spec => Ls!FrozenStays
<1>1. SeenInv /\ [Ls!Next]_(Ls!vars) => [~live /\ seenList' # seenList => Len(fetches') < Len(fetches)]_(Ls!vars)
  <2> SUFFICES ASSUME SeenInv, Ls!Next, ~live, seenList' # seenList PROVE Len(fetches') < Len(fetches)
    BY DEF Ls!vars
  <2>1. CASE Ls!Render
    <3>1. Ls!Effect(latest, sel) /\ latest \in 0 .. Len(seenBus)
      BY <2>1, SeenFacts DEF Ls!Render, SeenInv
    <3> QED BY <3>1, EffectIs DEF SeenInv
  <2>2. CASE \E S \in (SUBSET GA) \ {{}} : Ls!Select(S)
    <3>1. PICK S : Ls!Effect(latest, S)
      BY <2>2 DEF Ls!Select
    <3>2. latest \in 0 .. Len(seenBus)
      BY SeenFacts DEF SeenInv
    <3> QED BY <3>1, <3>2, EffectIs DEF SeenInv
  <2>3. CASE \E i \in DOMAIN fetches, n \in 0 .. Len(seenBus) : Ls!Answered(i, n)
    BY <2>3, AnsweredKeeps
  <2>4. CASE \/ \E g \in GA : Ls!Arrive(g)
             \/ Ls!OnMessage \/ Ls!ToggleLive \/ Ls!Send \/ Ls!RefreshSoon
    BY <2>4 DEF Ls!Arrive, Ls!OnMessage, Ls!ToggleLive, Ls!Send, Ls!RefreshSoon, Ls!shown
  <2> QED BY <2>1, <2>2, <2>3, <2>4 DEF Ls!Next
<1> QED BY <1>1, SeenInvariance, PTL DEF Ls!Spec, Ls!FrozenStays
-----------------------------------------------------------------------------
(* The import of logs, for any logs. *)
CONSTANTS Uploads, DedupWindow, PruneAfter, Day, BatchSize, MaxJobs, MaxTemps, MaxFlights, ImEnvs
VARIABLES imHabits, upload, uploading, temps, imJob, jobs, imPc, todo, pos, recent, lastPrune, imBatch, store, export,
  imShown, polling, flights

Im == INSTANCE TelegramImport WITH
  Envs <- ImEnvs, habits <- imHabits, job <- imJob, pc <- imPc, batch <- imBatch, shown <- imShown

(* It counts as the library does. *)
LEMMA ImportCountsAlike ==
  \A S : Im!Cardinality(S) = Cardinality(S) /\ (Im!IsFiniteSet(S) <=> IsFiniteSet(S))
<1>1. \A S : Im!Cardinality(S) = Cardinality(S)
  BY Zenon DEF Cardinality, Im!Cardinality
<1>2. \A S : Im!IsFiniteSet(S) = IsFiniteSet(S)
  BY DEF IsFiniteSet, Im!IsFiniteSet
<1> QED BY <1>1, <1>2

(* The places the members of an ordered finite set take, in order. *)
Arranges(at, P, R) ==
  /\ Cardinality(P) \in Nat /\ DOMAIN at = 1 .. Cardinality(P)
  /\ \A k \in 1 .. Cardinality(P) : at[k] \in P
  /\ \A i \in P : \E k \in 1 .. Cardinality(P) : at[k] = i
  /\ \A k, l \in 1 .. Cardinality(P) : k < l => <<at[k], at[l]>> \in R
  /\ \A k, l \in 1 .. Cardinality(P) : at[k] = at[l] => k = l

LEMMA OrderIs ==
  ASSUME NEW P, IsFiniteSet(P), NEW R,
         \A i \in P : <<i, i>> \notin R,
         \A i, j, k \in P : <<i, j>> \in R /\ <<j, k>> \in R => <<i, k>> \in R,
         \A i, j \in P : i = j \/ <<i, j>> \in R \/ <<j, i>> \in R
  PROVE  Arranges(Im!InOrder(P, R), P, R)
<1> DEFINE N == Cardinality(P)
           at == Im!InOrder(P, R)
           rank(i) == Rank(P, R, i)
<1>1. /\ N \in Nat
      /\ \A i \in P : rank(i) \in 0 .. N - 1
      /\ \A i, j \in P : <<i, j>> \in R => rank(i) < rank(j)
      /\ \A k \in 0 .. N - 1 : \E i \in P : rank(i) = k
  BY Ranking
<1> HIDE DEF rank
<1>2. DOMAIN at = 1 .. N
  BY ImportCountsAlike DEF Im!InOrder
<1>3. \A k \in 1 .. N : at[k] = CHOOSE i \in P : Im!Cardinality({j \in P : <<j, i>> \in R}) = k - 1
  BY ImportCountsAlike DEF Im!InOrder
<1>r. \A i \in P : Im!Cardinality({j \in P : <<j, i>> \in R}) = rank(i)
  BY ImportCountsAlike DEF rank, Rank
<1> HIDE DEF N, at
<1>4. ASSUME NEW k \in 1 .. N
      PROVE  at[k] \in P /\ rank(at[k]) = k - 1
  <2>1. k - 1 \in 0 .. N - 1
    BY <1>1
  <2>2. \E i \in P : rank(i) = k - 1
    BY <1>1, <2>1
  <2> QED BY <1>3, <1>r, <2>2
<1>5. ASSUME NEW i \in P, NEW j \in P, rank(i) = rank(j)
      PROVE  i = j
  <2>1. ~(rank(i) < rank(j)) /\ ~(rank(j) < rank(i))
    BY <1>1, <1>5
  <2> QED BY <1>1, <2>1
<1>6. ASSUME NEW i \in P
      PROVE  \E k \in 1 .. N : at[k] = i
  <2>1. rank(i) + 1 \in 1 .. N /\ (rank(i) + 1) - 1 = rank(i)
    BY <1>1
  <2>2. at[rank(i) + 1] \in P /\ rank(at[rank(i) + 1]) = rank(i)
    BY <1>4, <2>1
  <2> QED BY <1>5, <2>1, <2>2
<1>7. ASSUME NEW k \in 1 .. N, NEW l \in 1 .. N, k < l
      PROVE  <<at[k], at[l]>> \in R
  <2>1. at[k] \in P /\ at[l] \in P /\ rank(at[k]) = k - 1 /\ rank(at[l]) = l - 1
    BY <1>4
  <2>2. at[k] # at[l]
    BY <1>1, <1>7, <2>1
  <2>3. <<at[l], at[k]>> \notin R
    <3>1. SUFFICES ASSUME <<at[l], at[k]>> \in R PROVE FALSE
      OBVIOUS
    <3>2. rank(at[l]) < rank(at[k])
      BY <1>1, <2>1, <3>1
    <3>3. l - 1 < k - 1
      BY <2>1, <3>2
    <3> QED BY <1>1, <1>7, <3>3
  <2> QED BY <2>1, <2>2, <2>3
<1>8. ASSUME NEW k \in 1 .. N, NEW l \in 1 .. N, at[k] = at[l]
      PROVE  k = l
  <2>1. k - 1 = l - 1
    BY <1>4, <1>8
  <2> QED BY <1>1, <2>1
<1>9. Arranges(at, P, R)
  BY <1>1, <1>2, <1>4, <1>6, <1>7, <1>8 DEF N, Arranges
<1> QED BY <1>9 DEF at

Stored == Nat \X {r.frame : r \in Im!Records}

(* A sequence without some of its members, in the order it had. *)
Thins(c, b, P) ==
  /\ c \in Seq(Stored) /\ Len(c) <= Len(b)
  /\ \A k \in 1 .. Len(c) : \E i \in P : c[k] = b[i]
  /\ \A i \in P : \E k \in 1 .. Len(c) : c[k] = b[i]
  /\ \A k, l \in 1 .. Len(c) : k < l => \E i, j \in P : i < j /\ c[k] = b[i] /\ c[l] = b[j]

LEMMA FreshIs ==
  ASSUME NEW b \in Seq(Stored), NEW P \in SUBSET (1 .. Len(b)),
         NEW at, at = Im!Ascending(P),
         NEW c, c = [k \in DOMAIN at |-> b[at[k]]]
  PROVE  Thins(c, b, P)
<1> DEFINE R == {w \in P \X P : w[1] < w[2]}
           N == Cardinality(P)
<1>1. Len(b) \in Nat /\ IsFiniteSet(1 .. Len(b)) /\ Cardinality(1 .. Len(b)) = Len(b)
  BY LenProperties, FirstNaturals
<1>2. IsFiniteSet(P) /\ N <= Len(b)
  BY <1>1, FS_Subset
<1>4. /\ \A i \in P : <<i, i>> \notin R
      /\ \A i, j, k \in P : <<i, j>> \in R /\ <<j, k>> \in R => <<i, k>> \in R
      /\ \A i, j \in P : i = j \/ <<i, j>> \in R \/ <<j, i>> \in R
  <2>1. \A i \in P : i \in Int
    BY <1>1
  <2>2. \A i, j \in P : <<i, j>> \in R <=> i < j
    OBVIOUS
  <2> HIDE DEF R
  <2> QED BY <2>1, <2>2
<1>3. at = Im!InOrder(P, R)
  BY DEF Im!Ascending
<1>r. \A i, j \in P : <<i, j>> \in R => i < j
  OBVIOUS
<1> HIDE DEF R
<1>5. /\ N \in Nat /\ DOMAIN at = 1 .. N
      /\ \A k \in 1 .. N : at[k] \in P
      /\ \A i \in P : \E k \in 1 .. N : at[k] = i
      /\ \A k, l \in 1 .. N : k < l => <<at[k], at[l]>> \in R
  <2>a. IsFiniteSet(P)
    BY <1>2
  <2>b. Arranges(Im!InOrder(P, R), P, R)
    <3> HIDE DEF N
    <3> QED BY <2>a, <1>4, OrderIs
  <2>1. Arranges(at, P, R)
    BY <1>3, <2>b
  <2> QED BY <2>1 DEF N, Arranges
<1> HIDE DEF N
<1>6. \A k \in 1 .. N : c[k] = b[at[k]] /\ c[k] \in Stored
  <2>1. \A i \in P : b[i] \in Stored
    BY ElementOfSeq, <1>1
  <2> QED BY <1>5, <2>1
<1>7. c \in Seq(Stored) /\ Len(c) = N
  <2>1. c = [k \in 1 .. N |-> b[at[k]]]
    BY <1>5
  <2>2. \A k \in 1 .. N : b[at[k]] \in Stored
    BY <1>6
  <2> QED BY <1>5, <2>1, <2>2
<1>8. \A k \in 1 .. N : \E i \in P : c[k] = b[i]
  BY <1>5, <1>6
<1>9. \A i \in P : \E k \in 1 .. N : c[k] = b[i]
  BY <1>5, <1>6
<1>10. ASSUME NEW k \in 1 .. N, NEW l \in 1 .. N, k < l
       PROVE  \E i, j \in P : i < j /\ c[k] = b[i] /\ c[l] = b[j]
  <2>1. at[k] \in P /\ at[l] \in P /\ at[k] < at[l]
    BY <1>5, <1>10, <1>r
  <2> QED BY <1>6, <2>1
<1> QED BY <1>1, <1>2, <1>5, <1>7, <1>8, <1>9, <1>10 DEF Thins
-----------------------------------------------------------------------------
(* The inductive invariant.  The types; *)
States == {"idle", "running", "done", "failed", "cancelled"}
Jobs == [state : States, cancel : BOOLEAN, n : [Im!Counters -> Nat]]
Exports == [rows : Seq(Stored), state : {"none", "paging", "over"}]

PageTypes ==
  /\ imShown \in States /\ polling \in BOOLEAN
  /\ flights \in Seq(States) /\ Len(flights) <= MaxFlights

TaskTypes ==
  /\ imPc \in {"none", "thread", "query", "insert"} /\ (Im!Running <=> imPc # "none")
  /\ todo \in Seq(SUBSET DOMAIN upload)
  /\ imBatch \in Seq(Stored) /\ Len(imBatch) <= BatchSize
  /\ imPc = "thread" => Len(imBatch) < BatchSize
  /\ imPc = "query" => imBatch # <<>>
  /\ imPc \in {"query", "insert"} => todo # <<>>
  /\ imPc = "none" => todo = <<>>
  /\ todo = <<>> => imBatch = <<>>
  /\ imJob.state # "idle" => pos \in [DOMAIN upload -> Nat] /\ \A f \in DOMAIN upload : pos[f] <= Len(upload[f])

ImTypes ==
  /\ upload \in Uploads /\ imHabits \in SUBSET Im!Habits
  /\ uploading \in SUBSET {"page", "other"} /\ temps \in Int
  /\ imJob \in Jobs /\ jobs \in 0 .. MaxJobs
  /\ store \in Seq(Stored) /\ export \in Exports
  /\ TaskTypes /\ PageTypes

(* the temporary files, and the counters with what is still in the batch; *)
TempsRight == "fails" \in imHabits \/ temps = Cardinality(uploading) + (IF Im!Running THEN 1 ELSE 0)
Surplus(n) ==
  (n["parsed"] + n["broken"]) - (n["imported"] + n["duplicates"] + n["acks"] + n["nonGroup"] + n["errors"])
ImBooks == TempsRight /\ (imJob.state \in {"running", "done"} => Surplus(imJob.n) = Len(imBatch))
-----------------------------------------------------------------------------
LEMMA LogFacts ==
  ASSUME Im!Sized, upload \in Uploads
  PROVE  /\ upload \in Seq(Seq(Im!Records)) /\ DOMAIN upload = 1 .. Len(upload) /\ Len(upload) \in Nat
         /\ \A f \in DOMAIN upload :
              /\ upload[f] \in Seq(Im!Records) /\ DOMAIN upload[f] = 1 .. Len(upload[f]) /\ Len(upload[f]) \in Nat
              /\ \A i \in 1 .. Len(upload[f]) :
                   /\ upload[f][i] \in Im!Records /\ upload[f][i].ts \in Nat /\ upload[f][i].kind \in Im!Kinds
                   /\ <<upload[f][i].ts, upload[f][i].frame>> \in Stored
<1>1. upload \in Seq(Seq(Im!Records))
  BY DEF Im!Sized
<1>2. DOMAIN upload = 1 .. Len(upload) /\ Len(upload) \in Nat /\ \A f \in DOMAIN upload : upload[f] \in Seq(Im!Records)
  BY <1>1, LenProperties, ElementOfSeq
<1>3. ASSUME NEW f \in DOMAIN upload
      PROVE  DOMAIN upload[f] = 1 .. Len(upload[f]) /\ Len(upload[f]) \in Nat
             /\ \A i \in 1 .. Len(upload[f]) : upload[f][i] \in Im!Records
  BY <1>2, LenProperties, ElementOfSeq
<1>4. \A r \in Im!Records : r.ts \in Nat /\ r.kind \in Im!Kinds /\ <<r.ts, r.frame>> \in Stored
  BY DEF Im!Sized, Stored
<1> QED BY <1>1, <1>2, <1>3, <1>4

(* k is j with by more in the counter c. *)
CountsUp(k, j, c, by) ==
  /\ k \in Jobs /\ k.state = j.state /\ k.cancel = j.cancel
  /\ k.n[c] = j.n[c] + by /\ \A d \in Im!Counters : k.n[d] \in Nat /\ (d # c => k.n[d] = j.n[d])

LEMMA CountIs ==
  ASSUME NEW j \in Jobs, NEW c \in Im!Counters, NEW by \in Nat
  PROVE  CountsUp(Im!Count(j, c, by), j, c, by)
BY DEF Jobs, Im!Count, CountsUp

LEMMA Tally ==
  ASSUME NEW j \in Jobs, NEW k, NEW c \in Im!Counters, NEW by \in Nat, CountsUp(k, j, c, by)
  PROVE  /\ Surplus(k.n) \in Int /\ Surplus(j.n) \in Int
         /\ c \in {"parsed", "broken"} => Surplus(k.n) = Surplus(j.n) + by
         /\ c \notin {"parsed", "broken"} => Surplus(k.n) = Surplus(j.n) - by
<1> DEFINE m == k.n
           n == j.n
<1>1. /\ n["parsed"] \in Nat /\ n["imported"] \in Nat /\ n["duplicates"] \in Nat /\ n["acks"] \in Nat
      /\ n["nonGroup"] \in Nat /\ n["errors"] \in Nat /\ n["broken"] \in Nat
  BY DEF Jobs, Im!Counters
<1>2. /\ m[c] = n[c] + by /\ c \in Im!Counters
      /\ "parsed" # c => m["parsed"] = n["parsed"]
      /\ "imported" # c => m["imported"] = n["imported"]
      /\ "duplicates" # c => m["duplicates"] = n["duplicates"]
      /\ "acks" # c => m["acks"] = n["acks"]
      /\ "nonGroup" # c => m["nonGroup"] = n["nonGroup"]
      /\ "errors" # c => m["errors"] = n["errors"]
      /\ "broken" # c => m["broken"] = n["broken"]
  BY DEF CountsUp, Im!Counters
<1> HIDE DEF m, n
<1>3. CASE c = "parsed"
  BY <1>1, <1>2, <1>3 DEF Surplus, m, n
<1>4. CASE c = "broken"
  BY <1>1, <1>2, <1>4 DEF Surplus, m, n
<1>5. CASE c = "imported"
  BY <1>1, <1>2, <1>5 DEF Surplus, m, n
<1>6. CASE c = "duplicates"
  BY <1>1, <1>2, <1>6 DEF Surplus, m, n
<1>7. CASE c = "acks"
  BY <1>1, <1>2, <1>7 DEF Surplus, m, n
<1>8. CASE c = "nonGroup"
  BY <1>1, <1>2, <1>8 DEF Surplus, m, n
<1>9. CASE c = "errors"
  BY <1>1, <1>2, <1>9 DEF Surplus, m, n
<1> QED BY <1>2, <1>3, <1>4, <1>5, <1>6, <1>7, <1>8, <1>9 DEF Im!Counters

LEMMA ImInit == Im!Sized /\ Im!Init => ImTypes /\ ImBooks
<1> SUFFICES ASSUME Im!Sized, Im!Init PROVE ImTypes /\ ImBooks
  OBVIOUS
<1>1. imHabits \in SUBSET Im!Habits /\ upload \in Uploads
  BY DEF Im!Sized, Im!Init
<1>2. imJob \in Jobs /\ imJob.state = "idle" /\ ~Im!Running
  BY DEF Im!Init, Im!NoJob, Jobs, States, Im!Running
<1>3. PageTypes
  <2>1. polling \in BOOLEAN
    BY Zenon DEF Im!Init
  <2>2. flights \in Seq(States) /\ Len(flights) = 1 /\ imShown \in States
    BY DEF Im!Init, States
  <2> QED BY <2>1, <2>2 DEF Im!Sized, PageTypes
<1>4. TaskTypes
  BY <1>2 DEF Im!Init, Im!Sized, TaskTypes
<1>5. export \in Exports /\ store \in Seq(Stored)
  BY DEF Im!Init, Im!NoExport, Exports
<1>6. Cardinality(uploading) = 0 /\ temps = 0
  BY FS_EmptySet DEF Im!Init
<1> QED BY <1>1, <1>2, <1>3, <1>4, <1>5, <1>6 DEF ImTypes, ImBooks, TempsRight, Im!Init, Im!Sized
-----------------------------------------------------------------------------
(* The page sees the states of the job. *)
LEMMA AnswerTyped ==
  ASSUME Im!Sized, PageTypes, NEW s \in States, Im!Answer(s)
  PROVE  flights' \in Seq(States) /\ Len(flights') <= MaxFlights
<1>1. flights \in Seq(States) /\ Len(flights) \in Nat /\ Len(flights) < MaxFlights /\ flights' = Append(flights, s)
  BY LenProperties DEF PageTypes, Im!Answer
<1>2. flights' \in Seq(States) /\ Len(flights') = Len(flights) + 1
  BY <1>1, AppendProperties
<1> QED BY <1>1, <1>2 DEF Im!Sized

LEMMA PageKeeps ==
  ASSUME Im!Sized, PageTypes, imJob \in Jobs,
         Im!Poll \/ (\E i \in DOMAIN flights : Im!Show(i)) \/ Im!Lose \/ Im!Mount
  PROVE  /\ PageTypes'
         /\ UNCHANGED <<imHabits, upload, uploading, temps, imJob, jobs, imPc, todo, pos, recent, lastPrune, imBatch,
                        store, export>>
<1>1. imJob.state \in States
  BY DEF Jobs
<1>2. CASE Im!Poll
  BY <1>1, <1>2, AnswerTyped DEF Im!Poll, PageTypes, Im!const, Im!task
<1>3. ASSUME NEW i \in DOMAIN flights, Im!Show(i)
      PROVE  PageTypes' /\ UNCHANGED <<imHabits, upload, uploading, temps, imJob, jobs, imPc, todo, pos, recent,
                                       lastPrune, imBatch, store, export>>
  <2>1. flights \in Seq(States) /\ DOMAIN flights = 1 .. Len(flights) /\ Len(flights) \in Nat /\ flights[i] \in States
    BY LenProperties, ElementOfSeq DEF PageTypes
  <2>2. SubSeq(flights, 1, i - 1) \in Seq(States) /\ Len(SubSeq(flights, 1, i - 1)) = i - 1
    BY <2>1, SubSeqProperties
  <2>3. SubSeq(flights, i + 1, Len(flights)) \in Seq(States)
        /\ Len(SubSeq(flights, i + 1, Len(flights))) = Len(flights) - i
    BY <2>1, SubSeqProperties
  <2>4. flights' = SubSeq(flights, 1, i - 1) \o SubSeq(flights, i + 1, Len(flights))
    BY <1>3 DEF Im!Show, Im!RemoveAt
  <2>5. flights' \in Seq(States) /\ Len(flights') = Len(flights) - 1
    BY <2>1, <2>2, <2>3, <2>4, ConcatProperties
  <2>6. polling' \in BOOLEAN
    <3>1. polling' = (imShown' = "running")
      BY <1>3 DEF Im!Show, Im!PollsIn
    <3> QED BY <3>1, Zenon
  <2>7. UNCHANGED <<imHabits, upload, uploading, temps, imJob, jobs, imPc, todo, pos, recent, lastPrune, imBatch,
                    store, export>>
    BY <1>3 DEF Im!Show, Im!const, Im!task
  <2>8. imShown' = flights[i]
    BY <1>3 DEF Im!Show
  <2>9. Len(flights') <= MaxFlights
    BY <2>1, <2>5 DEF PageTypes, Im!Sized
  <2> QED BY <2>1, <2>5, <2>6, <2>7, <2>8, <2>9 DEF PageTypes
<1>4. CASE Im!Lose
  <2>1. flights' \in Seq(States) /\ Len(flights') = Len(flights) - 1 /\ Len(flights) \in Nat
    BY <1>4, HeadTailProperties, LenProperties DEF Im!Lose, PageTypes
  <2> QED BY <1>4, <2>1 DEF Im!Lose, PageTypes, Im!const, Im!task, Im!Sized
<1>5. CASE Im!Mount
  <2>1. polling' \in BOOLEAN
    BY <1>5, Zenon DEF Im!Mount
  <2>2. flights' \in Seq(States) /\ Len(flights') = 1
    BY <1>1, <1>5 DEF Im!Mount
  <2> QED BY <1>5, <2>1, <2>2 DEF Im!Mount, PageTypes, Im!const, Im!task, Im!Sized, States
<1> QED BY <1>2, <1>3, <1>4, <1>5

(* The clients whose upload is being read. *)
LEMMA OneMore ==
  ASSUME uploading \in SUBSET {"page", "other"}, NEW c
  PROVE  /\ IsFiniteSet(uploading) /\ Cardinality(uploading) \in Nat
         /\ c \notin uploading => Cardinality(uploading \cup {c}) = Cardinality(uploading) + 1
         /\ c \in uploading => Cardinality(uploading \ {c}) = Cardinality(uploading) - 1
<1>1. IsFiniteSet({"page", "other"})
  <2>1. IsFiniteSet({} \cup {"other"})
    BY FS_EmptySet, FS_AddElement
  <2>2. IsFiniteSet(({} \cup {"other"}) \cup {"page"})
    BY <2>1, FS_AddElement
  <2>3. ({} \cup {"other"}) \cup {"page"} = {"page", "other"}
    OBVIOUS
  <2> QED BY <2>2, <2>3
<1>2. IsFiniteSet(uploading)
  BY <1>1, FS_Subset
<1> QED BY <1>2, FS_CardinalityType, FS_AddElement, FS_RemoveElement

LEMMA ImTypesRest ==
  ASSUME ImTypes, UNCHANGED <<upload, imHabits, store, export, imJob, jobs, imPc, todo, pos, imBatch, imShown, polling, flights>>,
         uploading' \in SUBSET {"page", "other"}, temps' \in Int
  PROVE  ImTypes'
BY DEF ImTypes, TaskTypes, PageTypes, Im!Running

LEMMA UploadsKeep ==
  ASSUME Im!Sized, ImTypes, ImBooks, NEW c \in {"page", "other"},
         Im!BeginUpload(c) \/ Im!UploadFails(c) \/ Im!Refuse(c)
  PROVE  /\ ImTypes' /\ ImBooks'
         /\ UNCHANGED <<upload, store, imJob, imPc, todo, pos, recent, imBatch>>
<1>1. /\ uploading \in SUBSET {"page", "other"} /\ temps \in Int /\ Cardinality(uploading) \in Nat
      /\ c \notin uploading => Cardinality(uploading \cup {c}) = Cardinality(uploading) + 1
      /\ c \in uploading => Cardinality(uploading \ {c}) = Cardinality(uploading) - 1
  BY OneMore DEF ImTypes
<1>2. UNCHANGED <<upload, imHabits, store, export, imJob, jobs, imPc, todo, pos, recent, imBatch, imShown, polling, flights>>
  BY DEF Im!BeginUpload, Im!UploadFails, Im!Refuse, Im!const, Im!task, Im!page
<1>3. \/ uploading' = uploading \cup {c} /\ c \notin uploading /\ temps' = temps + 1
      \/ uploading' = uploading \ {c} /\ c \in uploading /\ temps' = temps - 1
      \/ uploading' = uploading \ {c} /\ c \in uploading /\ temps' = temps /\ "fails" \in imHabits
  BY DEF Im!BeginUpload, Im!UploadFails, Im!Refuse, Im!Unlink
<1>6. uploading' \in SUBSET {"page", "other"} /\ temps' \in Int
  <2>1. uploading' \in SUBSET {"page", "other"}
    BY <1>1, <1>3
  <2>2. temps' \in Int
    BY <1>1, <1>3
  <2> QED BY <2>1, <2>2
<1>4. ImTypes'
  BY <1>2, <1>6, ImTypesRest
<1>5. "fails" \in imHabits \/ temps' - temps = Cardinality(uploading') - Cardinality(uploading)
  <2>1. CASE uploading' = uploading \cup {c} /\ c \notin uploading /\ temps' = temps + 1
    <3>1. Cardinality(uploading') = Cardinality(uploading) + 1
      BY <1>1, <2>1
    <3> QED BY <1>1, <2>1, <3>1
  <2>2. CASE uploading' = uploading \ {c} /\ c \in uploading /\ temps' = temps - 1
    <3>1. Cardinality(uploading') = Cardinality(uploading) - 1
      BY <1>1, <2>2
    <3> QED BY <1>1, <2>2, <3>1
  <2> QED BY <1>3, <2>1, <2>2
<1>7. ImBooks'
  <2>1. TempsRight'
    <3>1. Im!Running' = Im!Running
      BY <1>2 DEF Im!Running
    <3>2. Cardinality(uploading') \in Int
      BY <1>1, <1>3
    <3> QED BY <1>1, <1>2, <1>5, <1>6, <3>1, <3>2 DEF ImBooks, TempsRight
  <2> QED BY <1>2, <2>1 DEF ImBooks
<1> QED BY <1>2, <1>4, <1>7

(* Groups of files: each of the files of one day, each file in one of them. *)
DaysOf == {Im!DayOf(f) : f \in DOMAIN upload}

LEMMA GroupsAre ==
  ASSUME Im!Sized, upload \in Uploads
  PROVE  LET g == Im!Groups
         IN /\ g \in Seq(SUBSET DOMAIN upload) /\ Len(g) \in Nat
            /\ \A i \in 1 .. Len(g) : \E d \in Int : g[i] = {f \in DOMAIN upload : Im!DayOf(f) = d}
            /\ \A i, j \in 1 .. Len(g) : i # j => g[i] \cap g[j] = {}
            /\ \A f \in DOMAIN upload : \E i \in 1 .. Len(g) : f \in g[i]
<1> DEFINE D == DaysOf
           R == {w \in D \X D : w[1] < w[2]}
           days == Im!InOrder(D, R)
           N == Cardinality(D)
           g == [i \in DOMAIN days |-> {f \in DOMAIN upload : Im!DayOf(f) = days[i]}]
<1>0. Im!Groups = g
  BY DEF Im!Groups, Im!Ascending, DaysOf
<1>1. IsFiniteSet(D)
  <2>1. DOMAIN upload = 1 .. Len(upload) /\ Len(upload) \in Nat
    BY LogFacts
  <2>2. IsFiniteSet(DOMAIN upload)
    BY <2>1, FirstNaturals
  <2>3. [f \in DOMAIN upload |-> Im!DayOf(f)] \in Surjection(DOMAIN upload, D)
    BY DEF Surjection, DaysOf
  <2> QED BY <2>2, <2>3, FS_Surjection
<1>2. D \in SUBSET Int
  <2>1. ASSUME NEW f \in DOMAIN upload PROVE Im!DayOf(f) \in Int
    <3>1. upload[f] = <<>> \/ upload[f][1].ts \in Nat
      <4>1. upload[f] \in Seq(Im!Records) /\ \A i \in 1 .. Len(upload[f]) : upload[f][i].ts \in Nat
        BY LogFacts
      <4> QED BY <4>1, EmptySeq, LenProperties
    <3> QED BY <3>1 DEF Im!DayOf, Im!Sized
  <2> QED BY <2>1 DEF DaysOf
<1>3. /\ \A i \in D : <<i, i>> \notin R
      /\ \A i, j, k \in D : <<i, j>> \in R /\ <<j, k>> \in R => <<i, k>> \in R
      /\ \A i, j \in D : i = j \/ <<i, j>> \in R \/ <<j, i>> \in R
  <2> HIDE DEF D
  <2> QED BY <1>2
<1> HIDE DEF D, R
<1>4. Arranges(days, D, R)
  BY <1>1, <1>3, OrderIs
<1> HIDE DEF days
<1>5. /\ N \in Nat /\ DOMAIN days = 1 .. N
      /\ \A k \in 1 .. N : days[k] \in D
      /\ \A d \in D : \E k \in 1 .. N : days[k] = d
      /\ \A k, l \in 1 .. N : days[k] = days[l] => k = l
  BY <1>4 DEF Arranges
<1> HIDE DEF N
<1>6. g \in Seq(SUBSET DOMAIN upload) /\ Len(g) = N /\ \A i \in 1 .. N : g[i] = {f \in DOMAIN upload : Im!DayOf(f) = days[i]}
  BY <1>5
<1> HIDE DEF g
<1>7. \A i, j \in 1 .. N : i # j => g[i] \cap g[j] = {}
  BY <1>5, <1>6
<1>8. \A f \in DOMAIN upload : \E i \in 1 .. N : f \in g[i]
  BY <1>5, <1>6 DEF D, DaysOf
<1>9. \A i \in 1 .. N : \E d \in Int : g[i] = {f \in DOMAIN upload : Im!DayOf(f) = d}
  BY <1>2, <1>5, <1>6
<1> QED BY <1>0, <1>5, <1>6, <1>7, <1>8, <1>9
-----------------------------------------------------------------------------
(* heapq.merge finds the earliest of the next records. *)
LEMMA LeftIs ==
  ASSUME Im!Sized, ImTypes, imPc # "none", todo # <<>>
  PROVE  /\ todo[1] \in SUBSET DOMAIN upload /\ pos \in [DOMAIN upload -> Nat]
         /\ \A f \in DOMAIN upload : pos[f] <= Len(upload[f])
         /\ \A f \in Im!Left : /\ f \in DOMAIN upload /\ f \in Nat /\ f \in todo[1] /\ pos[f] \in Nat
                               /\ pos[f] + 1 \in 1 .. Len(upload[f])
                               /\ Im!NextOf(f) = upload[f][pos[f] + 1]
                               /\ Im!NextOf(f).ts \in Nat /\ Im!NextOf(f).kind \in Im!Kinds
                               /\ <<Im!NextOf(f).ts, Im!NextOf(f).frame>> \in Stored
         /\ \A f \in todo[1] : f \in Im!Left \/ pos[f] = Len(upload[f])
<1>1. imJob.state # "idle" /\ todo \in Seq(SUBSET DOMAIN upload) /\ upload \in Uploads
  BY DEF ImTypes, TaskTypes, Im!Running
<1>2. pos \in [DOMAIN upload -> Nat] /\ \A f \in DOMAIN upload : pos[f] <= Len(upload[f])
  BY <1>1 DEF ImTypes, TaskTypes
<1>3. todo[1] \in SUBSET DOMAIN upload
  BY <1>1, EmptySeq, LenProperties, ElementOfSeq
<1>4. /\ DOMAIN upload \in SUBSET Nat
      /\ \A f \in DOMAIN upload :
           /\ Len(upload[f]) \in Nat
           /\ \A i \in 1 .. Len(upload[f]) :
                upload[f][i].ts \in Nat /\ upload[f][i].kind \in Im!Kinds
                /\ <<upload[f][i].ts, upload[f][i].frame>> \in Stored
  <2>1. upload \in Uploads
    BY <1>1
  <2>2. DOMAIN upload = 1 .. Len(upload) /\ Len(upload) \in Nat
    BY <2>1, LogFacts
  <2>3. ASSUME NEW f \in DOMAIN upload
        PROVE  /\ Len(upload[f]) \in Nat
               /\ \A i \in 1 .. Len(upload[f]) :
                    upload[f][i].ts \in Nat /\ upload[f][i].kind \in Im!Kinds
                    /\ <<upload[f][i].ts, upload[f][i].frame>> \in Stored
    BY <2>1, LogFacts
  <2>4. DOMAIN upload \in SUBSET Nat
    BY <2>2
  <2> QED BY <2>3, <2>4, Zenon
<1>5. ASSUME NEW f \in Im!Left
      PROVE  f \in DOMAIN upload /\ f \in todo[1] /\ pos[f] \in Nat /\ pos[f] + 1 \in 1 .. Len(upload[f])
  BY <1>2, <1>3, <1>4 DEF Im!Left
<1>6. \A f \in todo[1] : f \in Im!Left \/ pos[f] = Len(upload[f])
  BY <1>2, <1>3, <1>4 DEF Im!Left
<1> QED BY <1>2, <1>3, <1>4, <1>5, <1>6 DEF Im!NextOf

LEMMA TurnIs ==
  ASSUME Im!Sized, ImTypes, imPc # "none", todo # <<>>, Im!Left # {}
  PROVE  /\ Im!Turn \in Im!Left
         /\ \A g \in Im!Left : Im!NextOf(Im!Turn).ts < Im!NextOf(g).ts
                               \/ (Im!NextOf(Im!Turn).ts = Im!NextOf(g).ts /\ Im!Turn <= g)
<1> DEFINE L == Im!Left
           t(f) == Im!NextOf(f).ts
           T == {t(f) : f \in L}
<1>1. \A f \in L : t(f) \in Nat /\ f \in Nat
  BY LeftIs
<1> HIDE DEF L, t
<1>2. PICK m \in T : \A n \in T : m <= n
  <2>1. T \in SUBSET Nat /\ T # {}
    BY <1>1 DEF L
  <2> HIDE DEF T
  <2> QED BY <2>1, LeastNatural
<1> DEFINE F == {f \in L : t(f) = m}
<1>3. PICK x \in F : \A y \in F : x <= y
  <2>1. F \in SUBSET Nat /\ F # {}
    BY <1>1, <1>2
  <2> HIDE DEF F
  <2> QED BY <2>1, LeastNatural
<1>4. x \in L /\ \A g \in L : t(x) < t(g) \/ (t(x) = t(g) /\ x <= g)
  <2>1. ASSUME NEW g \in L PROVE t(x) < t(g) \/ (t(x) = t(g) /\ x <= g)
    <3>1. t(x) = m /\ m <= t(g) /\ m \in Nat /\ t(g) \in Nat
      BY <1>1, <1>2, <1>3
    <3>2. t(g) = m => x <= g
      BY <1>3
    <3> QED BY <3>1, <3>2
  <2> QED BY <1>3, <2>1
<1>5. Im!Turn \in L /\ \A g \in L : t(Im!Turn) < t(g) \/ (t(Im!Turn) = t(g) /\ Im!Turn <= g)
  <2>1. Im!Turn = CHOOSE f \in L : \A g \in L : t(f) < t(g) \/ (t(f) = t(g) /\ f <= g)
    BY DEF Im!Turn, L, t
  <2> QED BY <1>4, <2>1
<1> QED BY <1>5 DEF L, t

(* What the steps of the task leave alone. *)
OfTask == <<imHabits, upload, uploading, jobs, export, imShown, polling, flights>>

LEMMA TypesOfTask ==
  ASSUME ImTypes, UNCHANGED OfTask, temps' \in Int, imJob' \in Jobs, store' \in Seq(Stored), TaskTypes'
  PROVE  ImTypes'
BY DEF ImTypes, OfTask, PageTypes

ImJobSteps == imJob'.state = imJob.state /\ imJob'.cancel = imJob.cancel

LEMMA ReadKeepsTypes ==
  ASSUME Im!Sized, ImTypes, ImBooks, Im!Read
  PROVE  /\ ImTypes' /\ ImBooks'
         /\ UNCHANGED <<upload, todo, store>> /\ imJob'.state = imJob.state
<1> DEFINE T == Im!Turn
           r == Im!NextOf(T)
<1>1. imPc = "thread" /\ todo # <<>> /\ Im!Left # {}
  BY DEF Im!Read
<1>2. /\ T \in DOMAIN upload /\ pos[T] + 1 \in 1 .. Len(upload[T]) /\ pos \in [DOMAIN upload -> Nat]
      /\ \A f \in DOMAIN upload : pos[f] <= Len(upload[f])
      /\ <<r.ts, r.frame>> \in Stored /\ Len(upload[T]) \in Nat
  BY <1>1, TurnIs, LeftIs, LogFacts DEF ImTypes
<1>3. imJob \in Jobs /\ imBatch \in Seq(Stored) /\ Len(imBatch) \in Nat /\ Len(imBatch) < BatchSize
  BY <1>1, LenProperties DEF ImTypes, TaskTypes, Jobs
<1>4. UNCHANGED <<OfTask, todo, store, temps>>
  BY DEF Im!Read, OfTask, Im!const, Im!page
<1>c. /\ "parsed" \in Im!Counters /\ "imported" \in Im!Counters /\ "duplicates" \in Im!Counters /\ "acks" \in Im!Counters
      /\ "nonGroup" \in Im!Counters /\ "errors" \in Im!Counters /\ "broken" \in Im!Counters /\ 1 \in Nat
  BY DEF Im!Counters
<1>t. ImJobSteps => TempsRight'
  BY <1>4 DEF ImBooks, TempsRight, Im!Running, ImJobSteps, OfTask
<1>b. Surplus(imJob.n) = Len(imBatch) /\ Len(imBatch) \in Nat /\ imJob.state = "running"
  BY <1>1 DEF ImBooks, ImTypes, TaskTypes, Im!Running
<1>5. CASE r.kind = "broken"
  <2> DEFINE k == Im!Count(imJob, "errors", 1)
  <2>1. /\ pos' = [pos EXCEPT ![T] = Len(upload[T])] /\ UNCHANGED <<imBatch, imPc>>
        /\ imJob' = Im!Count(k, "broken", 1)
    BY <1>5 DEF Im!Read
  <2>2. CountsUp(k, imJob, "errors", 1)
    BY <1>3, <1>c, CountIs
  <2> HIDE DEF k
  <2>3. CountsUp(imJob', k, "broken", 1)
    <3>1. k \in Jobs
      BY <2>2 DEF CountsUp
    <3> QED BY <1>c, <2>1, <3>1, CountIs
  <2>4. imJob' \in Jobs /\ ImJobSteps
    BY <2>2, <2>3 DEF CountsUp, ImJobSteps
  <2>5. TaskTypes'
    <3>1. pos' \in [DOMAIN upload -> Nat] /\ \A f \in DOMAIN upload : pos'[f] <= Len(upload[f])
      BY <1>2, <2>1
    <3>2. UNCHANGED <<upload, todo, imPc, imBatch>> /\ imJob'.state = imJob.state
      BY <1>4, <2>1, <2>4 DEF OfTask, ImJobSteps
    <3> QED BY <3>1, <3>2 DEF ImTypes, TaskTypes, Im!Running
  <2>6. ImTypes'
    BY <1>4, <2>4, <2>5, TypesOfTask DEF ImTypes
  <2>7. Surplus(imJob'.n) = Len(imBatch')
    <3>1. k \in Jobs /\ Surplus(k.n) = Surplus(imJob.n) - 1 /\ Surplus(imJob.n) \in Int
      BY <1>3, <1>c, <2>2, Tally DEF CountsUp
    <3>2. Surplus(imJob'.n) = Surplus(k.n) + 1
      BY <1>c, <2>3, <3>1, Tally
    <3> QED BY <1>b, <2>1, <3>1, <3>2
  <2> QED BY <1>4, <1>t, <2>4, <2>6, <2>7 DEF OfTask, ImBooks, ImJobSteps
<1>6. CASE r.kind # "broken"
  <2> DEFINE fates == {"duplicates", "nonGroup", "acks", "errors"}
             k == Im!Count(imJob, "parsed", 1)
  <2>1. /\ pos' = [pos EXCEPT ![T] = @ + 1]
        /\ imPc' = IF Len(imBatch') = BatchSize THEN "query" ELSE imPc
        /\ \/ imBatch' = Append(imBatch, <<r.ts, r.frame>>) /\ imJob' = k
           \/ imBatch' = imBatch /\ \E fate \in fates : imJob' = Im!Count(k, fate, 1)
    BY <1>6, Zenon DEF Im!Read
  <2>2. CountsUp(k, imJob, "parsed", 1)
    BY <1>3, <1>c, CountIs
  <2> HIDE DEF k
  <2>3. pos' \in [DOMAIN upload -> Nat] /\ \A f \in DOMAIN upload : pos'[f] <= Len(upload[f])
    BY <1>2, <2>1
  <2>5. ASSUME imBatch' = Append(imBatch, <<r.ts, r.frame>>), imJob' = k
        PROVE  ImTypes' /\ ImBooks' /\ ImJobSteps
    <3>1. imBatch' \in Seq(Stored) /\ Len(imBatch') = Len(imBatch) + 1
      BY <1>2, <1>3, <2>5, AppendProperties
    <3>2. imJob' \in Jobs /\ ImJobSteps
      BY <2>2, <2>5 DEF CountsUp, ImJobSteps
    <3>3. TaskTypes'
      <4>1. imBatch' # <<>> /\ Len(imBatch') <= BatchSize
        BY <1>3, <3>1, EmptySeq DEF Im!Sized
      <4>2. imPc' \in {"thread", "query"} /\ (imPc' = "thread" => Len(imBatch') < BatchSize)
        BY <1>1, <1>3, <2>1, <4>1, <3>1 DEF Im!Sized
      <4>3. UNCHANGED <<upload, todo>> /\ imJob'.state = "running" /\ todo # <<>> /\ todo \in Seq(SUBSET DOMAIN upload)
        BY <1>1, <1>4, <1>b, <3>2 DEF OfTask, ImJobSteps, ImTypes, TaskTypes
      <4> QED BY <2>3, <3>1, <4>1, <4>2, <4>3 DEF TaskTypes, Im!Running
    <3>4. ImTypes'
      BY <1>4, <3>2, <3>3, TypesOfTask DEF ImTypes
    <3>5. Surplus(imJob'.n) = Len(imBatch')
      <4>1. Surplus(k.n) = Surplus(imJob.n) + 1
        BY <1>3, <1>c, <2>2, Tally
      <4> QED BY <1>b, <2>5, <3>1, <4>1
    <3>6. ImBooks'
      BY <1>t, <3>2, <3>5 DEF ImBooks
    <3> QED BY <3>2, <3>4, <3>6
  <2>6. ASSUME NEW fate \in fates, imBatch' = imBatch, imJob' = Im!Count(k, fate, 1)
        PROVE  ImTypes' /\ ImBooks' /\ ImJobSteps
    <3>1. fate \in Im!Counters /\ fate # "parsed" /\ fate # "broken" /\ fate # "imported"
      BY <1>c, <2>6
    <3>2. CountsUp(imJob', k, fate, 1)
      <4>1. k \in Jobs
        BY <2>2 DEF CountsUp
      <4> QED BY <1>c, <2>6, <3>1, <4>1, CountIs
    <3>3. imJob' \in Jobs /\ ImJobSteps
      BY <2>2, <3>2 DEF CountsUp, ImJobSteps
    <3>4. imPc' = imPc
      BY <1>3, <2>1, <2>6 DEF Im!Sized
    <3>5. TaskTypes'
      <4>1. UNCHANGED <<upload, todo, imPc, imBatch>> /\ imJob'.state = imJob.state
        BY <1>4, <2>6, <3>3, <3>4 DEF OfTask, ImJobSteps
      <4> QED BY <2>3, <4>1 DEF ImTypes, TaskTypes, Im!Running
    <3>6. ImTypes'
      BY <1>4, <3>3, <3>5, TypesOfTask DEF ImTypes
    <3>7. Surplus(imJob'.n) = Len(imBatch')
      <4>1. k \in Jobs /\ Surplus(k.n) = Surplus(imJob.n) + 1 /\ Surplus(imJob.n) \in Int
        BY <1>3, <1>c, <2>2, Tally DEF CountsUp
      <4>2. Surplus(imJob'.n) = Surplus(k.n) - 1
        BY <1>c, <3>1, <3>2, <4>1, Tally
      <4> QED BY <1>b, <2>6, <4>1, <4>2
    <3> QED BY <1>t, <3>3, <3>6, <3>7 DEF ImBooks
  <2>7. ImTypes' /\ ImBooks' /\ ImJobSteps
    <3>1. CASE imBatch' = Append(imBatch, <<r.ts, r.frame>>) /\ imJob' = k
      BY <2>5, <3>1
    <3>2. CASE imBatch' = imBatch /\ \E fate \in fates : imJob' = Im!Count(k, fate, 1)
      BY <2>6, <3>2
    <3> QED BY <2>1, <3>1, <3>2
  <2> QED BY <1>4, <2>7 DEF OfTask, ImJobSteps
<1> QED BY <1>5, <1>6
-----------------------------------------------------------------------------
(* The other steps of the job. *)
LEMMA StartKeepsTypes ==
  ASSUME Im!Sized, ImTypes, ImBooks, NEW c \in {"page", "other"}, Im!Start(c)
  PROVE  /\ ImTypes' /\ ImBooks'
         /\ UNCHANGED <<upload, store>> /\ imPc' = "thread" /\ imBatch' = <<>> /\ recent' = {}
         /\ todo' = Im!Groups /\ pos' = [f \in DOMAIN upload |-> 0]
<1>1. /\ c \in uploading /\ ~Im!Running /\ jobs < MaxJobs /\ uploading' = uploading \ {c}
      /\ imJob' = [Im!NoJob EXCEPT !.state = "running"] /\ jobs' = jobs + 1
      /\ imPc' = "thread" /\ todo' = Im!Groups /\ pos' = [f \in DOMAIN upload |-> 0]
      /\ recent' = {} /\ imBatch' = <<>>
      /\ UNCHANGED <<imHabits, upload, temps, store, export, imShown, polling>>
      /\ (IF c = "page" THEN Im!Answer("running") ELSE UNCHANGED flights)
  BY DEF Im!Start, Im!const
<1>2. PageTypes'
  <2>1. CASE c = "page"
    <3>1. "running" \in States /\ PageTypes
      BY DEF States, ImTypes
    <3>2. Im!Answer("running")
      BY <1>1, <2>1
    <3>3. flights' \in Seq(States) /\ Len(flights') <= MaxFlights
      BY <3>1, <3>2, AnswerTyped
    <3> QED BY <1>1, <3>1, <3>3 DEF PageTypes
  <2>2. CASE c # "page"
    BY <1>1, <2>2 DEF PageTypes, ImTypes
  <2> QED BY <2>1, <2>2
<1>3. imJob' \in Jobs /\ imJob'.state = "running" /\ imJob'.n = [d \in Im!Counters |-> 0]
  BY <1>1 DEF Im!NoJob, Jobs, States
<1>4. TaskTypes'
  <2>1. todo' \in Seq(SUBSET DOMAIN upload) /\ upload \in Uploads
    BY <1>1, GroupsAre DEF ImTypes
  <2>2. pos' \in [DOMAIN upload' -> Nat] /\ \A f \in DOMAIN upload' : pos'[f] <= Len(upload'[f])
    BY <1>1, <2>1, LogFacts
  <2>3. imBatch' \in Seq(Stored) /\ Len(imBatch') < BatchSize /\ Len(imBatch') <= BatchSize
    BY <1>1 DEF Im!Sized
  <2> QED BY <1>1, <1>3, <2>1, <2>2, <2>3 DEF TaskTypes, Im!Running
<1>5. ImTypes'
  BY <1>1, <1>2, <1>3, <1>4 DEF ImTypes, Im!Sized
<1>6. ImBooks'
  <2>1. Surplus(imJob'.n) = Len(imBatch')
    BY <1>1, <1>3 DEF Surplus, Im!Counters
  <2>2. Cardinality(uploading') = Cardinality(uploading) - 1 /\ Cardinality(uploading) \in Nat
    BY <1>1, OneMore DEF ImTypes
  <2>3. TempsRight'
    BY <1>1, <1>3, <2>2 DEF ImBooks, TempsRight, Im!Running, ImTypes
  <2> QED BY <2>1, <2>3 DEF ImBooks
<1> QED BY <1>1, <1>5, <1>6

LEMMA CancelKeepsTypes ==
  ASSUME Im!Sized, ImTypes, ImBooks, Im!Cancel
  PROVE  /\ ImTypes' /\ ImBooks' /\ imJob'.state = imJob.state
         /\ UNCHANGED <<upload, uploading, store, export, imPc, todo, pos, recent, imBatch>>
<1>1. /\ imJob' = (IF Im!Running THEN [imJob EXCEPT !.cancel = TRUE] ELSE imJob) /\ Im!Answer(imJob.state)
      /\ UNCHANGED <<imHabits, upload, uploading, temps, jobs, imPc, todo, pos, recent, imBatch, store, export, imShown, polling>>
  BY DEF Im!Cancel, Im!const, Im!task
<1>2. imJob' \in Jobs /\ imJob'.state = imJob.state /\ imJob'.n = imJob.n
  BY <1>1 DEF ImTypes, Jobs
<1>3. PageTypes'
  <2>1. imJob.state \in States /\ PageTypes
    BY DEF ImTypes, Jobs
  <2> QED BY <1>1, <2>1, AnswerTyped DEF PageTypes
<1>4. TaskTypes'
  BY <1>1, <1>2 DEF ImTypes, TaskTypes, Im!Running
<1>5. ImTypes'
  BY <1>1, <1>2, <1>3, <1>4 DEF ImTypes
<1>6. ImBooks'
  BY <1>1, <1>2 DEF ImBooks, TempsRight, Im!Running
<1> QED BY <1>1, <1>2, <1>5, <1>6

LEMMA EndOfGroupKeepsTypes ==
  ASSUME Im!Sized, ImTypes, ImBooks, Im!EndOfGroup
  PROVE  ImTypes' /\ ImBooks' /\ UNCHANGED <<upload, imJob, store>>
<1>1. /\ imPc = "thread" /\ todo # <<>>
      /\ UNCHANGED <<imHabits, upload, uploading, temps, imJob, jobs, pos, imBatch, store, export, imShown, polling, flights>>
      /\ \/ imBatch # <<>> /\ imPc' = "query" /\ todo' = todo
         \/ imBatch = <<>> /\ imPc' = "thread" /\ todo' = Tail(todo)
  BY DEF Im!EndOfGroup, Im!const, Im!page
<1>2. todo \in Seq(SUBSET DOMAIN upload) /\ Tail(todo) \in Seq(SUBSET DOMAIN upload)
  BY <1>1, HeadTailProperties DEF ImTypes, TaskTypes
<1>3. TaskTypes'
  <2>1. CASE imBatch # <<>> /\ imPc' = "query" /\ todo' = todo
    BY <1>1, <2>1 DEF ImTypes, TaskTypes, Im!Running
  <2>2. CASE imBatch = <<>> /\ imPc' = "thread" /\ todo' = Tail(todo)
    BY <1>1, <1>2, <2>2 DEF ImTypes, TaskTypes, Im!Running
  <2> QED BY <1>1, <2>1, <2>2
<1>4. ImTypes'
  <2>1. UNCHANGED OfTask /\ temps' \in Int /\ imJob' \in Jobs /\ store' \in Seq(Stored)
    BY <1>1 DEF OfTask, ImTypes
  <2> QED BY <1>3, <2>1, TypesOfTask
<1>5. ImBooks'
  BY <1>1 DEF ImBooks, TempsRight, Im!Running
<1> QED BY <1>1, <1>4, <1>5

(* A job that ends. *)
LEMMA FinishKeepsTypes ==
  ASSUME Im!Sized, ImTypes, TempsRight, imPc # "none", NEW j \in Jobs, NEW end \in {"done", "failed", "cancelled"},
         Im!Finish(j, end), UNCHANGED OfTask, UNCHANGED pos, store' \in Seq(Stored),
         end = "done" => Surplus(j.n) = 0
  PROVE  ImTypes' /\ ImBooks'
<1>1. imJob' = [j EXCEPT !.state = end] /\ imPc' = "none" /\ todo' = <<>> /\ imBatch' = <<>> /\ temps' = temps - 1
  BY DEF Im!Finish
<1>2. imJob' \in Jobs /\ imJob'.state = end /\ imJob'.n = j.n
  BY <1>1 DEF Jobs, States
<1>3. TaskTypes'
  <2>1. imJob.state = "running"
    BY DEF ImTypes, TaskTypes, Im!Running
  <2>2. pos \in [DOMAIN upload -> Nat] /\ \A f \in DOMAIN upload : pos[f] <= Len(upload[f])
    BY <2>1 DEF ImTypes, TaskTypes
  <2>3. imBatch' \in Seq(Stored) /\ Len(imBatch') = 0
    BY <1>1
  <2> QED BY <1>1, <1>2, <2>2, <2>3 DEF TaskTypes, Im!Running, OfTask, Im!Sized
<1>4. temps' \in Int
  BY <1>1 DEF ImTypes
<1>5. ImTypes'
  BY <1>2, <1>3, <1>4, TypesOfTask
<1>6. TempsRight'
  <2>1. Cardinality(uploading) \in Nat /\ temps \in Int
    BY OneMore DEF ImTypes
  <2>2. Im!Running /\ ~Im!Running'
    BY <1>2 DEF ImTypes, TaskTypes, Im!Running
  <2> QED BY <1>1, <2>1, <2>2 DEF TempsRight, OfTask
<1>7. imJob'.state \in {"running", "done"} => Surplus(imJob'.n) = Len(imBatch')
  <2>1. Len(imBatch') = 0
    BY <1>1
  <2> QED BY <1>2, <2>1
<1> QED BY <1>5, <1>6, <1>7 DEF ImBooks

LEMMA EndsKeepTypes ==
  ASSUME Im!Sized, ImTypes, ImBooks, Im!StopThread \/ Im!Done \/ Im!Fail
  PROVE  ImTypes' /\ ImBooks' /\ UNCHANGED <<upload, store, pos>>
<1>1. imPc # "none" /\ UNCHANGED OfTask /\ UNCHANGED <<upload, store, pos>> /\ imJob \in Jobs /\ store' \in Seq(Stored)
  BY DEF Im!StopThread, Im!Done, Im!Fail, OfTask, Im!const, Im!page, ImTypes
<1>2. \/ Im!Finish(imJob, "cancelled") \/ Im!Finish(imJob, "failed")
      \/ Im!Finish(imJob, "done") /\ todo = <<>>
  BY DEF Im!StopThread, Im!Done, Im!Fail
<1>3. todo = <<>> => Surplus(imJob.n) = 0
  <2>1. imJob.state = "running" /\ (todo = <<>> => imBatch = <<>>)
    BY <1>1 DEF ImTypes, TaskTypes, Im!Running
  <2> QED BY <2>1 DEF ImBooks
<1>4. TempsRight
  BY DEF ImBooks
<1> QED BY <1>1, <1>2, <1>3, <1>4, FinishKeepsTypes

LEMMA QueryKeepsTypes ==
  ASSUME Im!Sized, ImTypes, ImBooks, Im!Query
  PROVE  /\ ImTypes' /\ ImBooks' /\ UNCHANGED <<upload, todo, store, pos, recent>>
         /\ imJob'.state = imJob.state
<1> DEFINE P == {i \in DOMAIN imBatch : imBatch[i] \notin Im!Existing}
           at == Im!Ascending(P)
           by == Len(imBatch) - Len(imBatch')
<1>1. /\ imPc = "query" /\ imPc' = "insert" /\ imBatch' = [k \in DOMAIN at |-> imBatch[at[k]]]
      /\ imJob' = Im!Count(imJob, "duplicates", by) /\ UNCHANGED <<OfTask, temps, todo, store, pos, recent>>
  BY DEF Im!Query, OfTask, Im!const, Im!page, Im!Skipped
<1>2. imBatch \in Seq(Stored) /\ imJob \in Jobs /\ Len(imBatch) \in Nat /\ P \in SUBSET (1 .. Len(imBatch))
      /\ Len(imBatch) <= BatchSize /\ todo # <<>>
  BY <1>1, LenProperties DEF ImTypes, TaskTypes
<1> HIDE DEF P
<1>3. imBatch' \in Seq(Stored) /\ Len(imBatch') <= Len(imBatch)
  <2> HIDE DEF at
  <2>1. at = Im!Ascending(P)
    BY DEF at
  <2>2. Thins(imBatch', imBatch, P)
    BY <1>1, <1>2, <2>1, FreshIs
  <2> QED BY <2>2 DEF Thins
<1>4. Len(imBatch') \in Nat /\ by \in Nat
  BY <1>2, <1>3, LenProperties
<1> HIDE DEF at, by
<1>5. "duplicates" \in Im!Counters /\ CountsUp(imJob', imJob, "duplicates", by)
  <2>1. "duplicates" \in Im!Counters
    BY DEF Im!Counters
  <2> QED BY <1>1, <1>2, <1>4, <2>1, CountIs
<1>6. imJob' \in Jobs /\ imJob'.state = imJob.state
  BY <1>5 DEF CountsUp
<1>7. TaskTypes'
  BY <1>1, <1>2, <1>3, <1>4, <1>6 DEF ImTypes, TaskTypes, OfTask, Im!Running, Im!Sized
<1>8. ImTypes'
  BY <1>1, <1>6, <1>7, TypesOfTask DEF ImTypes
<1>9. Surplus(imJob'.n) = Len(imBatch')
  <2>1. Surplus(imJob.n) \in Int /\ Surplus(imJob'.n) = Surplus(imJob.n) - by
    BY <1>2, <1>4, <1>5, Tally
  <2>2. Surplus(imJob.n) = Len(imBatch)
    BY <1>1 DEF ImBooks, ImTypes, TaskTypes, Im!Running
  <2> QED BY <1>2, <1>4, <2>1, <2>2 DEF by
<1>10. TempsRight'
  BY <1>1, <1>6 DEF ImBooks, TempsRight, Im!Running, OfTask
<1> QED BY <1>1, <1>6, <1>8, <1>9, <1>10 DEF ImBooks, OfTask

LEMMA InsertKeepsTypes ==
  ASSUME Im!Sized, ImTypes, ImBooks, Im!Insert
  PROVE  ImTypes' /\ ImBooks' /\ UNCHANGED <<upload, pos>> /\ store' = store \o imBatch
<1> DEFINE k == Im!Count(imJob, "imported", Len(imBatch))
<1>1. /\ imPc = "insert" /\ store' = store \o imBatch /\ UNCHANGED <<OfTask, pos, recent>>
      /\ \/ Im!Finish(k, "cancelled")
         \/ imJob' = k /\ imPc' = "thread" /\ imBatch' = <<>> /\ UNCHANGED <<temps, todo>>
  BY DEF Im!Insert, OfTask, Im!const, Im!page
<1>2. /\ store \in Seq(Stored) /\ imBatch \in Seq(Stored) /\ Len(imBatch) \in Nat /\ imJob \in Jobs
      /\ todo # <<>> /\ todo \in Seq(SUBSET DOMAIN upload) /\ temps \in Int
      /\ imJob.state = "running" /\ Surplus(imJob.n) = Len(imBatch)
  BY <1>1, LenProperties DEF ImTypes, TaskTypes, ImBooks, Im!Running
<1>3. store' \in Seq(Stored)
  BY <1>1, <1>2, ConcatProperties
<1>4. "imported" \in Im!Counters /\ CountsUp(k, imJob, "imported", Len(imBatch))
  <2>1. "imported" \in Im!Counters
    BY DEF Im!Counters
  <2> QED BY <1>2, <2>1, CountIs
<1> HIDE DEF k
<1>5. k \in Jobs /\ k.state = "running" /\ Surplus(k.n) = 0
  <2>1. k \in Jobs /\ k.state = "running"
    BY <1>2, <1>4 DEF CountsUp
  <2>2. Surplus(k.n) = Surplus(imJob.n) - Len(imBatch)
    BY <1>2, <1>4, Tally
  <2> QED BY <1>2, <2>1, <2>2
<1>6. TempsRight
  BY DEF ImBooks
<1>7. CASE Im!Finish(k, "cancelled")
  BY <1>1, <1>3, <1>5, <1>6, <1>7, FinishKeepsTypes DEF OfTask
<1>8. CASE imJob' = k /\ imPc' = "thread" /\ imBatch' = <<>> /\ UNCHANGED <<temps, todo>>
  <2>1. imBatch' \in Seq(Stored) /\ Len(imBatch') < BatchSize /\ Len(imBatch') <= BatchSize
    BY <1>8 DEF Im!Sized
  <2>2. pos' \in [DOMAIN upload' -> Nat] /\ \A f \in DOMAIN upload' : pos'[f] <= Len(upload'[f])
    BY <1>1, <1>2 DEF ImTypes, TaskTypes, OfTask
  <2>3. TaskTypes'
    BY <1>1, <1>2, <1>5, <1>8, <2>1, <2>2 DEF TaskTypes, OfTask, Im!Running
  <2>4. ImTypes'
    BY <1>1, <1>2, <1>3, <1>5, <1>8, <2>3, TypesOfTask
  <2>5. ImBooks'
    <3> Len(imBatch') = 0
      BY <1>8
    <3> QED BY <1>1, <1>2, <1>5, <1>6, <1>8 DEF ImBooks, TempsRight, Im!Running, OfTask
  <2> QED BY <1>1, <2>4, <2>5 DEF OfTask
<1> QED BY <1>1, <1>7, <1>8
-----------------------------------------------------------------------------
(* The rows of an export: the store, in order of time. *)
LEMMA RowsAre ==
  ASSUME store \in Seq(Stored)
  PROVE  /\ Im!Rows \in Seq(Stored) /\ Len(Im!Rows) = Len(store) /\ Len(store) \in Nat
         /\ \A k \in 1 .. Len(store) : \E i \in 1 .. Len(store) : Im!Rows[k] = store[i]
         /\ \A i \in 1 .. Len(store) : \E k \in 1 .. Len(store) : Im!Rows[k] = store[i]
         /\ \A k, l \in 1 .. Len(store) : k < l => Im!Rows[k][1] <= Im!Rows[l][1]
<1> DEFINE at == DOMAIN store
           R == {w \in at \X at : store[w[1]][1] < store[w[2]][1] \/ (store[w[1]][1] = store[w[2]][1] /\ w[1] < w[2])}
           order == Im!InOrder(at, R)
           rows == [k \in at |-> store[order[k]]]
           N == Len(store)
<1>0. Im!Rows = rows
  BY DEF Im!Rows
<1>1. N \in Nat /\ at = 1 .. N /\ IsFiniteSet(at) /\ Cardinality(at) = N
  BY LenProperties, FirstNaturals
<1>2. \A i \in 1 .. N : store[i] \in Stored /\ store[i][1] \in Nat
  BY <1>1, ElementOfSeq DEF Stored
<1>3. \A i, j \in at : <<i, j>> \in R <=> store[i][1] < store[j][1] \/ (store[i][1] = store[j][1] /\ i < j)
  OBVIOUS
<1> HIDE DEF R, N
<1>4. /\ \A i \in at : <<i, i>> \notin R
      /\ \A i, j, k \in at : <<i, j>> \in R /\ <<j, k>> \in R => <<i, k>> \in R
      /\ \A i, j \in at : i = j \/ <<i, j>> \in R \/ <<j, i>> \in R
  <2> DEFINE t(i) == store[i][1]
  <2>1. \A i \in at : t(i) \in Nat /\ i \in Nat
    BY <1>1, <1>2
  <2>2. \A i, j \in at : <<i, j>> \in R <=> t(i) < t(j) \/ (t(i) = t(j) /\ i < j)
    BY <1>3
  <2> HIDE DEF t, at
  <2> QED BY <2>1, <2>2
<1>5. Arranges(order, at, R)
  <2> HIDE DEF at
  <2> QED BY <1>1, <1>4, OrderIs
<1> HIDE DEF order
<1>6. /\ DOMAIN order = 1 .. N
      /\ \A k \in 1 .. N : order[k] \in 1 .. N
      /\ \A i \in 1 .. N : \E k \in 1 .. N : order[k] = i
      /\ \A k, l \in 1 .. N : k < l => <<order[k], order[l]>> \in R
  BY <1>1, <1>5 DEF Arranges
<1>7. rows = [k \in 1 .. N |-> store[order[k]]] /\ \A k \in 1 .. N : rows[k] = store[order[k]] /\ rows[k] \in Stored
  BY <1>1, <1>2, <1>6
<1> HIDE DEF rows, at
<1>8. rows \in Seq(Stored) /\ Len(rows) = N
  BY <1>1, <1>7
<1>9. \A k \in 1 .. N : \E i \in 1 .. N : rows[k] = store[i]
  BY <1>6, <1>7
<1>10. \A i \in 1 .. N : \E k \in 1 .. N : rows[k] = store[i]
  BY <1>6, <1>7
<1>11. ASSUME NEW k \in 1 .. N, NEW l \in 1 .. N, k < l
       PROVE  rows[k][1] <= rows[l][1]
  <2>1. order[k] \in 1 .. N /\ order[l] \in 1 .. N /\ <<order[k], order[l]>> \in R
    BY <1>6, <1>11
  <2>2. store[order[k]][1] < store[order[l]][1] \/ store[order[k]][1] = store[order[l]][1]
    BY <1>1, <1>3, <2>1
  <2>3. store[order[k]][1] <= store[order[l]][1]
    BY <1>2, <2>1, <2>2
  <2> QED BY <1>7, <2>3
<1> QED BY <1>0, <1>1, <1>8, <1>9, <1>10, <1>11 DEF N

(* an export runs alone, and has handed out the first of the rows. *)
ImExports ==
  /\ export.state = "none" => export.rows = <<>>
  /\ export.state # "none" =>
       /\ ~Im!Running /\ uploading = {}
       /\ Len(export.rows) <= Len(store) /\ \A k \in 1 .. Len(export.rows) : export.rows[k] = Im!Rows[k]
  /\ export.state = "over" => Len(export.rows) = Len(store)

LEMMA PagesOn ==
  ASSUME Im!Sized, ImTypes, ImExports, Im!ExportPage
  PROVE  export' \in Exports /\ ImExports'
<1> DEFINE rows == Im!Rows
           a == Len(export.rows)
           b == Im!Min({a + BatchSize, Len(rows)})
           chunk == SubSeq(rows, a + 1, b)
<1>1. /\ export.state = "paging"
      /\ export' = [rows |-> export.rows \o chunk,
                    state |-> IF Len(chunk) = BatchSize /\ a < Len(rows) THEN "paging" ELSE "over"]
      /\ UNCHANGED <<imJob, uploading, store>>
  BY DEF Im!ExportPage, Im!Offset
<1>2. rows \in Seq(Stored) /\ Len(rows) = Len(store) /\ Len(store) \in Nat
  BY RowsAre DEF ImTypes
<1>3. /\ export.rows \in Seq(Stored) /\ a \in Nat /\ a <= Len(rows) /\ BatchSize \in Nat /\ BatchSize > 0
      /\ ~Im!Running /\ uploading = {} /\ \A k \in 1 .. a : export.rows[k] = rows[k]
  BY <1>1, <1>2, LenProperties DEF ImTypes, Exports, ImExports, Im!Sized
<1>u. rows' = rows
  BY <1>1 DEF Im!Rows
<1> HIDE DEF rows, a
<1>4. b \in Nat /\ a <= b /\ b <= Len(rows) /\ (b = a + BatchSize \/ b = Len(rows))
  <2>1. b = CHOOSE x \in {a + BatchSize, Len(rows)} : \A y \in {a + BatchSize, Len(rows)} : x <= y
    BY DEF Im!Min
  <2>2. \E x \in {a + BatchSize, Len(rows)} : \A y \in {a + BatchSize, Len(rows)} : x <= y
    BY <1>2, <1>3
  <2>3. b \in {a + BatchSize, Len(rows)} /\ b <= a + BatchSize /\ b <= Len(rows)
    BY <2>1, <2>2
  <2> QED BY <1>2, <1>3, <2>3
<1> HIDE DEF b
<1>5. chunk \in Seq(Stored) /\ Len(chunk) = b - a /\ \A k \in 1 .. b - a : chunk[k] = rows[a + k]
  <2>1. a + 1 \in 1 .. Len(rows) + 1 /\ b \in (a + 1) - 1 .. Len(rows)
    BY <1>2, <1>3, <1>4
  <2>2. chunk \in Seq(Stored) /\ Len(chunk) = b - (a + 1) + 1
        /\ \A k \in 1 .. b - (a + 1) + 1 : chunk[k] = rows[(a + 1) + k - 1]
    BY <1>2, <2>1, SubSeqProperties
  <2>3. b - (a + 1) + 1 = b - a /\ \A k \in 1 .. b - a : (a + 1) + k - 1 = a + k
    BY <1>3, <1>4
  <2> QED BY <2>2, <2>3
<1> HIDE DEF chunk
<1>6. /\ export.rows \o chunk \in Seq(Stored) /\ Len(export.rows \o chunk) = b
      /\ \A k \in 1 .. b : (export.rows \o chunk)[k] = rows[k]
  <2>1. /\ export.rows \o chunk \in Seq(Stored) /\ Len(export.rows \o chunk) = a + (b - a)
        /\ \A k \in 1 .. a + (b - a) :
             (export.rows \o chunk)[k] = IF k <= a THEN export.rows[k] ELSE chunk[k - a]
    BY <1>3, <1>4, <1>5, ConcatProperties DEF a
  <2>2. a + (b - a) = b
    BY <1>3, <1>4
  <2>3. ASSUME NEW k \in 1 .. b PROVE (export.rows \o chunk)[k] = rows[k]
    <3>1. CASE k <= a
      BY <1>3, <1>4, <2>1, <2>2, <3>1
    <3>2. CASE ~(k <= a)
      <4>1. k - a \in 1 .. b - a /\ a + (k - a) = k
        BY <1>3, <1>4, <3>2
      <4> QED BY <1>5, <2>1, <2>2, <3>2, <4>1
    <3> QED BY <3>1, <3>2
  <2> QED BY <2>1, <2>2, <2>3
<1>7. export'.rows = export.rows \o chunk /\ export' \in Exports /\ export'.state \in {"paging", "over"}
      /\ (export'.state = "over" => b = Len(rows))
  <2>1. export'.rows = export.rows \o chunk /\ export' \in Exports /\ export'.state \in {"paging", "over"}
        /\ (export'.state = "over" => ~(Len(chunk) = BatchSize /\ a < Len(rows)))
    BY <1>1, <1>6 DEF Exports
  <2>2. ~(Len(chunk) = BatchSize /\ a < Len(rows)) => b = Len(rows)
    BY <1>2, <1>3, <1>4, <1>5
  <2> QED BY <2>1, <2>2
<1>8. ~Im!Running' /\ uploading' = {} /\ store' = store
  BY <1>1, <1>3 DEF Im!Running
<1> QED BY <1>2, <1>4, <1>6, <1>7, <1>8, <1>u DEF ImExports, rows

LEMMA ExportsRest ==
  ASSUME ImExports, UNCHANGED export, export.state # "none" => UNCHANGED <<store, uploading>> /\ imJob'.state = imJob.state
  PROVE  ImExports'
<1>1. CASE export.state = "none"
  BY <1>1 DEF ImExports
<1>2. CASE export.state # "none"
  <2>1. Im!Rows' = Im!Rows
    BY <1>2 DEF Im!Rows
  <2> QED BY <1>2, <2>1 DEF ImExports, Im!Running
<1> QED BY <1>1, <1>2

LEMMA ExportsKeepTypes ==
  ASSUME Im!Sized, ImTypes, ImBooks, ImExports, Im!BeginExport \/ Im!ExportPage \/ Im!EndExport
  PROVE  /\ ImTypes' /\ ImBooks' /\ ImExports'
         /\ UNCHANGED <<imHabits, upload, uploading, temps, imJob, jobs, imPc, todo, pos, recent, lastPrune, imBatch, store,
                        imShown, polling, flights>>
<1>1. UNCHANGED <<imHabits, upload, uploading, temps, imJob, jobs, imPc, todo, pos, recent, lastPrune, imBatch, store,
                  imShown, polling, flights>>
  BY DEF Im!BeginExport, Im!ExportPage, Im!EndExport, Im!const, Im!task, Im!page
<1>2. CASE Im!BeginExport
  <2>1. export \in Exports /\ store \in Seq(Stored) /\ Len(store) \in Nat
    BY LenProperties DEF ImTypes
  <2>2. /\ export'.state = "paging" /\ export'.rows = <<>> /\ Len(export'.rows) = 0 /\ export' \in Exports
        /\ ~Im!Running /\ uploading = {}
    BY <1>2, <2>1 DEF Im!BeginExport, Im!NoExport, Exports
  <2> QED BY <1>1, <2>1, <2>2 DEF ImExports, Im!Running, ImTypes, ImBooks, TaskTypes, PageTypes, TempsRight
<1>3. CASE Im!ExportPage
  BY <1>1, <1>3, PagesOn DEF Im!Running, ImTypes, ImBooks, TaskTypes, PageTypes, TempsRight
<1>4. CASE Im!EndExport
  <2>1. export' \in Exports /\ export'.state = "none" /\ export'.rows = <<>>
    BY <1>4 DEF Im!EndExport, Im!NoExport, Exports
  <2> QED BY <1>1, <2>1 DEF ImExports, Im!Running, ImTypes, ImBooks, TaskTypes, PageTypes, TempsRight
<1> QED BY <1>1, <1>2, <1>3, <1>4
-----------------------------------------------------------------------------
ImAccounts == ImTypes /\ ImBooks /\ ImExports

LEMMA ImAccountsStep ==
  ASSUME Im!Sized, ImAccounts, [Im!Next]_Im!vars
  PROVE  ImAccounts'
<1> USE DEF ImAccounts
<1>1. ASSUME NEW c \in {"page", "other"}, Im!BeginUpload(c) \/ Im!UploadFails(c) \/ Im!Refuse(c) PROVE ImAccounts'
  <2>1. ImTypes' /\ ImBooks' /\ UNCHANGED <<store, imJob, export>>
    BY <1>1, UploadsKeep DEF Im!BeginUpload, Im!UploadFails, Im!Refuse
  <2>2. export.state # "none" => UNCHANGED uploading
    BY <1>1 DEF Im!BeginUpload, Im!UploadFails, Im!Refuse, Im!NoExport, ImExports
  <2> QED BY <2>1, <2>2, ExportsRest
<1>2. ASSUME NEW c \in {"page", "other"}, Im!Start(c) PROVE ImAccounts'
  <2>1. ImTypes' /\ ImBooks' /\ UNCHANGED export /\ export.state = "none"
    BY <1>2, StartKeepsTypes DEF Im!Start, ImExports
  <2> QED BY <2>1 DEF ImExports
<1>3. CASE Im!Cancel
  BY <1>3, CancelKeepsTypes, ExportsRest
<1>4. ASSUME Im!TaskStep \/ Im!Fail PROVE ImAccounts'
  <2>1. ImTypes' /\ ImBooks'
    BY <1>4, ReadKeepsTypes, EndOfGroupKeepsTypes, EndsKeepTypes, QueryKeepsTypes, InsertKeepsTypes DEF Im!TaskStep
  <2>2. imPc # "none" /\ UNCHANGED export
    BY <1>4 DEF Im!TaskStep, Im!Read, Im!EndOfGroup, Im!StopThread, Im!Done, Im!Query, Im!Insert, Im!Fail
  <2>3. export.state = "none"
    BY <2>2 DEF ImTypes, TaskTypes, ImExports
  <2> QED BY <2>1, <2>2, <2>3 DEF ImExports
<1>5. ASSUME Im!PageStep \/ Im!Lose \/ Im!Mount PROVE ImAccounts'
  <2>1. /\ PageTypes'
        /\ UNCHANGED <<imHabits, upload, uploading, temps, imJob, jobs, imPc, todo, pos, recent, lastPrune, imBatch,
                       store, export>>
    BY <1>5, PageKeeps DEF Im!PageStep, ImTypes
  <2>2. ImTypes' /\ ImBooks'
    BY <2>1 DEF ImTypes, ImBooks, TaskTypes, TempsRight, Im!Running
  <2> QED BY <2>1, <2>2, ExportsRest
<1>6. CASE Im!BeginExport \/ Im!ExportPage \/ Im!EndExport
  BY <1>6, ExportsKeepTypes
<1>7. CASE UNCHANGED Im!vars
  <2>1. UNCHANGED <<imHabits, upload, uploading, temps, imJob, jobs, imPc, todo, pos, recent, lastPrune, imBatch,
                    store, export, imShown, polling, flights>>
    BY <1>7 DEF Im!vars, Im!const, Im!task, Im!page
  <2>2. ImTypes' /\ ImBooks'
    BY <2>1 DEF ImTypes, ImBooks, TaskTypes, PageTypes, TempsRight, Im!Running
  <2> QED BY <2>1, <2>2, ExportsRest
<1> QED BY <1>1, <1>2, <1>3, <1>4, <1>5, <1>6, <1>7 DEF Im!Next

LEMMA ImAccountsInit == Im!Sized /\ Im!Init => ImAccounts
<1> SUFFICES ASSUME Im!Sized, Im!Init PROVE ImAccounts
  OBVIOUS
<1>1. ImExports
  BY DEF ImExports, Im!Init, Im!NoExport
<1> QED BY <1>1, ImInit DEF ImAccounts

LEMMA ImAccountsShow ==
  ASSUME Im!Sized, ImAccounts
  PROVE  Im!TypeOK /\ Im!NoTempLeft /\ Im!CountersAddUp /\ Im!ExportExact
<1> USE DEF ImAccounts
<1>1. Im!TypeOK
  <2>1. imJob \in Jobs /\ imJob.n \in [Im!Counters -> Nat] /\ imJob.state \in States
    BY DEF ImTypes, Jobs
  <2>2. Im!Running = (imPc # "none")
    BY DEF ImTypes, TaskTypes, Im!Running
  <2> QED BY <2>1, <2>2 DEF ImTypes, TaskTypes, PageTypes, States, Im!TypeOK
<1>2. Im!NoTempLeft
  BY ImportCountsAlike DEF ImBooks, TempsRight, Im!NoTempLeft
<1>3. Im!CountersAddUp
  <2>1. SUFFICES ASSUME imJob.state = "done"
                 PROVE  imJob.n["parsed"] + imJob.n["broken"] =
                          imJob.n["imported"] + imJob.n["duplicates"] + imJob.n["acks"] + imJob.n["nonGroup"] + imJob.n["errors"]
    BY DEF Im!CountersAddUp
  <2> DEFINE n == imJob.n
  <2>2. imBatch = <<>> /\ Len(imBatch) = 0
    BY <2>1 DEF ImTypes, TaskTypes, Im!Running
  <2>3. Surplus(n) = 0
    BY <2>1, <2>2 DEF ImBooks
  <2>4. /\ n["parsed"] \in Nat /\ n["imported"] \in Nat /\ n["duplicates"] \in Nat /\ n["acks"] \in Nat
        /\ n["nonGroup"] \in Nat /\ n["errors"] \in Nat /\ n["broken"] \in Nat
    BY DEF ImTypes, Jobs, Im!Counters
  <2> HIDE DEF n
  <2>5. n["parsed"] + n["broken"] = n["imported"] + n["duplicates"] + n["acks"] + n["nonGroup"] + n["errors"]
    <3>1. (n["parsed"] + n["broken"]) - (n["imported"] + n["duplicates"] + n["acks"] + n["nonGroup"] + n["errors"]) = 0
      BY <2>3 DEF Surplus
    <3>2. ASSUME NEW x \in Int, NEW y \in Int, x - y = 0 PROVE x = y
      BY <3>2
    <3>3. n["parsed"] + n["broken"] \in Int
      BY <2>4
    <3>4. n["imported"] + n["duplicates"] + n["acks"] + n["nonGroup"] + n["errors"] \in Int
      BY <2>4
    <3> QED BY <3>1, <3>2, <3>3, <3>4
  <2> QED BY <2>5 DEF n
<1>4. Im!ExportExact
  <2>1. SUFFICES ASSUME export.state = "over"
                 PROVE  /\ Len(export.rows) = Len(store) /\ Im!ToSet(export.rows) = Im!ToSet(store)
                        /\ \A i \in 2 .. Len(store) : export.rows[i - 1][1] <= export.rows[i][1]
    BY DEF Im!ExportExact
  <2> DEFINE rows == Im!Rows
             N == Len(store)
  <2>2. /\ N \in Nat /\ \A k \in 1 .. N : \E i \in 1 .. N : rows[k] = store[i]
        /\ \A i \in 1 .. N : \E k \in 1 .. N : rows[k] = store[i]
        /\ \A k, l \in 1 .. N : k < l => rows[k][1] <= rows[l][1]
    BY RowsAre DEF ImTypes
  <2>3. Len(export.rows) = N /\ \A k \in 1 .. N : export.rows[k] = rows[k]
    BY <2>1 DEF ImExports
  <2>4. DOMAIN export.rows = 1 .. N /\ DOMAIN store = 1 .. N
    BY <2>3, LenProperties DEF ImTypes, Exports
  <2> HIDE DEF rows, N
  <2>5. Im!ToSet(export.rows) = Im!ToSet(store)
    <3>1. ASSUME NEW x \in Im!ToSet(export.rows) PROVE x \in Im!ToSet(store)
      <4>1. PICK k \in 1 .. N : x = export.rows[k]
        BY <2>4 DEF Im!ToSet
      <4>2. PICK i \in 1 .. N : rows[k] = store[i]
        BY <2>2
      <4> QED BY <2>3, <2>4, <4>1, <4>2 DEF Im!ToSet
    <3>2. ASSUME NEW x \in Im!ToSet(store) PROVE x \in Im!ToSet(export.rows)
      <4>1. PICK i \in 1 .. N : x = store[i]
        BY <2>4 DEF Im!ToSet
      <4>2. PICK k \in 1 .. N : rows[k] = store[i]
        BY <2>2
      <4> QED BY <2>3, <2>4, <4>1, <4>2 DEF Im!ToSet
    <3> QED BY <3>1, <3>2
  <2>6. ASSUME NEW i \in 2 .. N PROVE export.rows[i - 1][1] <= export.rows[i][1]
    <3>1. i - 1 \in 1 .. N /\ i \in 1 .. N /\ i - 1 < i
      BY <2>2
    <3> QED BY <2>2, <2>3, <3>1
  <2> QED BY <2>3, <2>5, <2>6 DEF N
<1> QED BY <1>1, <1>2, <1>3, <1>4
-----------------------------------------------------------------------------
(* What a log brings.  The places of its records, <<file, index>>; those of the
   records that are heard, before anything that stops the parser; *)
Slots == {x \in (DOMAIN upload) \X Nat : x[2] \in DOMAIN upload[x[1]]}
Rec(x) == upload[x[1]][x[2]]
At(x) == Rec(x).ts
Telegram(x) == <<Rec(x).ts, Rec(x).frame>>
Heard == {x \in Slots : /\ Rec(x).kind \in {"group", "device"}
                        /\ \A j \in 1 .. x[2] : upload[x[1]][j].kind # "broken"}
(* the order in which they are merged, and the copies to be kept once; *)
Before(x, y) == At(x) < At(y) \/ (At(x) = At(y) /\ (x[1] < y[1] \/ (x[1] = y[1] /\ x[2] < y[2])))
Mates(x, y) == Im!DayOf(x[1]) = Im!DayOf(y[1])
Copies(x, y) == Mates(x, y) /\ Rec(x).frame = Rec(y).frame /\ Before(x, y) /\ At(y) - At(x) <= DedupWindow
(* and those that are kept: no earlier one that is kept is a copy. *)
Coherent(K) == K \in SUBSET Heard /\ \A y \in Heard : y \in K <=> ~\E x \in K : Copies(x, y)
Kept == CHOOSE K \in SUBSET Heard : Coherent(K)

LEMMA SlotsAre ==
  ASSUME Im!Sized, upload \in Uploads
  PROVE  /\ Heard \in SUBSET Slots
         /\ \A x \in Slots : /\ x = <<x[1], x[2]>> /\ x[1] \in DOMAIN upload /\ x[1] \in Nat /\ x[2] \in Nat
                             /\ x[2] \in 1 .. Len(upload[x[1]]) /\ Len(upload[x[1]]) \in Nat
                             /\ At(x) \in Nat /\ Rec(x).kind \in Im!Kinds /\ Telegram(x) \in Stored
         /\ \A f \in DOMAIN upload : \A i \in 1 .. Len(upload[f]) : <<f, i>> \in Slots
<1>1. /\ DOMAIN upload \in SUBSET Nat
      /\ \A f \in DOMAIN upload :
           /\ Len(upload[f]) \in Nat /\ DOMAIN upload[f] = 1 .. Len(upload[f])
           /\ \A i \in 1 .. Len(upload[f]) :
                upload[f][i].ts \in Nat /\ upload[f][i].kind \in Im!Kinds
                /\ <<upload[f][i].ts, upload[f][i].frame>> \in Stored
  BY LogFacts
<1>2. Heard \in SUBSET Slots
  BY DEF Heard
<1>3. ASSUME NEW x \in Slots
      PROVE  /\ x = <<x[1], x[2]>> /\ x[1] \in DOMAIN upload /\ x[1] \in Nat /\ x[2] \in Nat
             /\ x[2] \in 1 .. Len(upload[x[1]]) /\ Len(upload[x[1]]) \in Nat
             /\ At(x) \in Nat /\ Rec(x).kind \in Im!Kinds /\ Telegram(x) \in Stored
  <2>1. x = <<x[1], x[2]>> /\ x[1] \in DOMAIN upload /\ x[2] \in Nat /\ x[2] \in DOMAIN upload[x[1]]
    <3>1. x \in (DOMAIN upload) \X Nat /\ x[2] \in DOMAIN upload[x[1]]
      BY Zenon DEF Slots
    <3> QED BY <3>1
  <2> QED BY <1>1, <2>1 DEF At, Rec, Telegram
<1>4. ASSUME NEW f \in DOMAIN upload, NEW i \in 1 .. Len(upload[f])
      PROVE  <<f, i>> \in Slots
  <2>1. i \in Nat /\ i \in DOMAIN upload[f]
    BY <1>1
  <2> DEFINE x == <<f, i>>
  <2>2. x \in (DOMAIN upload) \X Nat /\ x[1] = f /\ x[2] = i
    BY <2>1
  <2>3. x[2] \in DOMAIN upload[x[1]]
    BY <2>1, <2>2
  <2> HIDE DEF x
  <2>4. x \in Slots
    BY <2>2, <2>3, Zenon DEF Slots
  <2> QED BY <2>4 DEF x
<1> QED BY <1>1, <1>2, <1>3, <1>4

LEMMA BeforeOrders ==
  ASSUME Im!Sized, upload \in Uploads
  PROVE  /\ \A x \in Slots : ~Before(x, x)
         /\ \A x, y, z \in Slots : Before(x, y) /\ Before(y, z) => Before(x, z)
         /\ \A x, y \in Slots : x = y \/ Before(x, y) \/ Before(y, x)
         /\ \A x, y \in Slots : Before(x, y) => At(x) <= At(y)
<1>1. \A x \in Slots : x = <<x[1], x[2]>> /\ x[1] \in Nat /\ x[2] \in Nat /\ At(x) \in Nat
  BY SlotsAre
<1>2. \A x, y \in Slots : x[1] = y[1] /\ x[2] = y[2] => x = y
  BY <1>1
<1>3. \A x \in Slots : ~Before(x, x)
  BY <1>1 DEF Before
<1>4. ASSUME NEW x \in Slots, NEW y \in Slots, NEW z \in Slots, Before(x, y), Before(y, z)
      PROVE  Before(x, z)
  <2>1. /\ x[1] \in Nat /\ x[2] \in Nat /\ At(x) \in Nat /\ y[1] \in Nat /\ y[2] \in Nat /\ At(y) \in Nat
        /\ z[1] \in Nat /\ z[2] \in Nat /\ At(z) \in Nat
    BY <1>1
  <2> QED BY <1>4, <2>1 DEF Before
<1>5. ASSUME NEW x \in Slots, NEW y \in Slots
      PROVE  /\ x = y \/ Before(x, y) \/ Before(y, x)
             /\ Before(x, y) => At(x) <= At(y)
  <2>1. x[1] \in Nat /\ x[2] \in Nat /\ At(x) \in Nat /\ y[1] \in Nat /\ y[2] \in Nat /\ At(y) \in Nat
    BY <1>1
  <2> QED BY <1>2, <2>1 DEF Before
<1> QED BY <1>3, <1>4, <1>5

LEMMA SlotsFinite ==
  ASSUME Im!Sized, upload \in Uploads
  PROVE  IsFiniteSet(Slots)
<1> DEFINE Slice(f) == {f} \X (1 .. Len(upload[f]))
           Family == {Slice(f) : f \in DOMAIN upload}
<1>1. DOMAIN upload = 1 .. Len(upload) /\ Len(upload) \in Nat /\ \A f \in DOMAIN upload : Len(upload[f]) \in Nat
  BY LogFacts
<1>2. \A f \in DOMAIN upload : IsFiniteSet(Slice(f))
  <2> TAKE f \in DOMAIN upload
  <2>1. IsFiniteSet({f}) /\ IsFiniteSet(1 .. Len(upload[f]))
    BY <1>1, FirstNaturals, FS_Singleton
  <2> QED BY <2>1, FS_Product
<1>3. IsFiniteSet(Family)
  <2>1. IsFiniteSet(DOMAIN upload)
    BY <1>1, FirstNaturals
  <2>2. [f \in DOMAIN upload |-> Slice(f)] \in Surjection(DOMAIN upload, Family)
    BY DEF Surjection
  <2> HIDE DEF Family
  <2> QED BY <2>1, <2>2, FS_Surjection
<1>4. IsFiniteSet(UNION Family)
  <2>1. \A s \in Family : IsFiniteSet(s)
    BY <1>2
  <2> HIDE DEF Family
  <2> QED BY <1>3, <2>1, FS_UNION
<1>5. Slots \in SUBSET UNION Family
  <2>1. SUFFICES ASSUME NEW x \in Slots PROVE \E s \in Family : x \in s
    OBVIOUS
  <2>2. x = <<x[1], x[2]>> /\ x[1] \in DOMAIN upload /\ x[2] \in 1 .. Len(upload[x[1]])
    BY SlotsAre
  <2>3. x \in Slice(x[1])
    BY <2>2
  <2> QED BY <2>2, <2>3
<1> HIDE DEF Family
<1> QED BY <1>4, <1>5, FS_Subset

(* Such a choice exists: what is heard is finite, and decided in order. *)
LEMMA KeptIs ==
  ASSUME Im!Sized, upload \in Uploads
  PROVE  Coherent(Kept)
<1> DEFINE R == {w \in Heard \X Heard : Before(w[1], w[2])}
           N == Cardinality(Heard)
           rank(x) == Rank(Heard, R, x)
           First(n) == {x \in Heard : rank(x) < n}
           Fits(n, K) == K \in SUBSET First(n) /\ \A y \in First(n) : y \in K <=> ~\E x \in K : Copies(x, y)
           T == {n \in 0 .. N : \E K \in SUBSET Heard : Fits(n, K)}
<1>1. IsFiniteSet(Heard)
  BY SlotsAre, SlotsFinite, FS_Subset
<1>2. \A x, y \in Heard : <<x, y>> \in R <=> Before(x, y)
  OBVIOUS
<1>3. /\ \A x \in Heard : ~Before(x, x)
      /\ \A x, y, z \in Heard : Before(x, y) /\ Before(y, z) => Before(x, z)
      /\ \A x, y \in Heard : x = y \/ Before(x, y) \/ Before(y, x)
  BY SlotsAre, BeforeOrders
<1> HIDE DEF R
<1>4. /\ \A x \in Heard : <<x, x>> \notin R
      /\ \A x, y, z \in Heard : <<x, y>> \in R /\ <<y, z>> \in R => <<x, z>> \in R
      /\ \A x, y \in Heard : x = y \/ <<x, y>> \in R \/ <<y, x>> \in R
  BY <1>2, <1>3
<1>5. /\ N \in Nat
      /\ \A x \in Heard : rank(x) \in 0 .. N - 1
      /\ \A x, y \in Heard : <<x, y>> \in R => rank(x) < rank(y)
      /\ \A k \in 0 .. N - 1 : \E x \in Heard : rank(x) = k
  BY <1>1, <1>4, Ranking
<1> HIDE DEF rank, N
<1>6. \A x, y \in Heard : Copies(x, y) => rank(x) < rank(y)
  BY <1>2, <1>5 DEF Copies
<1>7. 0 \in T
  <2>1. First(0) = {}
    BY <1>5
  <2>2. Fits(0, {}) /\ {} \in SUBSET Heard
    BY <2>1
  <2>3. 0 \in 0 .. N
    BY <1>5
  <2> HIDE DEF Fits
  <2> QED BY <2>2, <2>3
<1>8. ASSUME NEW n \in 0 .. N - 1, n \in T
      PROVE  n + 1 \in T
  <2>1. PICK K \in SUBSET Heard : Fits(n, K)
    BY <1>8
  <2>2. PICK z \in Heard : rank(z) = n
    BY <1>5
  <2>3. n \in Nat /\ \A x \in Heard : rank(x) \in Nat
    BY <1>5
  <2>4. \A x \in Heard : x \in First(n + 1) <=> x \in First(n) \/ x = z
    <3>1. \A x \in Heard : rank(x) = n => x = z
      <4>1. SUFFICES ASSUME NEW x \in Heard, rank(x) = n, x # z PROVE FALSE
        OBVIOUS
      <4>2. rank(x) < rank(z) \/ rank(z) < rank(x)
        BY <1>4, <1>5, <4>1
      <4> QED BY <2>2, <2>3, <4>1, <4>2
    <3> QED BY <2>2, <2>3, <3>1
  <2>5. z \notin First(n) /\ ~Copies(z, z) /\ \A y \in First(n) : ~Copies(z, y)
    <3>1. ~(rank(z) < n) /\ \A y \in First(n) : ~(rank(z) < rank(y))
      BY <2>2, <2>3
    <3> QED BY <1>6, <2>2, <2>3, <3>1
  <2> DEFINE M == K \cup {y \in {z} : ~\E x \in K : Copies(x, z)}
  <2>6. K \in SUBSET First(n) /\ \A y \in First(n) : y \in K <=> ~\E x \in K : Copies(x, y)
    BY <2>1
  <2> HIDE DEF First
  <2>7. M \in SUBSET Heard /\ M \in SUBSET First(n + 1)
    BY <2>4, <2>6
  <2>8. ASSUME NEW y \in First(n + 1), y \in Heard
        PROVE  y \in M <=> ~\E x \in M : Copies(x, y)
    <3>1. CASE y = z
      <4>1. y \in M <=> ~\E x \in K : Copies(x, y)
        BY <2>5, <2>6, <3>1
      <4>2. (\E x \in M : Copies(x, y)) <=> \E x \in K : Copies(x, y)
        BY <2>5, <3>1
      <4> QED BY <4>1, <4>2
    <3>2. CASE y # z
      <4>1. y \in First(n)
        BY <2>4, <2>8, <3>2
      <4>2. y \in M <=> y \in K
        BY <3>2
      <4>3. (\E x \in M : Copies(x, y)) <=> \E x \in K : Copies(x, y)
        BY <2>5, <4>1
      <4> QED BY <2>6, <4>1, <4>2, <4>3
    <3> QED BY <3>1, <3>2
  <2>9. \A y \in First(n + 1) : y \in Heard
    BY DEF First
  <2>10. Fits(n + 1, M)
    BY <2>7, <2>8, <2>9
  <2>11. n + 1 \in 0 .. N
    BY <1>5
  <2> HIDE DEF Fits, M
  <2> QED BY <2>7, <2>10, <2>11
<1>9. N \in T
  <2> HIDE DEF T
  <2>1. \A n \in 0 .. N : n \in T
    BY <1>5, <1>7, <1>8, Rounds
  <2> QED BY <1>5, <2>1
<1>10. PICK K \in SUBSET Heard : Fits(N, K)
  BY <1>9
<1>11. First(N) = Heard
  BY <1>5
<1>12. Coherent(K)
  BY <1>10, <1>11 DEF Coherent
<1> QED BY <1>12 DEF Kept
-----------------------------------------------------------------------------
(* The ledger of the import.  What of the log is past in this job; *)
Past(x) == x[2] <= pos[x[1]]
Coming(g) == <<g, pos[g] + 1>>

(* the groups still to be merged are days of the log, each file in one of them,
   and the files of no group left have been read; *)
ImGroups ==
  /\ \A i \in 1 .. Len(todo) : \E d \in Int : todo[i] = {f \in DOMAIN upload : Im!DayOf(f) = d}
  /\ \A i, j \in 1 .. Len(todo) : i # j => todo[i] \cap todo[j] = {}
  /\ \A i \in 1 .. Len(todo) : i # 1 => \A f \in todo[i] : pos[f] = 0
  /\ imJob.state \in {"running", "done"} =>
       \A f \in DOMAIN upload :
         /\ pos[f] = Len(upload[f]) \/ \E i \in 1 .. Len(todo) : f \in todo[i]
         /\ pos[f] = Len(upload[f]) \/ \A j \in 1 .. pos[f] : upload[f][j].kind # "broken"
(* what is past comes before what is next; *)
ImOrder ==
  todo # <<>> => \A x \in Heard : x[1] \in todo[1] /\ Past(x) => \A g \in Im!Left : Before(x, Coming(g))
(* the recent frames are kept ones, and those no longer recent are too old; *)
ImRecent ==
  todo # <<>> =>
    /\ \A e \in recent : \E x \in Kept : x[1] \in todo[1] /\ Past(x) /\ e.frame = Rec(x).frame /\ e.ts = At(x)
    /\ \A x \in Kept : x[1] \in todo[1] /\ Past(x) =>
         \/ \E e \in recent : e.frame = Rec(x).frame /\ e.ts >= At(x)
         \/ \A g \in Im!Left : At(Coming(g)) - At(x) > DedupWindow
(* the batch has kept telegrams of the group under way, in order, and what goes
   to the store is not there yet; *)
ImBatch ==
  /\ \A k \in 1 .. Len(imBatch) :
       \E x \in Kept : Rec(x).kind = "group" /\ x[1] \in todo[1] /\ Past(x) /\ imBatch[k] = Telegram(x)
  /\ \A k, l \in 1 .. Len(imBatch) : k < l => imBatch[k][1] <= imBatch[l][1] /\ imBatch[k] # imBatch[l]
  /\ imPc = "insert" => \A k \in 1 .. Len(imBatch), i \in 1 .. Len(store) : imBatch[k] # store[i]
(* the store has kept telegrams, each once; *)
ImStore ==
  /\ \A i \in 1 .. Len(store) : \E x \in Kept : Rec(x).kind = "group" /\ store[i] = Telegram(x)
  /\ \A i, j \in 1 .. Len(store) : store[i] = store[j] => i = j
(* and a kept telegram that is past is stored, or waits in the batch. *)
ImKept ==
  imJob.state \in {"running", "done"} =>
    \A x \in Kept : Rec(x).kind = "group" /\ Past(x) =>
      (\E i \in 1 .. Len(store) : store[i] = Telegram(x)) \/ (\E k \in 1 .. Len(imBatch) : imBatch[k] = Telegram(x))

ImMerge == Im!Sorted => ImOrder /\ ImRecent
ImLedger == ImGroups /\ ImMerge /\ (Im!Sorted => ImBatch /\ ImStore /\ ImKept)

(* The log does not change. *)
LEMMA LogRests ==
  ASSUME UNCHANGED upload
  PROVE  Heard' = Heard /\ Kept' = Kept /\ Slots' = Slots /\ (Im!Sorted' <=> Im!Sorted)
<1>1. Slots' = Slots
  BY DEF Slots
<1>2. Heard' = Heard
  BY <1>1 DEF Heard, Rec
<1>3. Kept' = Kept
  BY <1>2 DEF Kept, Coherent, Copies, Mates, Rec, At, Before, Im!DayOf
<1> QED BY <1>1, <1>2, <1>3 DEF Im!Sorted

LEMMA MergeRests ==
  ASSUME UNCHANGED <<upload, todo, pos, recent>>, ImMerge
  PROVE  ImMerge'
<1>1. Heard' = Heard /\ Kept' = Kept /\ (Im!Sorted' <=> Im!Sorted)
  BY LogRests
<1>2. Im!Left' = Im!Left
  BY DEF Im!Left
<1>3. ImOrder => ImOrder'
  BY <1>1, <1>2 DEF ImOrder, Past, Coming, Before, At, Rec
<1>4. ImRecent => ImRecent'
  BY <1>1, <1>2 DEF ImRecent, Past, Coming, At, Rec
<1> QED BY <1>1, <1>3, <1>4 DEF ImMerge

LEMMA LedgerRests ==
  ASSUME UNCHANGED <<upload, imPc, todo, pos, recent, imBatch, store>>, imJob'.state = imJob.state, ImLedger
  PROVE  ImLedger'
<1>1. Heard' = Heard /\ Kept' = Kept /\ (Im!Sorted' <=> Im!Sorted)
  BY LogRests
<1>2. ImGroups'
  BY DEF ImLedger, ImGroups, Im!DayOf
<1>3. ImMerge'
  BY MergeRests DEF ImLedger
<1>4. ImBatch => ImBatch'
  BY <1>1 DEF ImBatch, Past, Telegram, Rec
<1>5. ImStore => ImStore'
  BY <1>1 DEF ImStore, Telegram, Rec
<1>6. ImKept => ImKept'
  BY <1>1 DEF ImKept, Past, Telegram, Rec
<1> QED BY <1>1, <1>2, <1>3, <1>4, <1>5, <1>6 DEF ImLedger
-----------------------------------------------------------------------------
(* A record is read: what is past grows by its place alone. *)
LEMMA Advances ==
  ASSUME Im!Sized, ImTypes, ImGroups, Im!Read, NEW y, y = Coming(Im!Turn)
  PROVE  /\ y \in Slots /\ y[1] = Im!Turn /\ y[1] \in todo[1] /\ Im!Turn \in Im!Left /\ Im!NextOf(Im!Turn) = Rec(y)
         /\ y \in Heard <=> Rec(y).kind \in {"group", "device"}
         /\ \A x \in Heard : x[2] <= pos'[x[1]] <=> Past(x) \/ x = y
         /\ \A g \in Im!Left' : g \in Im!Left /\ pos'[g] = (IF g = Im!Turn THEN pos[g] + 1 ELSE pos[g])
         /\ \A f \in DOMAIN upload : f # Im!Turn => pos'[f] = pos[f]
         /\ ~Past(y) /\ UNCHANGED <<upload, todo, store>>
<1> DEFINE T == Im!Turn
<1>1. imPc = "thread" /\ todo # <<>> /\ Im!Left # {} /\ imJob.state = "running" /\ upload \in Uploads
  BY DEF Im!Read, ImTypes, TaskTypes, Im!Running
<1>2. /\ T \in Im!Left /\ T \in DOMAIN upload /\ T \in Nat /\ T \in todo[1] /\ pos[T] \in Nat
      /\ pos[T] + 1 \in 1 .. Len(upload[T]) /\ Im!NextOf(T) = upload[T][pos[T] + 1]
      /\ todo[1] \in SUBSET DOMAIN upload /\ pos \in [DOMAIN upload -> Nat]
  BY <1>1, TurnIs, LeftIs
<1>3. UNCHANGED <<upload, todo, store>>
  BY DEF Im!Read, Im!const
<1>4. y \in Slots /\ y[1] = T /\ y[2] = pos[T] + 1 /\ Rec(y) = Im!NextOf(T)
  BY <1>1, <1>2, SlotsAre DEF Coming, Rec
<1>5. IF Rec(y).kind = "broken" THEN pos' = [pos EXCEPT ![T] = Len(upload[T])] ELSE pos' = [pos EXCEPT ![T] = @ + 1]
  BY <1>4 DEF Im!Read
<1>6. Len(upload[T]) \in Nat /\ pos[T] # Len(upload[T]) /\ \A j \in 1 .. pos[T] : upload[T][j].kind # "broken"
  <2>1. Len(upload[T]) \in Nat
    BY <1>1, <1>2, LogFacts
  <2>2. pos[T] # Len(upload[T])
    BY <1>2, <2>1
  <2> QED BY <1>1, <1>2, <2>1, <2>2 DEF ImGroups
<1>7. y \in Heard <=> Rec(y).kind \in {"group", "device"}
  <2>1. y \in Heard => Rec(y).kind \in {"group", "device"}
    BY DEF Heard
  <2>2. ASSUME Rec(y).kind \in {"group", "device"}, NEW j \in 1 .. y[2]
        PROVE  upload[y[1]][j].kind # "broken"
    <3>1. CASE j = y[2]
      BY <2>2, <3>1 DEF Rec
    <3>2. CASE j # y[2]
      <4>1. j \in 1 .. pos[T]
        BY <1>2, <1>4, <3>2
      <4> QED BY <1>4, <1>6, <4>1
    <3> QED BY <3>1, <3>2
  <2> QED BY <1>4, <2>1, <2>2 DEF Heard
<1>8. ASSUME NEW x \in Heard
      PROVE  x[2] <= pos'[x[1]] <=> Past(x) \/ x = y
  <2>1. /\ x \in Slots /\ x = <<x[1], x[2]>> /\ x[1] \in DOMAIN upload /\ x[2] \in 1 .. Len(upload[x[1]])
        /\ y = <<y[1], y[2]>> /\ pos[x[1]] \in Nat /\ Len(upload[x[1]]) \in Nat
    BY <1>1, <1>2, <1>4, SlotsAre
  <2>2. CASE x[1] # T
    BY <1>2, <1>4, <1>5, <2>1, <2>2 DEF Past
  <2>3. CASE x[1] = T /\ Rec(y).kind # "broken"
    <3>1. pos'[x[1]] = pos[T] + 1
      BY <1>2, <1>5, <2>3
    <3>2. x = y <=> x[2] = pos[T] + 1
      BY <1>4, <2>1, <2>3
    <3> QED BY <1>2, <2>1, <2>3, <3>1, <3>2 DEF Past
  <2>4. CASE x[1] = T /\ Rec(y).kind = "broken"
    <3>1. ~(pos[T] + 1 \in 1 .. x[2])
      <4>1. \A j \in 1 .. x[2] : upload[x[1]][j].kind # "broken"
        BY DEF Heard
      <4> QED BY <1>4, <2>4, <4>1 DEF Rec
    <3>2. x[2] <= pos[T]
      BY <1>2, <2>1, <3>1
    <3>3. pos'[x[1]] = Len(upload[T])
      BY <1>2, <1>5, <2>4
    <3> QED BY <1>6, <2>1, <2>4, <3>2, <3>3 DEF Past
  <2> QED BY <2>2, <2>3, <2>4
<1>9. ASSUME NEW g \in Im!Left'
      PROVE  g \in Im!Left /\ pos'[g] = (IF g = T THEN pos[g] + 1 ELSE pos[g])
  <2>1. g \in todo[1] /\ pos'[g] < Len(upload[g])
    BY <1>3, <1>9 DEF Im!Left
  <2>2. g \in DOMAIN upload /\ pos[g] \in Nat
    BY <1>2, <2>1
  <2>3. CASE g # T
    BY <1>2, <1>5, <2>1, <2>2, <2>3 DEF Im!Left
  <2>4. CASE g = T
    BY <1>2, <1>5, <1>6, <2>1, <2>4
  <2> QED BY <2>3, <2>4
<1>10. \A f \in DOMAIN upload : f # T => pos'[f] = pos[f]
  BY <1>2, <1>5
<1>11. ~Past(y)
  BY <1>2, <1>4 DEF Past
<1> QED BY <1>2, <1>3, <1>4, <1>7, <1>8, <1>9, <1>10, <1>11

(* What is next comes after it. *)
LEMMA ThenNext ==
  ASSUME Im!Sized, Im!Sorted, ImTypes, ImGroups, Im!Read, NEW y, y = Coming(Im!Turn)
  PROVE  /\ \A g \in Im!Left' : Before(y, <<g, pos'[g] + 1>>) /\ <<g, pos'[g] + 1>> \in Slots
         /\ \A g \in Im!Left : y = Coming(g) \/ Before(y, Coming(g))
         /\ \A g \in Im!Left : Coming(g) \in Slots
<1> DEFINE T == Im!Turn
<1>1. imPc = "thread" /\ todo # <<>> /\ Im!Left # {} /\ upload \in Uploads
  BY DEF Im!Read, ImTypes
<1>2. /\ T \in Im!Left
      /\ \A g \in Im!Left : Im!NextOf(T).ts < Im!NextOf(g).ts \/ (Im!NextOf(T).ts = Im!NextOf(g).ts /\ T <= g)
  BY <1>1, TurnIs
<1>3. \A g \in Im!Left : /\ g \in DOMAIN upload /\ g \in Nat /\ pos[g] \in Nat /\ pos[g] + 1 \in 1 .. Len(upload[g])
                         /\ Im!NextOf(g) = upload[g][pos[g] + 1] /\ Im!NextOf(g).ts \in Nat
  BY <1>1, LeftIs
<1>4. \A g \in Im!Left : Coming(g) \in Slots /\ At(Coming(g)) = Im!NextOf(g).ts /\ Coming(g)[1] = g
  BY <1>1, <1>3, SlotsAre DEF Coming, At, Rec
<1>5. \A g \in Im!Left : g # T => Before(y, Coming(g))
  <2> TAKE g \in Im!Left
  <2>1. g # T => At(y) < At(Coming(g)) \/ (At(y) = At(Coming(g)) /\ y[1] < Coming(g)[1])
    <3>1. At(y) = Im!NextOf(T).ts /\ y[1] = T /\ T \in Nat /\ g \in Nat
      BY <1>2, <1>3, <1>4
    <3> QED BY <1>2, <1>4, <3>1
  <2> QED BY <2>1 DEF Before
<1>6. ASSUME NEW g \in Im!Left'
      PROVE  Before(y, <<g, pos'[g] + 1>>) /\ <<g, pos'[g] + 1>> \in Slots
  <2>1. g \in Im!Left /\ pos'[g] = (IF g = T THEN pos[g] + 1 ELSE pos[g])
    BY <1>6, Advances
  <2>2. CASE g # T
    BY <1>4, <1>5, <2>1, <2>2 DEF Coming
  <2>3. CASE g = T
    <3> DEFINE i == pos[T] + 2
    <3>1. UNCHANGED <<upload, todo>>
      BY Advances
    <3>2. pos'[T] < Len(upload[T]) /\ pos'[T] = pos[T] + 1
      BY <1>6, <2>1, <2>3, <3>1 DEF Im!Left
    <3>3. Len(upload[T]) \in Nat /\ pos[T] \in Nat /\ T \in DOMAIN upload
      BY <1>1, <1>2, <1>3, LogFacts
    <3>4. i \in 2 .. Len(upload[T]) /\ i - 1 = pos[T] + 1 /\ pos'[T] + 1 = i /\ i \in 1 .. Len(upload[T])
      BY <3>2, <3>3
    <3>5. upload[T][i - 1].ts <= upload[T][i].ts
      BY <3>3, <3>4 DEF Im!Sorted
    <3>6. <<T, i>> \in Slots /\ At(<<T, i>>) = upload[T][i].ts /\ At(<<T, i>>) \in Nat
      BY <1>1, <3>3, <3>4, SlotsAre DEF At, Rec
    <3>7. y = <<T, pos[T] + 1>> /\ At(y) = upload[T][pos[T] + 1].ts /\ At(y) \in Nat
      BY <1>2, <1>3, <1>4 DEF Coming
    <3>8. At(y) < At(<<T, i>>) \/ (At(y) = At(<<T, i>>) /\ y[1] = T /\ y[2] < i)
      BY <3>3, <3>4, <3>5, <3>6, <3>7
    <3>9. Before(y, <<T, i>>)
      BY <3>8 DEF Before
    <3> QED BY <2>3, <3>4, <3>6, <3>9
  <2> QED BY <2>2, <2>3
<1>7. \A g \in Im!Left : y = Coming(g) \/ Before(y, Coming(g))
  BY <1>5
<1> QED BY <1>4, <1>6, <1>7

LEMMA SortedAll ==
  ASSUME Im!Sized, Im!Sorted, upload \in Uploads, NEW f \in DOMAIN upload,
         NEW i \in 1 .. Len(upload[f]), NEW j \in 1 .. Len(upload[f]), i <= j
  PROVE  upload[f][i].ts <= upload[f][j].ts
<1> DEFINE t(k) == upload[f][k].ts
           N == Len(upload[f])
           T == {n \in 0 .. j - i : t(i) <= t(i + n)}
<1>1. N \in Nat /\ \A k \in 1 .. N : t(k) \in Nat
  BY LogFacts
<1>2. \A k \in 2 .. N : t(k - 1) <= t(k)
  BY DEF Im!Sorted
<1> HIDE DEF t, N
<1>3. i \in 1 .. N /\ j \in 1 .. N /\ j - i \in Nat
  BY <1>1 DEF N
<1>4. 0 \in T
  <2>1. t(i) <= t(i + 0)
    BY <1>1, <1>3
  <2> QED BY <1>3, <2>1
<1>5. \A n \in 0 .. (j - i) - 1 : n \in T => n + 1 \in T
  <2> SUFFICES ASSUME NEW n \in 0 .. (j - i) - 1, n \in T PROVE n + 1 \in T
    OBVIOUS
  <2>1. i + n \in 1 .. N /\ i + (n + 1) \in 2 .. N /\ (i + (n + 1)) - 1 = i + n /\ n + 1 \in 0 .. j - i /\ i + (n + 1) \in 1 .. N
    BY <1>1, <1>3
  <2>2. t(i + n) <= t(i + (n + 1))
    BY <1>2, <2>1
  <2>3. t(i) <= t(i + n)
    OBVIOUS
  <2>4. t(i) <= t(i + (n + 1))
    BY <1>1, <1>3, <2>1, <2>2, <2>3
  <2> QED BY <2>1, <2>4
<1>6. j - i \in T
  <2> HIDE DEF T
  <2>1. \A n \in 0 .. j - i : n \in T
    BY <1>3, <1>4, <1>5, Rounds
  <2> QED BY <1>3, <2>1
<1>7. t(i) <= t(i + (j - i)) /\ i + (j - i) = j
  BY <1>3, <1>6
<1> QED BY <1>7 DEF t

(* The recent frames tell the copies of a frame from the first of it. *)
LEMMA DupIs ==
  ASSUME Im!Sized, Im!Sorted, ImTypes, ImGroups, ImOrder, ImRecent, Im!Read, NEW y, y = Coming(Im!Turn), y \in Heard
  PROVE  (\E e \in recent : e.frame = Rec(y).frame /\ At(y) - e.ts <= DedupWindow) <=> y \notin Kept
<1>0. imPc = "thread" /\ todo # <<>> /\ upload \in Uploads /\ DedupWindow \in Nat /\ Len(todo) \in Nat /\ 1 \in 1 .. Len(todo)
      /\ imJob.state = "running"
  <2>1. imPc = "thread" /\ todo # <<>> /\ upload \in Uploads /\ DedupWindow \in Nat /\ imJob.state = "running"
    BY DEF Im!Read, ImTypes, Im!Sized, TaskTypes, Im!Running
  <2>2. todo \in Seq(SUBSET DOMAIN upload)
    BY DEF ImTypes, TaskTypes
  <2> QED BY <2>1, <2>2, EmptySeq, LenProperties
<1>1. y[1] \in todo[1] /\ Im!Turn \in Im!Left /\ y \in Slots /\ ~Past(y)
  BY Advances
<1>2. Coherent(Kept) /\ Kept \in SUBSET Heard /\ Heard \in SUBSET Slots
  BY <1>0, KeptIs, SlotsAre DEF Coherent
<1>3. PICK d \in Int : todo[1] = {f \in DOMAIN upload : Im!DayOf(f) = d}
  BY <1>0 DEF ImGroups
<1>4. At(y) \in Nat /\ \A x \in Slots : At(x) \in Nat /\ x[1] \in DOMAIN upload
  BY <1>0, <1>1, SlotsAre
<1>5. ASSUME NEW e \in recent, e.frame = Rec(y).frame, At(y) - e.ts <= DedupWindow
      PROVE  y \notin Kept
  <2>1. PICK x \in Kept : x[1] \in todo[1] /\ Past(x) /\ e.frame = Rec(x).frame /\ e.ts = At(x)
    BY <1>0, <1>5 DEF ImRecent
  <2>2. Before(x, y)
    BY <1>0, <1>1, <1>2, <2>1 DEF ImOrder
  <2>3. Mates(x, y)
    BY <1>1, <1>3, <2>1 DEF Mates
  <2>4. Copies(x, y)
    BY <1>5, <2>1, <2>2, <2>3 DEF Copies
  <2> QED BY <1>2, <2>1, <2>4 DEF Coherent
<1>6. ASSUME y \notin Kept
      PROVE  \E e \in recent : e.frame = Rec(y).frame /\ At(y) - e.ts <= DedupWindow
  <2>1. PICK x \in Kept : Copies(x, y)
    BY <1>2, <1>6 DEF Coherent
  <2>2. x \in Slots /\ Mates(x, y) /\ Rec(x).frame = Rec(y).frame /\ Before(x, y) /\ At(y) - At(x) <= DedupWindow
    BY <1>2, <2>1 DEF Copies
  <2>3. x[1] \in todo[1]
    BY <1>1, <1>3, <1>4, <2>2 DEF Mates
  <2>4. Past(x)
    <3>1. SUFFICES ASSUME ~Past(x) PROVE FALSE
      OBVIOUS
    <3> DEFINE g == x[1]
               z == Coming(g)
    <3>2. x = <<g, x[2]>> /\ g \in DOMAIN upload /\ x[2] \in 1 .. Len(upload[g]) /\ Len(upload[g]) \in Nat /\ pos[g] \in Nat
      <4>1. pos \in [DOMAIN upload -> Nat]
        BY <1>0 DEF ImTypes, TaskTypes
      <4> QED BY <1>0, <2>2, <4>1, SlotsAre
    <3>3. pos[g] + 1 \in 1 .. Len(upload[g]) /\ pos[g] + 1 <= x[2] /\ g \in Im!Left
      <4>1. pos[g] + 1 <= x[2]
        BY <3>1, <3>2 DEF Past
      <4> QED BY <2>3, <3>2, <4>1 DEF Im!Left
    <3>4. upload[g][pos[g] + 1].ts <= upload[g][x[2]].ts
      BY <1>0, <3>2, <3>3, SortedAll
    <3>5. z \in Slots /\ z[1] = g /\ z[2] = pos[g] + 1 /\ At(z) <= At(x) /\ g \in Nat
      BY <1>0, <3>2, <3>3, <3>4, SlotsAre DEF Coming, At, Rec
    <3>6. z = x \/ Before(z, x)
      <4>1. z[1] = x[1] /\ (z[2] = x[2] => z = x)
        BY <1>0, <2>2, <3>5, SlotsAre
      <4>2. At(z) \in Nat /\ At(x) \in Nat /\ z[2] \in Nat /\ x[2] \in Nat
        BY <1>4, <2>2, <3>2, <3>5
      <4> QED BY <3>2, <3>3, <3>5, <4>1, <4>2 DEF Before
    <3>7. y = z \/ Before(y, z)
      BY <3>3, ThenNext
    <3> HIDE DEF z
    <3>8. y = x \/ Before(y, x)
      BY <1>0, <1>1, <2>2, <3>5, <3>6, <3>7, BeforeOrders
    <3> QED BY <1>0, <1>1, <2>2, <3>8, BeforeOrders
  <2>5. ~\A g \in Im!Left : At(Coming(g)) - At(x) > DedupWindow
    BY <1>0, <1>1, <1>4, <2>2
  <2>6. PICK e \in recent : e.frame = Rec(x).frame /\ e.ts >= At(x)
    BY <1>0, <2>3, <2>4, <2>5 DEF ImRecent
  <2>7. e.ts \in Nat
    <3>1. PICK w \in Kept : e.ts = At(w)
      BY <1>0 DEF ImRecent
    <3> QED BY <1>2, <1>4, <3>1
  <2>8. At(y) - e.ts <= DedupWindow
    BY <1>0, <1>4, <2>2, <2>6, <2>7
  <2> QED BY <2>2, <2>6, <2>8
<1> QED BY <1>5, <1>6

(* They are brought up to date by what is kept. *)
LEMMA RecentIs ==
  ASSUME Im!Sized, Im!Sorted, ImTypes, ImGroups, ImOrder, ImRecent, Im!Read, NEW y, y = Coming(Im!Turn),
         NEW entry, entry = [frame |-> Rec(y).frame, ts |-> At(y)]
  PROVE  /\ y \notin Kept => recent' = recent
         /\ y \in Kept => /\ \A e \in recent' : e = entry \/ e \in recent
                          /\ entry \in recent'
                          /\ \A e \in recent : e \in recent' \/ e.frame = Rec(y).frame \/ At(y) - e.ts > DedupWindow
         /\ imBatch' = (IF y \in Kept /\ Rec(y).kind = "group" THEN Append(imBatch, Telegram(y)) ELSE imBatch)
         /\ imPc' \in {"thread", "query"}
<1> DEFINE T == Im!Turn
           r == Rec(y)
           heard == r.kind \in {"group", "device"}
           dup == heard /\ \E e \in recent : e.frame = r.frame /\ At(y) - e.ts <= DedupWindow
           old == {e \in recent : e.frame = r.frame}
           noted == IF heard /\ ~dup THEN (recent \ old) \cup {entry} ELSE recent
           prune == heard /\ ~dup /\ At(y) - lastPrune > PruneAfter
<1>0. imPc = "thread" /\ upload \in Uploads /\ DedupWindow \in Nat
  BY DEF Im!Read, ImTypes, Im!Sized
<1>1. Im!NextOf(T) = r /\ (y \in Heard <=> heard) /\ y \in Slots
  BY Advances
<1>2. At(y) = r.ts /\ At(y) \in Nat
  BY <1>0, <1>1, SlotsAre DEF At
<1>3. dup <=> heard /\ y \notin Kept
  BY <1>1, DupIs
<1>4. y \in Kept <=> heard /\ ~dup
  <2>1. Kept \in SUBSET Heard
    BY <1>0, KeptIs DEF Coherent
  <2> QED BY <1>1, <1>3, <2>1
<1>5. Im!Read => IF r.kind = "broken"
                 THEN UNCHANGED <<recent, imBatch, imPc>>
                 ELSE /\ recent' = IF prune THEN Im!Pruned(noted, At(y)) ELSE noted
                      /\ imBatch' = (IF r.kind = "group" /\ ~dup THEN Append(imBatch, <<r.ts, r.frame>>) ELSE imBatch)
                      /\ imPc' \in {"thread", "query"}
  <2>1. entry = [frame |-> r.frame, ts |-> r.ts]
    BY <1>2
  <2>2. dup <=> heard /\ \E e \in old : r.ts - e.ts <= DedupWindow
    BY <1>2
  <2> QED BY <1>0, <1>1, <1>2, <2>1, <2>2 DEF Im!Read, Im!Remembers
<1> HIDE DEF dup, heard, r
<1>6. r.kind = "group" => heard
  BY DEF heard
<1>7. r.kind = "broken" => ~heard
  BY DEF heard
<1>8. y \notin Kept => recent' = recent
  BY <1>4, <1>5, <1>7
<1>9. ASSUME y \in Kept
      PROVE  /\ \A e \in recent' : e = entry \/ e \in recent
             /\ entry \in recent'
             /\ \A e \in recent : e \in recent' \/ e.frame = r.frame \/ At(y) - e.ts > DedupWindow
  <2>1. heard /\ ~dup /\ r.kind # "broken"
    BY <1>4, <1>7, <1>9
  <2>2. noted = (recent \ old) \cup {entry} /\ entry.ts = At(y)
    BY <2>1
  <2>3. recent' = noted \/ recent' = {e \in noted : At(y) - e.ts <= DedupWindow}
    BY <1>5, <2>1 DEF Im!Pruned
  <2>4. At(y) - At(y) <= DedupWindow
    BY <1>0, <1>2
  <2> HIDE DEF noted
  <2>5. \A e \in recent' : e \in noted
    BY <2>3
  <2>6. \A e \in noted : e \in recent' \/ ~(At(y) - e.ts <= DedupWindow)
    BY <2>3
  <2>7. \A e \in recent : e \in noted \/ e.frame = r.frame
    BY <2>2
  <2>8. \A e \in noted : e = entry \/ e \in recent
    BY <2>2
  <2>9. entry \in recent'
    BY <2>2, <2>4, <2>6
  <2>10. ASSUME NEW e \in recent PROVE e \in recent' \/ e.frame = r.frame \/ At(y) - e.ts > DedupWindow
    <3>1. e.ts \in Nat
      <4>1. PICK w \in Kept : e.ts = At(w)
        BY <2>10 DEF ImRecent, Im!Read
      <4>2. w \in Slots
        BY <1>0, KeptIs, SlotsAre DEF Coherent
      <4> QED BY <1>0, <4>1, <4>2, SlotsAre
    <3> QED BY <1>0, <1>2, <2>6, <2>7, <3>1
  <2> QED BY <2>5, <2>8, <2>9, <2>10
<1>10. imBatch' = (IF y \in Kept /\ r.kind = "group" THEN Append(imBatch, <<r.ts, r.frame>>) ELSE imBatch)
  BY <1>4, <1>5, <1>6, <1>7
<1>11. imPc' \in {"thread", "query"}
  BY <1>0, <1>5
<1> QED BY <1>8, <1>9, <1>10, <1>11 DEF r, Telegram

LEMMA MergeOnRead ==
  ASSUME Im!Sized, Im!Sorted, ImTypes, ImGroups, ImOrder, ImRecent, Im!Read
  PROVE  ImOrder' /\ ImRecent'
<1> DEFINE y == Coming(Im!Turn)
           entry == [frame |-> Rec(y).frame, ts |-> At(y)]
           next(g) == <<g, pos'[g] + 1>>
<1>0. todo # <<>> /\ upload \in Uploads /\ DedupWindow \in Nat
  BY DEF Im!Read, ImTypes, Im!Sized
<1>1. /\ y \in Slots /\ y[1] \in todo[1] /\ Im!Turn \in Im!Left
      /\ \A x \in Heard : x[2] <= pos'[x[1]] <=> Past(x) \/ x = y
      /\ UNCHANGED <<upload, todo>>
  BY Advances
<1>2. \A g \in Im!Left' : Before(y, next(g)) /\ next(g) \in Slots
  BY ThenNext
<1>3. /\ Coherent(Kept) /\ Kept \in SUBSET Heard /\ Heard \in SUBSET Slots
      /\ \A x \in Slots : At(x) \in Nat
  BY <1>0, KeptIs, SlotsAre DEF Coherent
<1>4. Heard' = Heard /\ Kept' = Kept
  BY <1>1, LogRests
<1>5. /\ y \notin Kept => recent' = recent
      /\ y \in Kept => /\ \A e \in recent' : e = entry \/ e \in recent
                       /\ entry \in recent'
                       /\ \A e \in recent : e \in recent' \/ e.frame = Rec(y).frame \/ At(y) - e.ts > DedupWindow
  <2> HIDE DEF entry, y
  <2>1. y = Coming(Im!Turn) /\ entry = [frame |-> Rec(y).frame, ts |-> At(y)]
    BY DEF y, entry
  <2> QED BY <2>1, RecentIs
<1>6. \A x \in Heard : x[1] \in todo[1] /\ Past(x) => Before(x, y)
  BY <1>0, <1>1 DEF ImOrder
<1>e. entry.frame = Rec(y).frame /\ entry.ts = At(y)
  OBVIOUS
<1> HIDE DEF y, entry
<1>7. ASSUME NEW x \in Heard, x[1] \in todo[1], x[2] <= pos'[x[1]], NEW g \in Im!Left'
      PROVE  Before(x, next(g))
  <2>1. CASE x = y
    BY <1>2, <2>1
  <2>2. CASE x # y
    <3>1. Before(x, y) /\ x \in Slots
      BY <1>1, <1>3, <1>6, <1>7, <2>2
    <3> HIDE DEF next
    <3> QED BY <1>0, <1>1, <1>2, <3>1, BeforeOrders
  <2> QED BY <2>1, <2>2
<1>8. ImOrder'
  BY <1>1, <1>4, <1>7 DEF ImOrder, Past, Coming, Before, At, Rec
<1>9. ASSUME NEW e \in recent'
      PROVE  \E x \in Kept : x[1] \in todo[1] /\ x[2] <= pos'[x[1]] /\ e.frame = Rec(x).frame /\ e.ts = At(x)
  <2>1. CASE e = entry /\ y \in Kept
    BY <1>1, <1>3, <1>e, <2>1
  <2>2. CASE e \in recent
    <3>1. PICK x \in Kept : x[1] \in todo[1] /\ Past(x) /\ e.frame = Rec(x).frame /\ e.ts = At(x)
      BY <1>0, <2>2 DEF ImRecent
    <3> QED BY <1>1, <1>3, <3>1
  <2> QED BY <1>5, <1>9, <2>1, <2>2
<1>10. ASSUME NEW x \in Kept, x[1] \in todo[1], x[2] <= pos'[x[1]]
       PROVE  \/ \E e \in recent' : e.frame = Rec(x).frame /\ e.ts >= At(x)
              \/ \A g \in Im!Left' : At(next(g)) - At(x) > DedupWindow
  <2>1. x \in Heard /\ x \in Slots /\ At(x) \in Nat /\ At(y) \in Nat /\ \A g \in Im!Left' : At(next(g)) \in Nat
    BY <1>1, <1>2, <1>3
  <2>2. \A g \in Im!Left' : At(y) <= At(next(g))
    <3> HIDE DEF next
    <3> QED BY <1>0, <1>1, <1>2, BeforeOrders
  <2>3. CASE x = y
    <3>1. At(x) <= At(x)
      BY <2>1
    <3> QED BY <1>5, <1>e, <2>3, <3>1
  <2>4. CASE x # y
    <3>1. Past(x) /\ At(x) <= At(y)
      <4>1. Past(x)
        BY <1>1, <1>10, <2>1, <2>4
      <4>2. Before(x, y)
        BY <1>6, <1>10, <2>1, <4>1
      <4> QED BY <1>0, <1>1, <2>1, <4>1, <4>2, BeforeOrders
    <3>2. ASSUME At(y) - At(x) > DedupWindow
          PROVE  \A g \in Im!Left' : At(next(g)) - At(x) > DedupWindow
      <4> TAKE g \in Im!Left'
      <4>1. At(next(g)) \in Nat /\ At(y) <= At(next(g))
        BY <2>1, <2>2
      <4> HIDE DEF next
      <4> QED BY <1>0, <2>1, <3>2, <4>1
    <3>3. CASE \A g \in Im!Left : At(Coming(g)) - At(x) > DedupWindow
      <4>1. At(y) - At(x) > DedupWindow
        BY <1>1, <3>3 DEF y
      <4> QED BY <3>2, <4>1
    <3>4. ASSUME NEW e \in recent, e.frame = Rec(x).frame, e.ts >= At(x)
          PROVE  \/ \E d \in recent' : d.frame = Rec(x).frame /\ d.ts >= At(x)
                 \/ \A g \in Im!Left' : At(next(g)) - At(x) > DedupWindow
      <4>1. e.ts \in Nat
        <5>1. PICK w \in Kept : e.ts = At(w)
          BY <1>0, <3>4 DEF ImRecent
        <5> QED BY <1>3, <5>1
      <4>2. CASE e \in recent'
        BY <3>4, <4>2
      <4>3. CASE e \notin recent' /\ Rec(y).frame = Rec(x).frame
        <5>1. entry \in recent' /\ entry.ts >= At(x) /\ entry.frame = Rec(x).frame
          BY <1>5, <1>e, <2>1, <3>1, <3>4, <4>3
        <5> QED BY <5>1
      <4>4. CASE e \notin recent' /\ Rec(y).frame # Rec(x).frame
        <5>1. At(y) - e.ts > DedupWindow
          BY <1>5, <3>4, <4>4
        <5>2. At(y) - At(x) > DedupWindow
          BY <1>0, <2>1, <3>4, <4>1, <5>1
        <5> QED BY <3>2, <5>2
      <4> QED BY <4>2, <4>3, <4>4
    <3>5. \/ \E e \in recent : e.frame = Rec(x).frame /\ e.ts >= At(x)
          \/ \A g \in Im!Left : At(Coming(g)) - At(x) > DedupWindow
      BY <1>0, <1>10, <3>1 DEF ImRecent
    <3> QED BY <3>3, <3>4, <3>5
  <2> QED BY <2>3, <2>4
<1>11. ImRecent'
  <2>1. \A x : Rec(x)' = Rec(x) /\ At(x)' = At(x) /\ (Past(x)' <=> x[2] <= pos'[x[1]])
    BY <1>1 DEF Rec, At, Past
  <2>2. \A g : At(Coming(g))' = At(next(g))
    BY <1>1 DEF At, Rec, Coming
  <2> HIDE DEF next
  <2> QED BY <1>1, <1>4, <1>9, <1>10, <2>1, <2>2 DEF ImRecent
<1> QED BY <1>8, <1>11

LEMMA GroupsOnRead ==
  ASSUME Im!Sized, ImTypes, ImGroups, Im!Read
  PROVE  ImGroups'
<1> DEFINE T == Im!Turn
           y == Coming(T)
<1>0. imPc = "thread" /\ todo # <<>> /\ Im!Left # {} /\ upload \in Uploads /\ imJob.state = "running"
  BY DEF Im!Read, ImTypes, TaskTypes, Im!Running
<1>1. /\ T \in todo[1] /\ y[1] = T /\ Im!NextOf(T) = Rec(y) /\ UNCHANGED <<upload, todo>>
      /\ \A f \in DOMAIN upload : f # T => pos'[f] = pos[f]
  BY Advances
<1>2. T \in DOMAIN upload /\ T \in Im!Left /\ pos[T] \in Nat /\ pos[T] + 1 \in 1 .. Len(upload[T]) /\ Im!NextOf(T) = upload[T][pos[T] + 1]
      /\ pos \in [DOMAIN upload -> Nat]
  BY <1>0, TurnIs, LeftIs
<1>3. /\ Len(todo) \in Nat /\ 1 \in 1 .. Len(todo)
      /\ \A i \in 1 .. Len(todo) : todo[i] \in SUBSET DOMAIN upload
  <2>1. todo \in Seq(SUBSET DOMAIN upload)
    BY DEF ImTypes, TaskTypes
  <2> QED BY <1>0, <2>1, EmptySeq, LenProperties, ElementOfSeq
<1>4. \A i \in 1 .. Len(todo) : i # 1 => \A f \in todo[i] : pos'[f] = 0
  <2> SUFFICES ASSUME NEW i \in 1 .. Len(todo), i # 1, NEW f \in todo[i] PROVE pos'[f] = 0
    OBVIOUS
  <2>1. f # T
    BY <1>1, <1>3 DEF ImGroups
  <2> QED BY <1>1, <1>3, <2>1 DEF ImGroups
<1>5. \E i \in 1 .. Len(todo) : T \in todo[i]
  BY <1>1, <1>3
<1>6. pos'[T] = Len(upload[T]) \/ \A j \in 1 .. pos'[T] : upload[T][j].kind # "broken"
  <2>1. IF Rec(y).kind = "broken" THEN pos'[T] = Len(upload[T]) ELSE pos'[T] = pos[T] + 1
    BY <1>1, <1>2 DEF Im!Read
  <2>2. CASE Rec(y).kind # "broken"
    <3>1. pos[T] # Len(upload[T]) /\ Len(upload[T]) \in Nat
      BY <1>0, <1>2, LogFacts
    <3>2. \A j \in 1 .. pos[T] : upload[T][j].kind # "broken"
      BY <1>0, <1>2, <3>1 DEF ImGroups
    <3>3. upload[T][pos[T] + 1].kind # "broken"
      BY <1>1, <1>2, <2>2
    <3>4. \A j \in 1 .. pos[T] + 1 : j \in 1 .. pos[T] \/ j = pos[T] + 1
      BY <1>2
    <3> QED BY <2>1, <2>2, <3>2, <3>3, <3>4
  <2> QED BY <2>1, <2>2
<1>7. \A f \in DOMAIN upload :
        /\ pos'[f] = Len(upload[f]) \/ \E i \in 1 .. Len(todo) : f \in todo[i]
        /\ pos'[f] = Len(upload[f]) \/ \A j \in 1 .. pos'[f] : upload[f][j].kind # "broken"
  <2> TAKE f \in DOMAIN upload
  <2>1. CASE f = T
    BY <1>5, <1>6, <2>1
  <2>2. CASE f # T
    BY <1>0, <1>1, <2>2 DEF ImGroups
  <2> QED BY <2>1, <2>2
<1> QED BY <1>1, <1>4, <1>7 DEF ImGroups, Im!DayOf

LEMMA BatchOnRead ==
  ASSUME Im!Sized, Im!Sorted, ImTypes, ImGroups, ImOrder, ImRecent, ImBatch, ImStore, ImKept, Im!Read
  PROVE  ImBatch' /\ ImStore' /\ ImKept'
<1> DEFINE y == Coming(Im!Turn)
           N == Len(imBatch)
<1>0. /\ imPc = "thread" /\ todo # <<>> /\ upload \in Uploads /\ DedupWindow \in Nat /\ imJob.state = "running"
      /\ imBatch \in Seq(Stored) /\ N \in Nat /\ 1 \in 1 .. Len(todo)
  <2>1. imPc = "thread" /\ todo # <<>> /\ upload \in Uploads /\ DedupWindow \in Nat /\ imJob.state = "running"
    BY DEF Im!Read, ImTypes, Im!Sized, TaskTypes, Im!Running
  <2>2. todo \in Seq(SUBSET DOMAIN upload) /\ imBatch \in Seq(Stored)
    BY DEF ImTypes, TaskTypes
  <2> QED BY <2>1, <2>2, EmptySeq, LenProperties
<1>1. /\ y \in Slots /\ y[1] \in todo[1] /\ Im!Turn \in Im!Left /\ UNCHANGED <<upload, todo, store>>
      /\ \A x \in Heard : x[2] <= pos'[x[1]] <=> Past(x) \/ x = y
  BY Advances
<1>2. /\ imBatch' = (IF y \in Kept /\ Rec(y).kind = "group" THEN Append(imBatch, Telegram(y)) ELSE imBatch)
      /\ imPc' \in {"thread", "query"}
  <2> DEFINE entry == [frame |-> Rec(y).frame, ts |-> At(y)]
  <2> HIDE DEF y, entry
  <2>1. y = Coming(Im!Turn) /\ entry = [frame |-> Rec(y).frame, ts |-> At(y)]
    BY DEF y, entry
  <2> QED BY <2>1, RecentIs
<1>3. Heard' = Heard /\ Kept' = Kept /\ \A x : Rec(x)' = Rec(x) /\ Telegram(x)' = Telegram(x) /\ (Past(x)' <=> x[2] <= pos'[x[1]])
  BY <1>1, LogRests DEF Rec, Telegram, Past
<1>4. /\ Coherent(Kept) /\ Kept \in SUBSET Heard /\ Heard \in SUBSET Slots
      /\ \A x \in Slots : At(x) \in Nat /\ x[1] \in DOMAIN upload /\ Telegram(x) \in Stored
      /\ \A x : Telegram(x)[1] = At(x) /\ Telegram(x)[2] = Rec(x).frame
  BY <1>0, KeptIs, SlotsAre DEF Coherent, Telegram, At
<1>5. ImStore'
  BY <1>1, <1>3 DEF ImStore
<1>6. ASSUME NEW x \in Kept, x[1] \in todo[1], Past(x), y \in Kept
      PROVE  At(x) <= At(y) /\ Telegram(x) # Telegram(y)
  <2>1. Before(x, y) /\ x \in Slots
    BY <1>0, <1>1, <1>4, <1>6 DEF ImOrder
  <2>2. At(x) <= At(y)
    BY <1>0, <1>1, <2>1, BeforeOrders
  <2>3. ASSUME Telegram(x) = Telegram(y) PROVE FALSE
    <3>1. At(x) = At(y) /\ Rec(x).frame = Rec(y).frame
      <4> HIDE DEF y
      <4> QED BY <1>4, <2>3
    <3>2. Mates(x, y)
      <4>1. PICK d \in Int : todo[1] = {f \in DOMAIN upload : Im!DayOf(f) = d}
        BY <1>0 DEF ImGroups
      <4> QED BY <1>1, <1>6, <4>1 DEF Mates
    <3>3. At(y) - At(x) <= DedupWindow
      BY <1>0, <1>1, <1>4, <2>1, <3>1
    <3>4. Copies(x, y)
      BY <2>1, <3>1, <3>2, <3>3 DEF Copies
    <3> QED BY <1>4, <1>6, <3>4 DEF Coherent
  <2> QED BY <2>2, <2>3
<1> HIDE DEF y
<1>7. CASE y \in Kept /\ Rec(y).kind = "group"
  <2>1. imBatch' = Append(imBatch, Telegram(y)) /\ Telegram(y) \in Stored
    BY <1>1, <1>2, <1>4, <1>7
  <2>2. Len(imBatch') = N + 1 /\ imBatch'[N + 1] = Telegram(y) /\ \A k \in 1 .. N : imBatch'[k] = imBatch[k]
    BY <1>0, <2>1, AppendProperties
  <2> HIDE DEF N
  <2>3. \A k \in 1 .. N + 1 : k \in 1 .. N \/ k = N + 1
    BY <1>0
  <2>b. \A k \in 1 .. N : k \in 1 .. N + 1
    BY <1>0
  <2>c. N + 1 \in 1 .. N + 1
    BY <1>0
  <2>4. ASSUME NEW k \in 1 .. N + 1
        PROVE  \E x \in Kept : Rec(x).kind = "group" /\ x[1] \in todo[1] /\ x[2] <= pos'[x[1]] /\ imBatch'[k] = Telegram(x)
    <3>1. CASE k = N + 1
      BY <1>1, <1>4, <1>7, <2>2, <3>1
    <3>2. CASE k \in 1 .. N
      <4>1. PICK x \in Kept : Rec(x).kind = "group" /\ x[1] \in todo[1] /\ Past(x) /\ imBatch[k] = Telegram(x)
        BY <3>2 DEF ImBatch, N
      <4> QED BY <1>1, <1>4, <2>2, <3>2, <4>1
    <3> QED BY <2>3, <3>1, <3>2
  <2>5. ASSUME NEW k \in 1 .. N + 1, NEW l \in 1 .. N + 1, k < l
        PROVE  imBatch'[k][1] <= imBatch'[l][1] /\ imBatch'[k] # imBatch'[l]
    <3>0. k \in 1 .. N
      BY <1>0, <2>5
    <3>1. CASE l = N + 1
      <4>1. PICK x \in Kept : Rec(x).kind = "group" /\ x[1] \in todo[1] /\ Past(x) /\ imBatch[k] = Telegram(x)
        BY <3>0 DEF ImBatch, N
      <4>2. At(x) <= At(y) /\ Telegram(x) # Telegram(y)
        BY <1>6, <1>7, <4>1
      <4>3. imBatch'[k] = Telegram(x) /\ imBatch'[l] = Telegram(y)
        BY <2>2, <3>0, <3>1, <4>1
      <4>4. imBatch'[k][1] = At(x) /\ imBatch'[l][1] = At(y)
        BY <1>4, <4>3
      <4> QED BY <4>2, <4>3, <4>4
    <3>2. CASE l \in 1 .. N
      BY <2>2, <2>5, <3>0, <3>2 DEF ImBatch, N
    <3> QED BY <2>3, <3>1, <3>2
  <2>6. ImBatch'
    BY <1>1, <1>2, <1>3, <2>2, <2>4, <2>5 DEF ImBatch
  <2>7. ASSUME NEW x \in Kept, Rec(x).kind = "group", x[2] <= pos'[x[1]]
        PROVE  (\E i \in 1 .. Len(store) : store[i] = Telegram(x)) \/ (\E k \in 1 .. N + 1 : imBatch'[k] = Telegram(x))
    <3>1. CASE x = y
      BY <2>2, <2>c, <3>1
    <3>2. CASE Past(x)
      <4>1. (\E i \in 1 .. Len(store) : store[i] = Telegram(x)) \/ (\E k \in 1 .. N : imBatch[k] = Telegram(x))
        BY <1>0, <2>7, <3>2 DEF ImKept, N
      <4> QED BY <2>2, <2>b, <4>1
    <3> QED BY <1>1, <1>4, <2>7, <3>1, <3>2
  <2>8. ImKept'
    BY <1>1, <1>3, <2>2, <2>7 DEF ImKept
  <2> QED BY <1>5, <2>6, <2>8
<1>8. CASE ~(y \in Kept /\ Rec(y).kind = "group")
  <2>1. imBatch' = imBatch
    BY <1>2, <1>8
  <2>2. ASSUME NEW k \in 1 .. N
        PROVE  \E x \in Kept : Rec(x).kind = "group" /\ x[1] \in todo[1] /\ x[2] <= pos'[x[1]] /\ imBatch[k] = Telegram(x)
    <3>1. PICK x \in Kept : Rec(x).kind = "group" /\ x[1] \in todo[1] /\ Past(x) /\ imBatch[k] = Telegram(x)
      BY <2>2 DEF ImBatch
    <3> QED BY <1>1, <1>4, <3>1
  <2>3. ImBatch'
    BY <1>1, <1>2, <1>3, <2>1, <2>2 DEF ImBatch
  <2>4. ASSUME NEW x \in Kept, Rec(x).kind = "group", x[2] <= pos'[x[1]]
        PROVE  (\E i \in 1 .. Len(store) : store[i] = Telegram(x)) \/ (\E k \in 1 .. N : imBatch[k] = Telegram(x))
    <3>1. Past(x)
      BY <1>1, <1>4, <1>8, <2>4
    <3> QED BY <1>0, <2>4, <3>1 DEF ImKept
  <2>5. ImKept'
    BY <1>1, <1>3, <2>1, <2>4 DEF ImKept
  <2> QED BY <1>5, <2>3, <2>5
<1> QED BY <1>7, <1>8
-----------------------------------------------------------------------------
(* The other steps keep the ledger. *)
LEMMA LedgerOnRead ==
  ASSUME Im!Sized, ImTypes, ImLedger, Im!Read
  PROVE  ImLedger'
<1>1. ImGroups'
  BY GroupsOnRead DEF ImLedger
<1>2. Im!Sorted' <=> Im!Sorted
  BY LogRests DEF Im!Read, Im!const
<1>3. Im!Sorted => ImOrder' /\ ImRecent'
  BY MergeOnRead DEF ImLedger, ImMerge
<1>4. Im!Sorted => ImBatch' /\ ImStore' /\ ImKept'
  BY BatchOnRead DEF ImLedger, ImMerge
<1> QED BY <1>1, <1>2, <1>3, <1>4 DEF ImLedger, ImMerge

LEMMA LedgerOnStart ==
  ASSUME Im!Sized, ImTypes, ImBooks, ImLedger, NEW c \in {"page", "other"}, Im!Start(c)
  PROVE  ImLedger'
<1>1. /\ UNCHANGED <<upload, store>> /\ imPc' = "thread" /\ imBatch' = <<>> /\ recent' = {}
      /\ todo' = Im!Groups /\ pos' = [f \in DOMAIN upload |-> 0] /\ upload \in Uploads
  BY StartKeepsTypes DEF ImTypes
<1>2. Heard' = Heard /\ Kept' = Kept /\ (Im!Sorted' <=> Im!Sorted) /\ \A x : Rec(x)' = Rec(x) /\ Telegram(x)' = Telegram(x)
  BY <1>1, LogRests DEF Rec, Telegram
<1>3. \A x \in Heard : x[1] \in DOMAIN upload /\ x[2] \in Nat /\ ~(x[2] <= 0)
  BY <1>1, SlotsAre
<1>4. \A x \in Heard : ~Past(x)'
  BY <1>1, <1>3 DEF Past
<1>5. ImGroups'
  <2> DEFINE g == Im!Groups
  <2>1. /\ g \in Seq(SUBSET DOMAIN upload) /\ Len(g) \in Nat
        /\ \A i \in 1 .. Len(g) : \E d \in Int : g[i] = {f \in DOMAIN upload : Im!DayOf(f) = d}
        /\ \A i, j \in 1 .. Len(g) : i # j => g[i] \cap g[j] = {}
        /\ \A f \in DOMAIN upload : \E i \in 1 .. Len(g) : f \in g[i]
    BY <1>1, GroupsAre
  <2> HIDE DEF g
  <2>2. \A i \in 1 .. Len(g) : \A f \in g[i] : f \in DOMAIN upload /\ pos'[f] = 0
    BY <1>1, <2>1
  <2>3. \A f \in DOMAIN upload : \A j \in 1 .. pos'[f] : upload[f][j].kind # "broken"
    BY <1>1
  <2>4. todo' = g
    BY <1>1 DEF g
  <2>5. \A f : Im!DayOf(f)' = Im!DayOf(f)
    BY <1>1 DEF Im!DayOf
  <2>6. /\ \A i \in 1 .. Len(g) : \E d \in Int : g[i] = {f \in DOMAIN upload : Im!DayOf(f) = d}
        /\ \A i, j \in 1 .. Len(g) : i # j => g[i] \cap g[j] = {}
        /\ \A i \in 1 .. Len(g) : i # 1 => \A f \in g[i] : pos'[f] = 0
        /\ \A f \in DOMAIN upload :
             /\ \E i \in 1 .. Len(g) : f \in g[i]
             /\ \A j \in 1 .. pos'[f] : upload[f][j].kind # "broken"
    BY <2>1, <2>2, <2>3
  <2> QED BY <1>1, <2>4, <2>5, <2>6 DEF ImGroups
<1>6. Kept \in SUBSET Heard
  BY <1>1, KeptIs DEF Coherent
<1>7. ImOrder' /\ ImRecent'
  BY <1>1, <1>2, <1>4, <1>6 DEF ImOrder, ImRecent
<1>8. Len(imBatch') = 0
  BY <1>1
<1>9. ImBatch'
  BY <1>1, <1>8 DEF ImBatch
<1>10. ImStore => ImStore'
  BY <1>1, <1>2 DEF ImStore
<1>11. ImKept'
  BY <1>2, <1>4, <1>6 DEF ImKept
<1> QED BY <1>2, <1>5, <1>7, <1>9, <1>10, <1>11 DEF ImLedger, ImMerge

LEMMA LedgerOnEndOfGroup ==
  ASSUME Im!Sized, ImTypes, ImLedger, Im!EndOfGroup
  PROVE  ImLedger'
<1>1. /\ imPc = "thread" /\ todo # <<>> /\ Im!Left = {} /\ imJob.state = "running" /\ upload \in Uploads
      /\ UNCHANGED <<upload, imJob, pos, imBatch, store>>
      /\ \/ imBatch # <<>> /\ imPc' = "query" /\ UNCHANGED <<todo, recent>>
         \/ imBatch = <<>> /\ imPc' = "thread" /\ todo' = Tail(todo) /\ recent' = {}
  BY DEF Im!EndOfGroup, Im!const, ImTypes, TaskTypes, Im!Running
<1>2. Heard' = Heard /\ Kept' = Kept /\ (Im!Sorted' <=> Im!Sorted) /\ \A x : Rec(x)' = Rec(x) /\ Telegram(x)' = Telegram(x)
  BY <1>1, LogRests DEF Rec, Telegram
<1>3. ImStore => ImStore'
  BY <1>1, <1>2 DEF ImStore
<1>4. ImKept => ImKept'
  BY <1>1, <1>2 DEF ImKept, Past
<1>5. CASE imPc' = "query" /\ UNCHANGED <<todo, recent>>
  <2>1. ImGroups'
    BY <1>1, <1>5 DEF ImLedger, ImGroups, Im!DayOf
  <2>2. ImMerge'
    BY <1>1, <1>5, MergeRests DEF ImLedger
  <2>3. ImBatch => ImBatch'
    BY <1>1, <1>2, <1>5 DEF ImBatch, Past
  <2> QED BY <1>2, <1>3, <1>4, <2>1, <2>2, <2>3 DEF ImLedger
<1>6. CASE imBatch = <<>> /\ imPc' = "thread" /\ todo' = Tail(todo) /\ recent' = {}
  <2>1. /\ todo \in Seq(SUBSET DOMAIN upload) /\ Len(todo) \in Nat /\ Len(todo) > 0 /\ Len(todo') = Len(todo) - 1
        /\ \A i \in 1 .. Len(todo') : todo'[i] = todo[i + 1]
    <3>1. todo \in Seq(SUBSET DOMAIN upload)
      BY DEF ImTypes, TaskTypes
    <3>2. Len(todo) \in Nat /\ Len(todo) > 0
      BY <1>1, <3>1, EmptySeq, LenProperties
    <3> QED BY <1>1, <1>6, <3>1, <3>2, HeadTailProperties
  <2>2. \A i \in 1 .. Len(todo') : i + 1 \in 1 .. Len(todo) /\ i + 1 # 1
    BY <2>1
  <2>3. \A i \in 1 .. Len(todo) : i = 1 \/ (i - 1 \in 1 .. Len(todo') /\ (i - 1) + 1 = i)
    BY <2>1
  <2>4. \A f \in todo[1] : pos[f] = Len(upload[f])
    BY <1>1, LeftIs
  <2>5. \A i \in 1 .. Len(todo') : \A f \in todo'[i] : f \in DOMAIN upload /\ pos'[f] = 0
    <3> SUFFICES ASSUME NEW i \in 1 .. Len(todo'), NEW f \in todo'[i] PROVE f \in DOMAIN upload /\ pos'[f] = 0
      OBVIOUS
    <3>1. f \in todo[i + 1] /\ i + 1 \in 1 .. Len(todo) /\ i + 1 # 1
      BY <2>1, <2>2
    <3>2. todo[i + 1] \in SUBSET DOMAIN upload
      BY <2>1, <3>1, ElementOfSeq
    <3>3. pos[f] = 0
      BY <3>1 DEF ImLedger, ImGroups
    <3> QED BY <1>1, <3>1, <3>2, <3>3
  <2>6. ImGroups'
    <3>1. \A i \in 1 .. Len(todo') : \E d \in Int : todo'[i] = {f \in DOMAIN upload : Im!DayOf(f) = d}
      <4> TAKE i \in 1 .. Len(todo')
      <4>1. todo'[i] = todo[i + 1] /\ i + 1 \in 1 .. Len(todo)
        BY <2>1, <2>2
      <4>2. \E d \in Int : todo[i + 1] = {f \in DOMAIN upload : Im!DayOf(f) = d}
        BY <4>1 DEF ImLedger, ImGroups
      <4> QED BY <4>1, <4>2
    <3>2. \A i, j \in 1 .. Len(todo') : i # j => todo'[i] \cap todo'[j] = {}
      <4> SUFFICES ASSUME NEW i \in 1 .. Len(todo'), NEW j \in 1 .. Len(todo'), i # j PROVE todo'[i] \cap todo'[j] = {}
        OBVIOUS
      <4>1. i + 1 \in 1 .. Len(todo) /\ j + 1 \in 1 .. Len(todo) /\ i + 1 # j + 1
        BY <2>1, <2>2
      <4> QED BY <2>1, <4>1 DEF ImLedger, ImGroups
    <3>3. ASSUME NEW f \in DOMAIN upload
          PROVE  /\ pos[f] = Len(upload[f]) \/ \E i \in 1 .. Len(todo') : f \in todo'[i]
                 /\ pos[f] = Len(upload[f]) \/ \A j \in 1 .. pos[f] : upload[f][j].kind # "broken"
      <4>1. pos[f] = Len(upload[f]) \/ \E i \in 1 .. Len(todo) : f \in todo[i]
        BY <1>1 DEF ImLedger, ImGroups
      <4>2. ASSUME NEW i \in 1 .. Len(todo), f \in todo[i]
            PROVE  pos[f] = Len(upload[f]) \/ \E k \in 1 .. Len(todo') : f \in todo'[k]
        <5>1. CASE i = 1
          BY <2>4, <4>2, <5>1
        <5>2. CASE i # 1
          <6>1. todo'[i - 1] = todo[i] /\ i - 1 \in 1 .. Len(todo')
            BY <2>1, <2>3, <5>2
          <6> QED BY <4>2, <6>1
        <5> QED BY <5>1, <5>2
      <4>3. pos[f] = Len(upload[f]) \/ \A j \in 1 .. pos[f] : upload[f][j].kind # "broken"
        BY <1>1 DEF ImLedger, ImGroups
      <4> QED BY <4>1, <4>2, <4>3
    <3> QED BY <1>1, <2>5, <3>1, <3>2, <3>3 DEF ImGroups, Im!DayOf
  <2>7. todo' # <<>> => \A x \in Heard : x[1] \in todo'[1] => ~Past(x)'
    <3> SUFFICES ASSUME todo' # <<>>, NEW x \in Heard, x[1] \in todo'[1] PROVE ~Past(x)'
      OBVIOUS
    <3>1. 1 \in 1 .. Len(todo')
      <4>1. Tail(todo) \in Seq(SUBSET DOMAIN upload)
        BY <1>1, <2>1, HeadTailProperties
      <4> QED BY <1>6, <4>1, EmptySeq, LenProperties
    <3>2. pos'[x[1]] = 0
      BY <2>5, <3>1
    <3>3. x[2] \in Nat /\ x[2] # 0
      BY <1>1, SlotsAre
    <3> QED BY <3>2, <3>3 DEF Past
  <2>8. Kept \in SUBSET Heard
    BY <1>1, KeptIs DEF Coherent
  <2>9. ImOrder' /\ ImRecent'
    BY <1>2, <1>6, <2>7, <2>8 DEF ImOrder, ImRecent
  <2>10. Len(imBatch') = 0
    BY <1>1, <1>6
  <2>11. ImBatch'
    BY <1>6, <2>10 DEF ImBatch
  <2> QED BY <1>2, <1>3, <1>4, <2>6, <2>9, <2>11 DEF ImLedger, ImMerge
<1> QED BY <1>1, <1>5, <1>6

(* A job ends: what is stored stays, and is all of it when the job is done. *)
LEMMA LedgerOnFinish ==
  ASSUME Im!Sized, ImTypes, ImGroups, UNCHANGED <<upload, pos>>, todo' = <<>>, imBatch' = <<>>, imPc' = "none",
         imJob'.state \in {"done", "failed", "cancelled"},
         imJob'.state = "done" => imJob.state = "running" /\ todo = <<>> /\ UNCHANGED store /\ (Im!Sorted => ImKept),
         Im!Sorted => ImStore'
  PROVE  ImLedger'
<1>1. Heard' = Heard /\ Kept' = Kept /\ (Im!Sorted' <=> Im!Sorted) /\ \A x : Rec(x)' = Rec(x) /\ Telegram(x)' = Telegram(x)
  BY LogRests DEF Rec, Telegram
<1>2. Len(todo') = 0 /\ Len(imBatch') = 0
  OBVIOUS
<1>3. ImGroups'
  <2>1. imJob'.state = "done" => Len(todo) = 0
    OBVIOUS
  <2> QED BY <1>2, <2>1 DEF ImGroups
<1>4. ImOrder' /\ ImRecent' /\ ImBatch'
  BY <1>2 DEF ImOrder, ImRecent, ImBatch
<1>5. Im!Sorted => ImKept'
  <2>1. CASE imJob'.state = "done" /\ Im!Sorted
    <3>1. imBatch = <<>> /\ Len(imBatch) = 0
      BY <2>1 DEF ImTypes, TaskTypes
    <3> QED BY <1>1, <2>1, <3>1 DEF ImKept, Past
  <2>2. CASE imJob'.state # "done"
    BY <2>2 DEF ImKept
  <2> QED BY <2>1, <2>2
<1> QED BY <1>1, <1>3, <1>4, <1>5 DEF ImLedger, ImMerge

LEMMA LedgerOnEnds ==
  ASSUME Im!Sized, ImTypes, ImLedger, Im!StopThread \/ Im!Done \/ Im!Fail
  PROVE  ImLedger'
<1>1. /\ imPc # "none" /\ UNCHANGED <<upload, pos, store>> /\ todo' = <<>> /\ imBatch' = <<>> /\ imPc' = "none"
      /\ imJob'.state \in {"done", "failed", "cancelled"} /\ (imJob'.state = "done" => todo = <<>>)
  <2>1. imJob \in Jobs
    BY DEF ImTypes
  <2> QED BY <2>1 DEF Im!StopThread, Im!Done, Im!Fail, Im!Finish, Im!const, Jobs
<1>2. imJob.state = "running"
  BY <1>1 DEF ImTypes, TaskTypes, Im!Running
<1>3. Im!Sorted => ImStore'
  BY <1>1, LogRests DEF ImLedger, ImStore, Telegram, Rec
<1> QED BY <1>1, <1>2, <1>3, LedgerOnFinish DEF ImLedger

(* The query leaves what the store does not have. *)
LEMMA LedgerOnQuery ==
  ASSUME Im!Sized, ImTypes, ImBooks, ImLedger, Im!Query
  PROVE  ImLedger'
<1> DEFINE P == {i \in DOMAIN imBatch : imBatch[i] \notin Im!Existing}
           at == Im!Ascending(P)
           N == Len(imBatch)
<1>1. /\ imPc = "query" /\ imPc' = "insert" /\ UNCHANGED <<upload, todo, store, pos, recent>> /\ imJob'.state = imJob.state
      /\ imBatch' = [k \in DOMAIN at |-> imBatch[at[k]]] /\ imBatch # <<>> /\ upload \in Uploads
  <2>1. UNCHANGED <<upload, todo, store, pos, recent>> /\ imJob'.state = imJob.state
    BY QueryKeepsTypes
  <2>2. imPc = "query" /\ imPc' = "insert" /\ imBatch' = [k \in DOMAIN at |-> imBatch[at[k]]]
    BY DEF Im!Query
  <2> QED BY <2>1, <2>2 DEF ImTypes, TaskTypes
<1>2. /\ imBatch \in Seq(Stored) /\ N \in Nat /\ DOMAIN imBatch = 1 .. N /\ 1 \in 1 .. N /\ N \in 1 .. N
      /\ store \in Seq(Stored) /\ DOMAIN store = 1 .. Len(store)
  <2>1. imBatch \in Seq(Stored) /\ store \in Seq(Stored)
    BY DEF ImTypes, TaskTypes
  <2> QED BY <1>1, <2>1, EmptySeq, LenProperties
<1>3. \A i \in 1 .. N : imBatch[i] \in Stored /\ imBatch[i][1] \in Nat
  BY <1>2, ElementOfSeq DEF Stored
<1>4. P \in SUBSET (1 .. N) /\ \A i \in 1 .. N : i \in P <=> imBatch[i] \notin Im!Existing
  BY <1>2
<1>5. \A t : t \in Im!Existing <=> (\E i \in 1 .. Len(store) : store[i] = t) /\ imBatch[1][1] <= t[1] /\ t[1] <= imBatch[N][1]
  BY <1>2 DEF Im!Existing, Im!ToSet, Im!Last
<1> HIDE DEF P
<1>6. /\ imBatch' \in Seq(Stored) /\ Len(imBatch') <= N
      /\ \A k \in 1 .. Len(imBatch') : \E i \in P : imBatch'[k] = imBatch[i]
      /\ \A i \in P : \E k \in 1 .. Len(imBatch') : imBatch'[k] = imBatch[i]
      /\ \A k, l \in 1 .. Len(imBatch') : k < l => \E i, j \in P : i < j /\ imBatch'[k] = imBatch[i] /\ imBatch'[l] = imBatch[j]
  <2> HIDE DEF at
  <2>1. at = Im!Ascending(P)
    BY DEF at
  <2>2. P \in SUBSET (1 .. Len(imBatch)) /\ imBatch \in Seq(Stored)
    BY <1>2, <1>4
  <2>3. imBatch' = [k \in DOMAIN at |-> imBatch[at[k]]]
    BY <1>1
  <2>4. Thins(imBatch', imBatch, P)
    BY <2>1, <2>2, <2>3, FreshIs
  <2> QED BY <2>4 DEF Thins
<1> HIDE DEF at
<1>7. Heard' = Heard /\ Kept' = Kept /\ (Im!Sorted' <=> Im!Sorted) /\ \A x : Rec(x)' = Rec(x) /\ Telegram(x)' = Telegram(x)
  BY <1>1, LogRests DEF Rec, Telegram
<1>8. ImGroups'
  BY <1>1 DEF ImLedger, ImGroups, Im!DayOf
<1>9. ImMerge'
  BY <1>1, MergeRests DEF ImLedger
<1>10. ASSUME Im!Sorted
       PROVE  ImBatch' /\ ImStore' /\ ImKept'
  <2>1. ImBatch /\ ImStore /\ ImKept
    BY <1>10 DEF ImLedger
  <2>2. ASSUME NEW i \in P, NEW j \in 1 .. Len(store) PROVE imBatch[i] # store[j]
    <3>1. i \in 1 .. N /\ imBatch[i] \notin Im!Existing
      BY <1>4
    <3>2. imBatch[1][1] <= imBatch[i][1] /\ imBatch[i][1] <= imBatch[N][1]
      <4>1. i = 1 \/ imBatch[1][1] <= imBatch[i][1]
        BY <1>2, <2>1, <3>1 DEF ImBatch
      <4>2. i = N \/ imBatch[i][1] <= imBatch[N][1]
        <5>1. i \in 1 .. N /\ N \in Nat
          BY <1>2, <3>1
        <5>2. i = N \/ i < N
          <6> HIDE DEF N
          <6> QED BY <5>1
        <5> QED BY <1>2, <2>1, <5>1, <5>2 DEF ImBatch
      <4>3. imBatch[i][1] <= imBatch[i][1]
        BY <1>3, <3>1
      <4> QED BY <4>1, <4>2, <4>3
    <3> QED BY <1>5, <3>1, <3>2
  <2>3. \A k \in 1 .. Len(imBatch') :
          \E x \in Kept : Rec(x).kind = "group" /\ x[1] \in todo[1] /\ Past(x) /\ imBatch'[k] = Telegram(x)
    <3> TAKE k \in 1 .. Len(imBatch')
    <3>1. PICK i \in P : imBatch'[k] = imBatch[i]
      BY <1>6
    <3> QED BY <1>4, <2>1, <3>1 DEF ImBatch
  <2>4. \A k, l \in 1 .. Len(imBatch') : k < l => imBatch'[k][1] <= imBatch'[l][1] /\ imBatch'[k] # imBatch'[l]
    <3> SUFFICES ASSUME NEW k \in 1 .. Len(imBatch'), NEW l \in 1 .. Len(imBatch'), k < l
                 PROVE  imBatch'[k][1] <= imBatch'[l][1] /\ imBatch'[k] # imBatch'[l]
      OBVIOUS
    <3>1. PICK i \in P, j \in P : i < j /\ imBatch'[k] = imBatch[i] /\ imBatch'[l] = imBatch[j]
      BY <1>6
    <3> QED BY <1>4, <2>1, <3>1 DEF ImBatch
  <2>5. \A k \in 1 .. Len(imBatch'), i \in 1 .. Len(store) : imBatch'[k] # store[i]
    <3> TAKE k \in 1 .. Len(imBatch'), j \in 1 .. Len(store)
    <3>1. PICK i \in P : imBatch'[k] = imBatch[i]
      BY <1>6
    <3> QED BY <2>2, <3>1
  <2>6. ImBatch'
    <3>1. \A x : Past(x)' <=> Past(x)
      BY <1>1 DEF Past
    <3>2. \A k \in 1 .. Len(imBatch') :
            \E x \in Kept' : Rec(x)'.kind = "group" /\ x[1] \in todo'[1] /\ Past(x)' /\ imBatch'[k] = Telegram(x)'
      BY <1>1, <1>7, <2>3, <3>1
    <3>3. \A k \in 1 .. Len(imBatch'), i \in 1 .. Len(store') : imBatch'[k] # store'[i]
      <4>1. store' = store
        BY <1>1
      <4> QED BY <2>5, <4>1
    <3> QED BY <2>4, <3>2, <3>3 DEF ImBatch
  <2>7. ImStore'
    BY <1>1, <1>7, <2>1 DEF ImStore
  <2>8. ImKept'
    <3>1. ASSUME imJob.state \in {"running", "done"}, NEW x \in Kept, Rec(x).kind = "group", Past(x)
          PROVE  (\E i \in 1 .. Len(store) : store[i] = Telegram(x)) \/ (\E k \in 1 .. Len(imBatch') : imBatch'[k] = Telegram(x))
      <4>1. (\E i \in 1 .. Len(store) : store[i] = Telegram(x)) \/ (\E k \in 1 .. N : imBatch[k] = Telegram(x))
        BY <2>1, <3>1 DEF ImKept
      <4>2. ASSUME NEW k \in 1 .. N, imBatch[k] = Telegram(x), k \in P
            PROVE  \E l \in 1 .. Len(imBatch') : imBatch'[l] = Telegram(x)
        BY <1>6, <4>2
      <4>3. ASSUME NEW k \in 1 .. N, imBatch[k] = Telegram(x), k \notin P
            PROVE  \E i \in 1 .. Len(store) : store[i] = Telegram(x)
        BY <1>4, <1>5, <4>3
      <4> QED BY <4>1, <4>2, <4>3
    <3> QED BY <1>1, <1>7, <3>1 DEF ImKept, Past
  <2> QED BY <2>6, <2>7, <2>8
<1> QED BY <1>7, <1>8, <1>9, <1>10 DEF ImLedger

LEMMA LedgerOnInsert ==
  ASSUME Im!Sized, ImTypes, ImBooks, ImLedger, Im!Insert
  PROVE  ImLedger'
<1> DEFINE M == Len(store)
           N == Len(imBatch)
<1>1. /\ imPc = "insert" /\ UNCHANGED <<upload, pos, recent>> /\ store' = store \o imBatch /\ imJob.state = "running"
      /\ \/ imJob'.state = "cancelled" /\ todo' = <<>> /\ imBatch' = <<>> /\ imPc' = "none"
         \/ imJob'.state = "running" /\ imPc' = "thread" /\ imBatch' = <<>> /\ UNCHANGED todo
  <2>1. imPc = "insert" /\ UNCHANGED <<upload, pos, recent>> /\ store' = store \o imBatch
    BY DEF Im!Insert, Im!const
  <2>2. imJob \in Jobs /\ imJob.state = "running"
    BY <2>1 DEF ImTypes, TaskTypes, Im!Running
  <2>3. Im!Count(imJob, "imported", N) \in [state : States, cancel : BOOLEAN, n : [Im!Counters -> Nat]]
        /\ Im!Count(imJob, "imported", N).state = "running"
    <3>1. "imported" \in Im!Counters /\ N \in Nat
      BY LenProperties DEF Im!Counters, ImTypes, TaskTypes
    <3>2. CountsUp(Im!Count(imJob, "imported", N), imJob, "imported", N)
      BY <2>2, <3>1, CountIs
    <3> QED BY <2>2, <3>2 DEF CountsUp, Jobs
  <2> QED BY <2>1, <2>2, <2>3 DEF Im!Insert, Im!Finish
<1>2. /\ store \in Seq(Stored) /\ imBatch \in Seq(Stored) /\ M \in Nat /\ N \in Nat
  BY LenProperties DEF ImTypes, TaskTypes
<1>3. /\ Len(store') = M + N
      /\ \A i \in 1 .. M : store'[i] = store[i]
      /\ \A k \in 1 .. N : store'[M + k] = imBatch[k]
  <2>1. Len(store') = M + N /\ \A i \in 1 .. M + N : store'[i] = IF i <= M THEN store[i] ELSE imBatch[i - M]
    BY <1>1, <1>2, ConcatProperties
  <2>2. \A i \in 1 .. M : i \in 1 .. M + N /\ i <= M
    BY <1>2
  <2>3. \A k \in 1 .. N : M + k \in 1 .. M + N /\ ~(M + k <= M) /\ (M + k) - M = k
    BY <1>2
  <2> HIDE DEF M, N
  <2> QED BY <2>1, <2>2, <2>3
<1> HIDE DEF M, N
<1>4. \A i \in 1 .. M + N : i \in 1 .. M \/ \E k \in 1 .. N : i = M + k
  <2> SUFFICES ASSUME NEW i \in 1 .. M + N, i \notin 1 .. M PROVE \E k \in 1 .. N : i = M + k
    OBVIOUS
  <2>1. i - M \in 1 .. N /\ i = M + (i - M)
    BY <1>2
  <2> QED BY <2>1
<1>5. Heard' = Heard /\ Kept' = Kept /\ (Im!Sorted' <=> Im!Sorted) /\ \A x : Rec(x)' = Rec(x) /\ Telegram(x)' = Telegram(x)
  BY <1>1, LogRests DEF Rec, Telegram
<1>6. ASSUME Im!Sorted
      PROVE  ImStore'
  <2>1. ImBatch /\ ImStore
    BY <1>6 DEF ImLedger
  <2>2. \A i \in 1 .. M + N : \E x \in Kept : Rec(x).kind = "group" /\ store'[i] = Telegram(x)
    <3> TAKE i \in 1 .. M + N
    <3>1. CASE i \in 1 .. M
      BY <1>3, <2>1, <3>1 DEF ImStore, M
    <3>2. ASSUME NEW k \in 1 .. N, i = M + k PROVE \E x \in Kept : Rec(x).kind = "group" /\ store'[i] = Telegram(x)
      BY <1>3, <2>1, <3>2 DEF ImBatch, N
    <3> QED BY <1>4, <3>1, <3>2
  <2>3. \A k, l \in 1 .. N : imBatch[k] = imBatch[l] => k = l
    <3> SUFFICES ASSUME NEW k \in 1 .. N, NEW l \in 1 .. N, k # l PROVE imBatch[k] # imBatch[l]
      OBVIOUS
    <3>1. k < l \/ l < k
      BY <1>2
    <3> QED BY <2>1, <3>1 DEF ImBatch, N
  <2>4. \A k \in 1 .. N : \A i \in 1 .. M : imBatch[k] # store[i]
    BY <1>1, <2>1 DEF ImBatch, M, N
  <2>5. \A i, j \in 1 .. M + N : store'[i] = store'[j] => i = j
    <3> SUFFICES ASSUME NEW i \in 1 .. M + N, NEW j \in 1 .. M + N, store'[i] = store'[j] PROVE i = j
      OBVIOUS
    <3>1. CASE i \in 1 .. M /\ j \in 1 .. M
      BY <1>3, <2>1, <3>1 DEF ImStore, M
    <3>2. ASSUME i \in 1 .. M, NEW k \in 1 .. N, j = M + k PROVE FALSE
      BY <1>3, <2>4, <3>2
    <3>3. ASSUME j \in 1 .. M, NEW k \in 1 .. N, i = M + k PROVE FALSE
      BY <1>3, <2>4, <3>3
    <3>4. ASSUME NEW k \in 1 .. N, i = M + k, NEW l \in 1 .. N, j = M + l PROVE i = j
      BY <1>3, <2>3, <3>4
    <3> QED BY <1>4, <3>1, <3>2, <3>3, <3>4
  <2> QED BY <1>3, <1>5, <2>2, <2>5 DEF ImStore
<1>7. CASE imJob'.state = "cancelled" /\ todo' = <<>> /\ imBatch' = <<>> /\ imPc' = "none"
  BY <1>1, <1>6, <1>7, LedgerOnFinish DEF ImLedger
<1>8. CASE imJob'.state = "running" /\ imPc' = "thread" /\ imBatch' = <<>> /\ UNCHANGED todo
  <2>1. ImGroups'
    BY <1>1, <1>8 DEF ImLedger, ImGroups, Im!DayOf
  <2>2. ImMerge'
    BY <1>1, <1>8, MergeRests DEF ImLedger
  <2>3. Len(imBatch') = 0
    BY <1>8
  <2>4. ImBatch'
    BY <1>8, <2>3 DEF ImBatch
  <2>5. ASSUME Im!Sorted PROVE ImKept'
    <3>1. ASSUME NEW x \in Kept, Rec(x).kind = "group", Past(x)
          PROVE  \E i \in 1 .. M + N : store'[i] = Telegram(x)
      <4>1. (\E i \in 1 .. M : store[i] = Telegram(x)) \/ (\E k \in 1 .. N : imBatch[k] = Telegram(x))
        BY <1>1, <2>5, <3>1 DEF ImLedger, ImKept, M, N
      <4>2. \A i \in 1 .. M : i \in 1 .. M + N
        BY <1>2
      <4>3. \A k \in 1 .. N : M + k \in 1 .. M + N
        BY <1>2
      <4> QED BY <1>3, <4>1, <4>2, <4>3
    <3> QED BY <1>1, <1>3, <1>5, <3>1 DEF ImKept, Past
  <2> QED BY <1>5, <1>6, <2>1, <2>2, <2>4, <2>5 DEF ImLedger
<1> QED BY <1>1, <1>7, <1>8
-----------------------------------------------------------------------------
ImInvariant == ImAccounts /\ ImLedger

LEMMA ImLedgerInit == Im!Sized /\ Im!Init => ImLedger
<1> SUFFICES ASSUME Im!Sized, Im!Init PROVE ImLedger
  OBVIOUS
<1>1. todo = <<>> /\ imBatch = <<>> /\ store = <<>> /\ imJob.state = "idle" /\ imPc = "none"
  BY DEF Im!Init, Im!NoJob
<1>2. Len(todo) = 0 /\ Len(imBatch) = 0 /\ Len(store) = 0
  BY <1>1
<1>3. ImGroups /\ ImOrder /\ ImRecent /\ ImBatch /\ ImStore /\ ImKept
  BY <1>1, <1>2 DEF ImGroups, ImOrder, ImRecent, ImBatch, ImStore, ImKept
<1> QED BY <1>3 DEF ImLedger, ImMerge

LEMMA ImLedgerStep ==
  ASSUME Im!Sized, ImAccounts, ImLedger, [Im!Next]_Im!vars
  PROVE  ImLedger'
<1>0. ImTypes /\ ImBooks
  BY DEF ImAccounts
<1>1. ASSUME NEW c \in {"page", "other"}, Im!BeginUpload(c) \/ Im!UploadFails(c) \/ Im!Refuse(c) PROVE ImLedger'
  BY <1>0, <1>1, UploadsKeep, LedgerRests
<1>2. ASSUME NEW c \in {"page", "other"}, Im!Start(c) PROVE ImLedger'
  BY <1>0, <1>2, LedgerOnStart
<1>3. CASE Im!Cancel
  BY <1>0, <1>3, CancelKeepsTypes, LedgerRests
<1>4. CASE Im!TaskStep \/ Im!Fail
  BY <1>0, <1>4, LedgerOnRead, LedgerOnEndOfGroup, LedgerOnEnds, LedgerOnQuery, LedgerOnInsert DEF Im!TaskStep
<1>5. CASE Im!PageStep \/ Im!Lose \/ Im!Mount
  <2>1. UNCHANGED <<imHabits, upload, uploading, temps, imJob, jobs, imPc, todo, pos, recent, lastPrune, imBatch,
                    store, export>>
    BY <1>0, <1>5, PageKeeps DEF Im!PageStep, ImTypes
  <2> QED BY <2>1, LedgerRests
<1>6. CASE Im!BeginExport \/ Im!ExportPage \/ Im!EndExport
  <2>1. UNCHANGED <<upload, imJob, imPc, todo, pos, recent, imBatch, store>>
    BY <1>6 DEF Im!BeginExport, Im!ExportPage, Im!EndExport, Im!const, Im!task
  <2> QED BY <2>1, LedgerRests
<1>7. CASE UNCHANGED Im!vars
  <2>1. UNCHANGED <<upload, imJob, imPc, todo, pos, recent, imBatch, store>>
    BY <1>7 DEF Im!vars, Im!const, Im!task
  <2> QED BY <2>1, LedgerRests
<1> QED BY <1>1, <1>2, <1>3, <1>4, <1>5, <1>6, <1>7 DEF Im!Next

(* What the ledger shows. *)
LEMMA ImLedgerShows ==
  ASSUME Im!Sized, ImTypes, ImLedger
  PROVE  Im!NeverTwice /\ Im!OncePerWindow /\ Im!DoneMeansStored
<1>0. /\ upload \in Uploads /\ store \in Seq(Stored) /\ DOMAIN store = 1 .. Len(store) /\ DedupWindow \in Nat
  BY LenProperties DEF ImTypes, Im!Sized
<1>1. /\ Coherent(Kept) /\ Kept \in SUBSET Heard /\ Heard \in SUBSET Slots
      /\ \A x \in Slots : /\ At(x) \in Nat /\ x[1] \in DOMAIN upload /\ x[2] \in DOMAIN upload[x[1]]
                          /\ x[2] \in 1 .. Len(upload[x[1]])
      /\ \A x : Telegram(x)[1] = At(x) /\ Telegram(x)[2] = Rec(x).frame
  <2>1. \A x \in Slots : x[2] \in DOMAIN upload[x[1]]
    BY DEF Slots
  <2> QED BY <1>0, <2>1, KeptIs, SlotsAre DEF Coherent, Telegram, At
<1>2. Im!NeverTwice
  BY <1>0 DEF ImLedger, ImStore, Im!NeverTwice, Im!IsInjective
<1>3. ASSUME Im!Sorted, Im!Daily, NEW i \in DOMAIN store, NEW j \in DOMAIN store, i # j,
             store[i][2] = store[j][2], store[i][1] \div Day = store[j][1] \div Day, store[i][1] <= store[j][1]
      PROVE  store[j][1] - store[i][1] > DedupWindow
  <2>1. PICK x \in Kept : store[i] = Telegram(x)
    BY <1>0, <1>3 DEF ImLedger, ImStore
  <2>2. PICK y \in Kept : store[j] = Telegram(y)
    BY <1>0, <1>3 DEF ImLedger, ImStore
  <2>3. x \in Slots /\ y \in Slots /\ At(x) \in Nat /\ At(y) \in Nat
    BY <1>1
  <2>4. /\ store[i][1] = At(x) /\ store[j][1] = At(y) /\ Rec(x).frame = Rec(y).frame /\ At(x) <= At(y)
        /\ At(x) \div Day = At(y) \div Day
    BY <1>1, <1>3, <2>1, <2>2
  <2>5. At(x) # At(y)
    <3>1. SUFFICES ASSUME At(x) = At(y) PROVE FALSE
      OBVIOUS
    <3>2. Telegram(x) = Telegram(y)
      BY <2>4, <3>1 DEF Telegram, At
    <3> QED BY <1>0, <1>3, <2>1, <2>2, <3>2 DEF ImLedger, ImStore
  <2>6. Before(x, y)
    BY <2>3, <2>4, <2>5 DEF Before
  <2>7. Mates(x, y)
    <3>1. At(x) \div Day = Im!DayOf(x[1]) /\ At(y) \div Day = Im!DayOf(y[1])
      BY <1>1, <1>3, <2>3 DEF Im!Daily, At, Rec
    <3> QED BY <2>4, <3>1 DEF Mates
  <2>8. ~(At(y) - At(x) <= DedupWindow)
    BY <1>1, <2>4, <2>6, <2>7 DEF Copies, Coherent
  <2> QED BY <1>0, <2>3, <2>4, <2>8
<1>4. Im!OncePerWindow
  BY <1>3 DEF Im!OncePerWindow
<1>5. ASSUME imJob.state = "done", Im!Sorted, Im!Whole, NEW f \in DOMAIN upload, NEW i \in DOMAIN upload[f],
             upload[f][i].kind = "group"
      PROVE  \E t \in Im!ToSet(store) : t[2] = upload[f][i].frame /\ upload[f][i].ts - t[1] \in 0 .. DedupWindow
  <2> DEFINE y == <<f, i>>
  <2>1. todo = <<>> /\ imBatch = <<>> /\ Len(todo) = 0 /\ Len(imBatch) = 0
    BY <1>5 DEF ImTypes, TaskTypes, Im!Running
  <2>2. \A g \in DOMAIN upload : pos[g] = Len(upload[g])
    <3>1. \A k \in 1 .. Len(todo) : FALSE
      BY <2>1
    <3> QED BY <1>5, <3>1 DEF ImLedger, ImGroups
  <2>3. /\ y \in Slots /\ Rec(y) = upload[f][i] /\ At(y) = upload[f][i].ts /\ y[1] = f /\ y[2] = i
        /\ DOMAIN upload[f] = 1 .. Len(upload[f])
    <3>1. DOMAIN upload[f] = 1 .. Len(upload[f])
      BY <1>0, LogFacts
    <3> QED BY <1>0, <3>1, SlotsAre DEF Rec, At
  <2>4. y \in Heard
    <3>1. \A j \in 1 .. i : j \in DOMAIN upload[f]
      BY <1>0, <2>3, LogFacts
    <3>2. \A j \in 1 .. i : upload[f][j].kind # "broken"
      BY <1>5, <3>1 DEF Im!Whole
    <3> QED BY <1>5, <2>3, <3>2 DEF Heard
  <2>5. \A x \in Kept : Past(x)
    <3> SUFFICES ASSUME NEW x \in Kept PROVE Past(x)
      OBVIOUS
    <3>1. x[1] \in DOMAIN upload /\ x[2] \in 1 .. Len(upload[x[1]])
      BY <1>1
    <3>2. pos[x[1]] = Len(upload[x[1]])
      BY <2>2, <3>1
    <3>3. Len(upload[x[1]]) \in Nat
      BY <1>0, <3>1, LogFacts
    <3> QED BY <3>1, <3>2, <3>3 DEF Past
  <2>6. \A x \in Kept : Rec(x).kind = "group" => Telegram(x) \in Im!ToSet(store)
    <3> SUFFICES ASSUME NEW x \in Kept, Rec(x).kind = "group" PROVE Telegram(x) \in Im!ToSet(store)
      OBVIOUS
    <3>1. PICK k \in 1 .. Len(store) : store[k] = Telegram(x)
      BY <1>5, <2>1, <2>5 DEF ImLedger, ImKept
    <3> QED BY <1>0, <3>1 DEF Im!ToSet
  <2> HIDE DEF y
  <2>7. CASE y \in Kept
    <3>1. Telegram(y) \in Im!ToSet(store) /\ At(y) \in Nat /\ At(y) - At(y) \in 0 .. DedupWindow
      BY <1>0, <1>1, <1>5, <2>3, <2>6, <2>7
    <3> QED BY <1>1, <2>3, <3>1
  <2>8. CASE y \notin Kept
    <3>1. PICK x \in Kept : Copies(x, y)
      BY <1>1, <2>4, <2>8 DEF Coherent
    <3>2. x \in Slots /\ x \in Heard /\ Rec(x).frame = Rec(y).frame /\ At(y) - At(x) <= DedupWindow /\ Before(x, y)
      BY <1>1, <3>1 DEF Copies
    <3>3. Rec(x).kind = "group"
      <4>1. Rec(x) \in Im!Records /\ Rec(y) \in Im!Records
        BY <1>0, <1>1, <2>3, <3>2, LogFacts DEF Rec
      <4>2. Rec(x).kind \in {"group", "device"}
        BY <3>2 DEF Heard
      <4> QED BY <1>5, <2>3, <3>2, <4>1, <4>2 DEF Im!Sized
    <3>4. At(x) <= At(y)
      BY <1>0, <2>3, <3>2, BeforeOrders
    <3>5. At(y) - At(x) \in 0 .. DedupWindow
      BY <1>0, <1>1, <2>3, <3>2, <3>4
    <3>6. Telegram(x) \in Im!ToSet(store)
      BY <2>6, <3>3
    <3> QED BY <1>1, <2>3, <3>2, <3>5, <3>6
  <2> QED BY <2>7, <2>8
<1>6. Im!DoneMeansStored
  BY <1>5 DEF Im!DoneMeansStored
<1> QED BY <1>2, <1>4, <1>6

(* The import is exact for any logs, any number of files, days and copies, any
   window and batch, any number of jobs, cancelled, failed and repeated: what it
   stores, counts, leaves behind and hands out is right. *)
THEOREM ImportIsExactHolds ==
  ASSUME Im!Sized
  PROVE  Im!Spec => []Im!ImportIsExact
<1>1. Im!Init => ImInvariant
  BY ImAccountsInit, ImLedgerInit DEF ImInvariant
<1>2. ImInvariant /\ [Im!Next]_(Im!vars) => ImInvariant'
  BY ImAccountsStep, ImLedgerStep DEF ImInvariant
<1>3. ImInvariant => Im!ImportIsExact
  BY ImAccountsShow, ImLedgerShows DEF ImInvariant, ImAccounts, Im!ImportIsExact
<1> QED BY <1>1, <1>2, <1>3, PTL DEF Im!Spec
=============================================================================
