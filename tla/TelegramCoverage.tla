-------------------------- MODULE TelegramCoverage --------------------------
(***************************************************************************)
(* TelegramCoverageService (telegram-coverage-service.ts): the list of     *)
(* covered intervals [start, end], kept sorted, merged and disjoint, and   *)
(* the start of the open live interval.  Every method is an operator on    *)
(* the interval list and an action of the state machine.                   *)
(***************************************************************************)
EXTENDS Integers, Sequences, FiniteSets

CONSTANTS
  Time,         \* the milliseconds the methods are called with
  NoLive        \* null: no live interval is open

ASSUME TimeAssumption == Time \subseteq Nat
ASSUME NoLiveIsNull == NoLive \notin Int

VARIABLES
  covered,      \* _covered: a sequence of pairs <<start, end>>
  liveStart     \* _liveStart

vars == <<covered, liveStart>>

Larger(a, b) == IF a >= b THEN a ELSE b

Final(list) == list[Len(list)]

(* sort by start, which is stable: an element's place counts those that go
   before it. *)
GoesBefore(list, j, i) ==
  \/ list[j][1] < list[i][1]
  \/ list[j][1] = list[i][1] /\ j < i

Place(list, i) == 1 + Cardinality({j \in DOMAIN list : GoesBefore(list, j, i)})

StandsAt(list, k) == CHOOSE i \in DOMAIN list : Place(list, i) = k

SortedByStart(list) == [k \in DOMAIN list |-> list[StandsAt(list, k)]]

(* One round of the loop of addCovered: an interval that starts inside the
   last merged one, or on its end, is folded into it. *)
MergeInto(merged, iv) ==
  IF merged # <<>> /\ iv[1] <= Final(merged)[2]
  THEN [merged EXCEPT ![Len(merged)] = <<@[1], Larger(@[2], iv[2])>>]
  ELSE Append(merged, iv)

(* What is merged after so many rounds over the sorted list. *)
Merging(list) ==
  LET merged[n \in 0 .. Len(list)] ==
        IF n = 0 THEN <<>> ELSE MergeInto(merged[n - 1], list[n])
  IN  merged

AddCoveredUnmerged(list, start, end) ==          \* deviation
  IF end < start THEN list ELSE SortedByStart(Append(list, <<start, end>>))

AddCovered(list, start, end) ==
  IF end < start THEN list
  ELSE LET sorted == SortedByStart(Append(list, <<start, end>>))
       IN  Merging(sorted)[Len(sorted)]

(* One round of the loop of gaps: the cursor moves behind an interval and
   leaves a gap in front of it if it was not there yet. *)
GapStep(acc, iv, end) ==
  IF iv[2] < acc.cursor \/ iv[1] > end \/ acc.cursor > end THEN acc
  ELSE [cursor |-> Larger(acc.cursor, iv[2] + 1),
        gaps   |-> IF iv[1] > acc.cursor
                   THEN Append(acc.gaps, <<acc.cursor, iv[1] - 1>>)
                   ELSE acc.gaps]

GapWalk(list, start, end) ==
  LET walked[n \in 0 .. Len(list)] ==
        IF n = 0 THEN [cursor |-> start, gaps |-> <<>>]
        ELSE GapStep(walked[n - 1], list[n], end)
  IN  walked

Gaps(list, start, end) ==
  IF end < start THEN <<>>
  ELSE LET w == GapWalk(list, start, end)[Len(list)]
       IN  IF w.cursor <= end THEN Append(w.gaps, <<w.cursor, end>>) ELSE w.gaps

IsCovered(list, start, end) == Gaps(list, start, end) = <<>>

(* filter: what is kept after so many intervals. *)
KeepOne(kept, iv, min) == IF iv[2] >= min THEN Append(kept, iv) ELSE kept

Keeping(list, min) ==
  LET kept[n \in 0 .. Len(list)] ==
        IF n = 0 THEN <<>> ELSE KeepOne(kept[n - 1], list[n], min)
  IN  kept

TrimListWhole(list, min) == Keeping(list, min)[Len(list)]     \* deviation

TrimList(list, min) ==
  LET kept == Keeping(list, min)[Len(list)]
  IN  [i \in DOMAIN kept |-> <<Larger(kept[i][1], min), kept[i][2]>>]
-----------------------------------------------------------------------------
Init == covered = <<>> /\ liveStart = NoLive

AddCoveredOp(start, end) ==
  /\ covered' = AddCovered(covered, start, end)
  /\ UNCHANGED liveStart

ExtendLiveOp(ts) ==
  /\ covered' = AddCovered(covered, IF liveStart = NoLive THEN ts ELSE liveStart, ts)
  /\ liveStart' = ts

CloseLiveOp == liveStart' = NoLive /\ UNCHANGED covered

TrimOp(min) ==
  /\ covered' = TrimList(covered, min)
  /\ liveStart' = IF liveStart = NoLive THEN NoLive ELSE Larger(liveStart, min)

ClearOp == covered' = <<>> /\ liveStart' = NoLive

Next ==
  \/ \E s, e \in Time : AddCoveredOp(s, e)
  \/ \E t \in Time : ExtendLiveOp(t)
  \/ CloseLiveOp
  \/ \E m \in Time : TrimOp(m)
  \/ ClearOp

Spec == Init /\ [][Next]_vars
-----------------------------------------------------------------------------
(* The set of milliseconds an interval list stands for. *)
Points(list) == UNION {list[i][1] .. list[i][2] : i \in DOMAIN list}

(* Sorted by start, every interval non-empty and strictly after the one
   before it: the early exits of gaps and the reading of covered[0] as the
   oldest covered instant rely on it. *)
Canonical(list) ==
  /\ \A i \in DOMAIN list : list[i][1] <= list[i][2]
  /\ \A i \in 1 .. Len(list) - 1 : list[i][2] < list[i + 1][1]

(* gaps of a request is exactly the uncovered part of it, as a sorted list of
   separated intervals none of which could be larger: the caller fetches
   every missing millisecond, none twice, and none that it already has. *)
GapsExact(list, s, e) ==
  LET g == Gaps(list, s, e) IN
    /\ Points(g) = (s .. e) \ Points(list)
    /\ \A i \in DOMAIN g : g[i][1] <= g[i][2]
    /\ \A i \in 1 .. Len(g) - 1 : g[i][2] + 1 < g[i + 1][1]
    /\ IsCovered(list, s, e) <=> (s .. e) \subseteq Points(list)

(* The interval list implements the set of milliseconds: the abstract
   specification of coverage that the telegram cache relies on. *)
AbstractCoverage ==
  INSTANCE CoveragePromise WITH cov <- [pts |-> Points(covered), live |-> liveStart]

ImplementsCoveragePromise == AbstractCoverage!Spec

(* The interval list is canonical and answers exactly what is missing, after
   any loads, live stretches, evictions and clears (telegram-coverage-service.ts:26-99). *)
ListIsExact == Canonical(covered) /\ \A s, e \in Time : GapsExact(covered, s, e)
=============================================================================
