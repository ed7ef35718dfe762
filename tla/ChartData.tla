------------------------------ MODULE ChartData ------------------------------
(***************************************************************************)
(* What the visualization draws for a set of telegrams, the selected group  *)
(* addresses and the datatypes chosen for untyped ones: the values by       *)
(* metric, the charts a metric is split into, the range of time shown.      *)
(*                                                                          *)
(* A telegram has an address, an instant and one of the forms "number" and  *)
(* "switch" (typed, with a value), "text" (typed, no number), "bytes" (no   *)
(* datatype in the project) and "read" (no value).  An address has at most  *)
(* one telegram at an instant.                                              *)
(***************************************************************************)
EXTENDS Integers, FiniteSets, Sequences, SequencesExt

CONSTANTS None

(* The part of the state that is drawn: telegrams, the selection in its
   order, the datatype per address, zoom, pins and locks. *)
Gas(ts) == {t.ga : t \in ts}
Newest(ts) == CHOOSE t \in ts : \A u \in ts : u.ts <= t.ts

-----------------------------------------------------------------------------
(* useChartData. *)

(* A datatype that does not fit the payload decodes to nothing. *)
Decoded(t, key) == IF key = "fits" THEN t.value ELSE None

Numeric(t, over) ==
  IF t.form \in {"number", "switch"} THEN t.value
  ELSE IF t.form = "bytes" THEN Decoded(t, over[t.ga]) ELSE None

(* Untyped telegrams of an address that has typed ones are from before the
   project was imported. *)
Plotted(v) ==
  LET chosen == {t \in v.telegrams : t.ga \in ToSet(v.selected)}
  IN {t \in chosen : t.form # "read" /\ (t.typed \/ \A u \in chosen : u.ga = t.ga => ~ u.typed)}

MinTime(v) == CHOOSE n \in {t.ts : t \in Plotted(v)} : \A t \in Plotted(v) : n <= t.ts
MaxTime(v) == Newest(Plotted(v)).ts
HasData(v) == Plotted(v) # {}

EventGas(v) ==
  Gas(Plotted(v)) \ Gas({t \in Plotted(v) : t.form = "switch" \/ Numeric(t, v.over) # None})

BucketKey(t, over) ==
  IF t.form = "switch" THEN "binary"
  ELSE IF ~ t.typed /\ over[t.ga] # None THEN over[t.ga] ELSE t.unit

Rows(v, unit) ==
  {t \in Plotted(v) : IF t.ga \in EventGas(v) THEN unit = "events" ELSE BucketKey(t, v.over) = unit}

Units(v) == {IF t.ga \in EventGas(v) THEN "events" ELSE BucketKey(t, v.over) : t \in Plotted(v)}

FirstUnit(v, a) ==  \* deviation
  IF a \in EventGas(v) THEN "events"
  ELSE BucketKey(CHOOSE t \in Plotted(v) : t.ga = a /\ \A u \in Plotted(v) : u.ga = a => t.ts <= u.ts, v.over)

(* Later telegrams overwrite the metric of an address. *)
UnitOf(v, a) ==
  IF a \in EventGas(v) THEN "events"
  ELSE BucketKey(Newest({t \in Plotted(v) : t.ga = a}), v.over)

(* Every series reaches out to the newest telegram of all. *)
Columns(v, unit) == {t.ts : t \in Rows(v, unit)} \cup {MaxTime(v)}

(* An event is drawn where it happened and not held. *)
Occurs(v, a, at) == \E t \in Rows(v, "events") : t.ga = a /\ t.ts = at

(* The value held at an instant. *)
Held(v, unit, a, at) ==
  LET rows == {t \in Rows(v, unit) : t.ga = a /\ t.ts <= at /\ Numeric(t, v.over) # None}
  IN IF unit = "events" THEN IF Occurs(v, a, at) THEN 1 ELSE None
     ELSE IF rows = {} THEN None ELSE Numeric(Newest(rows), v.over)

(* The bars of an address in the binary timeline, to its next column or the
   right end of the plot; the label an event shows when nothing is hovered. *)
Bars(v, a, end) ==
  LET cs == SetToSortSeq(Columns(v, "binary"), <)
      to(i) == IF i < Len(cs) THEN cs[i + 1] ELSE end
  IN {[from |-> cs[i], to |-> to(i), on |-> Held(v, "binary", a, cs[i]) = 1] :
        i \in {j \in DOMAIN cs : Held(v, "binary", a, cs[j]) # None /\ cs[j] < to(j)}}
LastLabel(v, a) == Newest({t \in Rows(v, "events") : t.ga = a}).value

(* The value in the legend while no chart is hovered: that of the last column. *)
LegendAtRest(v, unit, a) == IF unit = "events" THEN LastLabel(v, a) ELSE Held(v, unit, a, MaxTime(v))

-----------------------------------------------------------------------------
(* splitLockedBuckets: the addresses of a metric in the order of their
   selection, cut at the locks. *)

InAnyOrder(v, unit) == SelectSeq(v.selected, LAMBDA a : a \in Gas(Rows(v, unit)))  \* deviation

Ordered(v, unit) ==
  SelectSeq(v.selected, LAMBDA a : a \in Gas(Rows(v, unit)) /\ UnitOf(v, a) = unit)

Slices(all, cuts) ==
  LET sorted == <<0>> \o SetToSortSeq(cuts, <) \o <<Len(all)>>
  IN [i \in 1..(Len(sorted) - 1) |->
        SubSeq(all, sorted[i] + 1, IF sorted[i + 1] < Len(all) THEN sorted[i + 1] ELSE Len(all))]

(* The charts of a metric, each the sequence of its addresses. *)
Charts(v, unit) ==
  IF v.locks[unit] = <<>> THEN <<Ordered(v, unit)>>
  ELSE SelectSeq(Slices(Ordered(v, unit), ToSet(v.locks[unit])), LAMBDA s : s # <<>>)

(* A chart goes by its metric, and its position when the metric is locked. *)
ChartKeys(v) ==
  UNION {{<<unit, IF v.locks[unit] = <<>> THEN 0 ELSE i>> : i \in DOMAIN Charts(v, unit)} : unit \in Units(v)}
Members(v, key) == Charts(v, key[1])[IF key[2] = 0 THEN 1 ELSE key[2]]
OpenChart(v, unit) == Last(Charts(v, unit))

-----------------------------------------------------------------------------
(* The range of time. *)

Pad == 60
Low(a, b) == IF a < b THEN a ELSE b
High(a, b) == IF a > b THEN a ELSE b

ExpandDegenerateRange(range) ==
  IF range[2] > range[1] THEN range ELSE <<range[1] - Pad, range[2] + Pad>>

DefaultRange(v) == ExpandDegenerateRange(IF HasData(v) THEN <<MinTime(v), MaxTime(v)>> ELSE <<0, 0>>)

Unclamped(v) == v.zoom  \* deviation

NotFollowed(v) ==  \* deviation
  LET within(n) == High(MinTime(v), Low(MaxTime(v), n))
  IN <<within(v.zoom[1]), High(within(v.zoom[1]), within(v.zoom[2]))>>

(* A pinned handle is at the edge of the data, the other within it. *)
Zoomed(v) ==
  LET within(n) == High(MinTime(v), Low(MaxTime(v), n))
      left == IF v.pinned.left THEN MinTime(v) ELSE within(v.zoom[1])
  IN <<left, IF v.pinned.right THEN MaxTime(v) ELSE High(left, within(v.zoom[2]))>>

ActiveRange(v) == IF v.zoom = None \/ ~ HasData(v) THEN DefaultRange(v) ELSE Zoomed(v)

BrushShown(v) == HasData(v) /\ MinTime(v) < MaxTime(v)

(* The left gutter all charts share: a metric needs more for large numbers,
   lanes need room for their names. *)
GutterFor(v, unit) ==
  IF unit \in {"binary", "events"} THEN 2
  ELSE IF \E t \in Rows(v, unit) :
            t.ga \in ToSet(Ordered(v, unit)) /\ Numeric(t, v.over) \notin {None} \cup 0..9 THEN 3 ELSE 1
SharedLeftGutter(v) == IF HasData(v) THEN CHOOSE n \in 1..3 :
  (\E u \in Units(v) : GutterFor(v, u) = n) /\ \A u \in Units(v) : GutterFor(v, u) <= n ELSE 0
=============================================================================
