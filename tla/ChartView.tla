------------------------------ MODULE ChartView ------------------------------
(***************************************************************************)
(* The visualization panel: the selection of targets, datatypes for untyped *)
(* ones, locks, the zoom with its brush and pinned edges, the charts with   *)
(* the snapshot their legend reads, clicks that navigate after a delay, and *)
(* the heights of the charts.                                               *)
(***************************************************************************)
EXTENDS ChartData

CONSTANTS
  Pool,        \* the telegrams there can be
  Targets,     \* group addresses
  Metrics,     \* all metrics
  Stretches,   \* the stretches of a chart that are selected
  Heights,     \* the heights a chart can be dragged to
  MaxHeld,     \* bound on the telegrams in the buffer
  MaxLocks,    \* bound on the locks of a metric
  MaxClicks,   \* bound on the clicks
  Envs         \* sets of habits

Habits ==
  {"live",     \* telegrams arrive
   "history",  \* older telegrams are loaded, between others as well
   "evicts",   \* the oldest telegram leaves the buffer
   "selects",  \* targets are selected and deselected
   "retypes",  \* datatypes are chosen
   "locks",    \* charts are locked
   "zooms",    \* the brush and the charts are dragged
   "hovers",   \* the pointer rests on a chart
   "clicks",   \* a chart is clicked, or double-clicked
   "resizes",  \* charts are dragged to another height
   "reopens"}  \* the panel is closed and opened

VARIABLES
  habits,  \* fixed
  open,
  view,    \* what is drawn: telegrams, selected, over, zoom, pinned, locks
  drag,    \* the brush is dragged: which handle, and the range at its start
  built,   \* per chart, the view its options were made of
  armed,   \* navigations that wait for their delay
  asked, went,  \* single clicks and navigations; ghosts
  height,  \* per chart on screen, the height it was dragged to
  stored,  \* per chart, the height in the local storage
  sizing   \* the chart whose height is dragged

vars == <<habits, open, view, drag, built, armed, asked, went, height, stored, sizing>>

Has(h) == h \in habits

-----------------------------------------------------------------------------
(* Every change of the view renders. *)

SizeOnly(v, key) == Members(v, key)  \* deviation

(* The structure of a chart; a change makes it anew. *)
StructureKey(v, key) == <<ActiveRange(v), SharedLeftGutter(v), Members(v, key)>>

Built(v, shown) ==
  [key \in IF Has("hovers") /\ shown THEN ChartKeys(v) ELSE {} |->
     IF key \in DOMAIN built /\ StructureKey(built[key], key) = StructureKey(v, key) THEN built[key] ELSE v]

OnScreen(v, shown) == IF shown THEN ChartKeys(v) ELSE {}

(* A chart reads its height when it comes on screen. *)
Mounted(v, shown) == [key \in OnScreen(v, shown) |-> IF key \in DOMAIN height THEN height[key] ELSE stored[key]]

Render(v) ==
  /\ view' = v /\ built' = Built(v, open) /\ height' = Mounted(v, open)
  /\ drag' = IF BrushShown(v) THEN drag ELSE None
  /\ sizing' = IF sizing \in ChartKeys(v) THEN sizing ELSE None

Rest == UNCHANGED <<habits, open, armed, asked, went, stored>>

-----------------------------------------------------------------------------
(* The buffer. *)

Arrive(t) ==
  /\ Has("live") /\ t \notin view.telegrams /\ Cardinality(view.telegrams) < MaxHeld
  /\ ~ \E u \in view.telegrams : u.ga = t.ga /\ u.ts = t.ts
  /\ Has("history") \/ \A u \in view.telegrams : u.ts < t.ts
  /\ Render([view EXCEPT !.telegrams = @ \cup {t}]) /\ Rest

Evict ==
  /\ Has("evicts") /\ Cardinality(view.telegrams) > 1
  /\ \E t \in view.telegrams :
       /\ \A u \in view.telegrams : t.ts <= u.ts
       /\ Render([view EXCEPT !.telegrams = @ \ {t}])
  /\ Rest

-----------------------------------------------------------------------------
(* The sidebar. *)

AppendsOnly(selected, a) == Append(selected, a)  \* deviation
Toggled(selected, a) ==
  IF a \in ToSet(selected) THEN SelectSeq(selected, LAMBDA b : b # a) ELSE Append(selected, a)

Toggle(a) ==
  /\ Has("selects") /\ open /\ a \in Gas(view.telegrams)
  /\ Render([view EXCEPT !.selected = Toggled(@, a)])
  /\ Rest

ClearTargets ==
  /\ Has("selects") /\ open /\ view.selected # <<>>
  /\ Render([view EXCEPT !.selected = <<>>]) /\ Rest

(* The addresses of which no telegram is typed and some are bytes. *)
UntypedTargets ==
  {a \in Gas({t \in view.telegrams : t.form = "bytes"}) : \A t \in view.telegrams : t.ga = a => ~ t.typed}

NeedsDpt(a) == a \in UntypedTargets /\ a \in ToSet(view.selected)

SetDptOverride(a, key) ==
  /\ Has("retypes") /\ open /\ NeedsDpt(a) /\ view.over[a] # key
  /\ Render([view EXCEPT !.over[a] = key]) /\ Rest

(* Only a metric has a lock. *)
Lockable(unit) == open /\ unit \in Units(view) \ {"binary", "events"} /\ Charts(view, unit) # <<>>

(* The lock of the open chart of a metric, and its undoing: the number
   recorded is the size of that chart. *)
ToggleLock(unit) ==
  /\ Has("locks") /\ Lockable(unit)
  /\ LET size == Len(OpenChart(view, unit))
         locks == view.locks[unit]
     IN IF locks # <<>> /\ Last(locks) = size
        THEN Render([view EXCEPT !.locks[unit] = Front(@)])
        ELSE Len(locks) < MaxLocks /\ Render([view EXCEPT !.locks[unit] = Append(@, size)])
  /\ Rest

-----------------------------------------------------------------------------
(* The zoom. *)

Eps == 1  \* the tolerance of a pin, one second

Pins(v, range) ==
  [left |-> HasData(v) /\ range[1] <= MinTime(v) + Eps, right |-> HasData(v) /\ range[2] >= MaxTime(v) - Eps]

SetZoomRange(range) ==
  Render([view EXCEPT !.zoom = range,
                      !.pinned = IF range = None THEN [left |-> FALSE, right |-> FALSE] ELSE Pins(view, range)])

Brush == Has("zooms") /\ open /\ BrushShown(view)

StartDrag(handle) ==
  /\ Brush /\ drag = None
  /\ drag' = [handle |-> handle, range |-> ActiveRange(view)]
  /\ UNCHANGED <<view, built, height, sizing>> /\ Rest

Gap == 1  \* a handle stays a second from the other

(* The window moves as far as the data reaches. *)
Moved(range, by) ==
  LET left == range[1] + by
      right == range[2] + by
      width == range[2] - range[1]
  IN IF left < MinTime(view) THEN <<MinTime(view), MinTime(view) + width>>
     ELSE IF right > MaxTime(view) THEN <<MaxTime(view) - width, MaxTime(view)>> ELSE <<left, right>>

Dragged(by) ==
  CASE drag.handle = "left" -> <<Low(drag.range[2] - Gap, High(MinTime(view), drag.range[1] + by)), drag.range[2]>>
    [] drag.handle = "right" -> <<drag.range[1], High(drag.range[1] + Gap, Low(MaxTime(view), drag.range[2] + by))>>
    [] drag.handle = "middle" -> Moved(drag.range, by)

Drag(by) == drag # None /\ SetZoomRange(Dragged(by)) /\ Rest

EndDrag ==
  /\ drag # None
  /\ drag' = None
  /\ UNCHANGED <<view, built, height, sizing>> /\ Rest

(* A double click on a handle takes it to the edge. *)
PinLeft == Brush /\ SetZoomRange(<<MinTime(view), ActiveRange(view)[2]>>) /\ Rest
PinRight == Brush /\ SetZoomRange(<<ActiveRange(view)[1], MaxTime(view)>>) /\ Rest

(* A stretch of a chart is selected. *)
SelectStretch(left, right) ==
  /\ Has("zooms") /\ open /\ HasData(view)
  /\ ActiveRange(view)[1] <= left /\ left < right /\ right <= ActiveRange(view)[2]
  /\ SetZoomRange(<<left, right>>) /\ Rest

-----------------------------------------------------------------------------
(* A click on a chart waits for its delay; a double click is two clicks, of
   which it takes back the later one. *)

Chart == Has("clicks") /\ open /\ HasData(view) /\ asked < MaxClicks

Click ==
  /\ Chart
  /\ armed' = armed + 1 /\ asked' = asked + 1
  /\ UNCHANGED <<habits, open, view, drag, built, went, height, stored, sizing>>

DoubleClick ==
  /\ Chart /\ went + armed < MaxClicks
  /\ armed' = armed + 2 - 1
  /\ SetZoomRange(None)
  /\ UNCHANGED <<habits, open, asked, went, stored>>

(* The panel makes room for the list of telegrams. *)
Navigate ==
  /\ armed > 0
  /\ armed' = armed - 1
  /\ went' = went + 1
  /\ open' = FALSE
  /\ drag' = None /\ sizing' = None /\ built' = <<>> /\ height' = <<>>
  /\ view' = [view EXCEPT !.pinned = [left |-> FALSE, right |-> FALSE], !.locks = [unit \in Metrics |-> <<>>]]
  /\ UNCHANGED <<habits, asked, stored>>

-----------------------------------------------------------------------------
(* The height of a metric chart. *)

StartResize(key) ==
  /\ Has("resizes") /\ open /\ sizing = None /\ key \in ChartKeys(view) /\ key[1] \notin {"binary", "events"}
  /\ sizing' = key
  /\ UNCHANGED <<view, drag, built, height>> /\ Rest

Resize(h) ==
  /\ sizing # None
  /\ height' = [height EXCEPT ![sizing] = h]
  /\ UNCHANGED <<view, drag, built, sizing>> /\ Rest

KeepsStored == stored  \* deviation
Written == IF height[sizing] = None THEN stored ELSE [stored EXCEPT ![sizing] = height[sizing]]

EndResize ==
  /\ sizing # None
  /\ stored' = Written
  /\ sizing' = None
  /\ UNCHANGED <<habits, open, view, drag, built, armed, asked, went, height>>

ResetHeight(key) ==
  /\ Has("resizes") /\ open /\ sizing = None /\ key \in ChartKeys(view) /\ key[1] \notin {"binary", "events"}
  /\ height' = [height EXCEPT ![key] = None]
  /\ stored' = [stored EXCEPT ![key] = None]
  /\ UNCHANGED <<habits, open, view, drag, built, armed, asked, went, sizing>>

-----------------------------------------------------------------------------
Close ==
  /\ open /\ Has("reopens")
  /\ open' = FALSE
  /\ drag' = None /\ sizing' = None /\ built' = <<>> /\ height' = <<>>
  /\ view' = [view EXCEPT !.pinned = [left |-> FALSE, right |-> FALSE], !.locks = [unit \in Metrics |-> <<>>]]
  /\ UNCHANGED <<habits, armed, asked, went, stored>>

(* Selection, zoom and datatypes are as they were; pins and locks are not. *)
Open ==
  /\ ~ open
  /\ open' = TRUE
  /\ built' = Built(view, TRUE) /\ height' = Mounted(view, TRUE)
  /\ UNCHANGED <<habits, view, drag, armed, asked, went, stored, sizing>>

Init ==
  /\ habits \in Envs
  /\ open = FALSE
  /\ view = [telegrams |-> {}, selected |-> IF Has("selects") THEN <<>> ELSE SetToSeq(Targets),
             over |-> [a \in Targets |-> None], zoom |-> None,
             pinned |-> [left |-> FALSE, right |-> FALSE], locks |-> [unit \in Metrics |-> <<>>]]
  /\ drag = None /\ built = <<>>
  /\ armed = 0 /\ asked = 0 /\ went = 0
  /\ height = <<>> /\ stored = [key \in Metrics \X (0..MaxLocks + 1) |-> None] /\ sizing = None

Next ==
  \/ Open \/ Close \/ Evict \/ ClearTargets \/ Click \/ DoubleClick \/ Navigate \/ EndDrag \/ PinLeft \/ PinRight \/ EndResize
  \/ \E t \in Pool : Arrive(t)
  \/ \E a \in Targets : Toggle(a) \/ \E key \in {"fits", "wide", None} : SetDptOverride(a, key)
  \/ \E unit \in Metrics : ToggleLock(unit)
  \/ \E handle \in {"left", "right", "middle"} : StartDrag(handle)
  \/ \E by \in {-2, 2} : Drag(by)
  \/ \E stretch \in Stretches : SelectStretch(stretch[1], stretch[2])
  \/ \E key \in DOMAIN stored : StartResize(key) \/ ResetHeight(key)
  \/ \E h \in Heights : Resize(h)

Spec == Init /\ [][Next]_vars

-----------------------------------------------------------------------------
(* The types of the variables; heights are known of the charts on screen. *)
TypeOK ==
  /\ ToSet(view.selected) \subseteq Targets /\ IsInjective(view.selected)
  /\ \A unit \in Metrics : Len(view.locks[unit]) <= MaxLocks
  /\ drag # None => open /\ BrushShown(view)
  /\ DOMAIN height = IF open THEN ChartKeys(view) ELSE {}
  /\ sizing # None => sizing \in DOMAIN height

(* Every selected address that has something to show is in one chart and no
   other, whatever its telegrams look like over time, and however often the
   charts are locked (useChartData.ts:58-63, chartLock.ts:18-27). *)
ShownOnce ==
  LET shown == [key \in ChartKeys(view) |-> ToSet(Members(view, key))] IN
  \A a \in Gas(Plotted(view)) : Cardinality({key \in DOMAIN shown : a \in shown[key]}) = 1

(* While nothing is hovered the legends of all three kinds of chart show the
   newest telegram of each address that has a value, its datatype changed or
   not, and the bars of the timeline hold the state of each instant up to the
   right end of the plot (useChartData.ts:149-156). *)
EdgeIsNewest ==
  \A key \in ChartKeys(view) : \A a \in ToSet(Members(view, key)) :
    LET of == {u \in Plotted(view) : u.ga = a}
        then(at) == {u \in of \cap Rows(view, "binary") : u.ts <= at}
        end == ActiveRange(view)[2]
    IN /\ key[1] = "events" => LegendAtRest(view, "events", a) = Newest(of).value
       /\ key[1] # "events" /\ Numeric(Newest(of), view.over) # None =>
            LegendAtRest(view, key[1], a) = Numeric(Newest(of), view.over)
       /\ key[1] = "binary" => \A at \in {u.ts : u \in Plotted(view)} : then(at) # {} /\ at < end =>
            \E bar \in Bars(view, a, end) : bar.from <= at /\ at < bar.to /\ bar.on = (Newest(then(at)).value = 1)

(* What is shown is an interval of the data (Visualizer.tsx:137-142). *)
RangeInData ==
  open /\ view.zoom # None /\ HasData(view) =>
    LET r == ActiveRange(view) IN MinTime(view) <= r[1] /\ r[1] <= r[2] /\ r[2] <= MaxTime(view)

(* A pinned edge is followed, and what the user has framed inside the data
   stands still while telegrams come and go around it (#281, #340, #341). *)
FramesStay ==
  [][view.telegrams # view'.telegrams /\ open /\ HasData(view') /\ view.zoom # None =>
       LET was == ActiveRange(view) is == ActiveRange(view') IN
       /\ view.pinned.right => is[2] = MaxTime(view')
       /\ ~ view.pinned.left /\ ~ view.pinned.right /\ was = view.zoom
            /\ MinTime(view') <= was[1] /\ was[2] <= MaxTime(view') => is = was]_vars

(* The value the legend of a chart shows under the pointer: the snapshot of
   the data at the column of today. *)
LegendValue(key, a, at) ==
  LET then == SetToSortSeq(Columns(built[key], key[1]), <)
      idx == Cardinality({c \in Columns(view, key[1]) : c < at}) + 1
  IN IF idx <= Len(then) THEN Held(built[key], key[1], a, then[idx]) ELSE None

LegendTrue ==
  \A key \in DOMAIN built : key[1] # "events" => \A a \in ToSet(Members(view, key)) : \A at \in Columns(view, key[1]) :
    LegendValue(key, a, at) = Held(view, key[1], a, at)

(* While the charts follow the live feed the legend tells the value under
   the pointer (MixedChart.tsx:112-120, 181-206). *)
LiveLegendTrue == view.zoom = None /\ ~ Has("history") => LegendTrue

(* A chart has the height it was last dragged to, also after the panel was
   closed (chartHeight.ts:28-36). *)
HeightRemembered == \A key \in DOMAIN height : sizing # key => height[key] = stored[key]

(* Every address in one chart, its legend current, the range within the data
   and the height as it was left, through telegrams, zooms, locks and
   reopenings (Visualizer.tsx, MixedChart.tsx). *)
ChartIsTrue == TypeOK /\ ShownOnce /\ EdgeIsNewest /\ RangeInData /\ LiveLegendTrue /\ HeightRemembered
=============================================================================
