---------------------------- MODULE TableColumns ----------------------------
(***************************************************************************)
(* The head of the telegram list: the columns with their order, widths and  *)
(* visibility, kept in the preferences and shared by the live and the       *)
(* history view; sorting by several of them; and the info bar above, which  *)
(* points at rows of the list.                                              *)
(*                                                                          *)
(* A later version of the program may have another set of columns.          *)
(***************************************************************************)
EXTENDS Integers, Sequences, FiniteSets, SequencesExt

CONSTANTS
  None,
  Time,           \* the column of the time, sorted by default and last of all
  Versions,       \* per version of the program, its columns in their order
  Sortable,       \* the columns that are sorted by
  Hideable,       \* the columns that can be hidden
  DefaultWidth, MinWidth,
  Offsets,        \* how far the edge of a column may be dragged
  Tables,         \* the telegrams there may be, per column their values
  Window,         \* the second the rate is counted in
  MaxClicks,      \* bound on clicks
  Envs            \* sets of habits

Habits ==
  {"drags",     \* columns are dragged
   "resizes",   \* made wider and narrower
   "hides",     \* hidden and shown
   "sorts",     \* sorted by
   "switches",  \* the other view is opened
   "reloads",   \* the tab is reloaded
   "upgrades"}  \* with another version

VARIABLES
  habits,  \* fixed
  table,   \* the telegrams loaded, fixed
  page,    \* version and view; the order, the widths and what is shown; the sort levels of each view
  prefs,   \* what of them is stored
  mouse,   \* a column dragged and where it would land, or one being resized
  list,    \* the order the telegrams are listed in, by their places in the table
  clicks

vars == <<habits, table, page, prefs, mouse, list, clicks>>

Has(h) == h \in habits
Clicks == clicks < MaxClicks /\ clicks' = clicks + 1
Free == mouse = None

-----------------------------------------------------------------------------
(* Order: what is stored made safe against the columns there are, a new one
   beside the column before it. *)

Place(order, id) == CHOOSE i \in DOMAIN order : order[i] = id
Added(order, id) == IF id \in ToSet(order) THEN order ELSE Append(order, id)
PutBack(order, defaults, id) ==
  LET placed == {j \in 1..(Place(defaults, id) - 1) : defaults[j] \in ToSet(order)}
      before == CHOOSE j \in placed : \A i \in placed : i <= j
  IN IF id \in ToSet(order) THEN order
     ELSE InsertAt(order, IF placed = {} THEN 1 ELSE Place(order, defaults[before]) + 1, id)

AtTheEnd(stored, defaults) ==  \* deviation
  FoldLeft(Added, SelectSeq(stored, LAMBDA id : id \in ToSet(defaults)), defaults)
NormalizeColumnOrder(stored, defaults) ==
  LET known == FoldLeft(Added, <<>>, SelectSeq(stored, LAMBDA id : id \in ToSet(defaults)))
  IN FoldLeft(LAMBDA order, id : PutBack(order, defaults, id), known, defaults)

WithoutTakingOut(order, dragged, target, side) ==  \* deviation
  LET next == SelectSeq(order, LAMBDA id : id # dragged)
      at == Place(order, target)
  IN InsertAt(next, IF side = "before" \/ at > Len(next) THEN at ELSE at + 1, dragged)
MoveColumn(order, dragged, target, side) ==
  LET next == SelectSeq(order, LAMBDA id : id # dragged)
  IN InsertAt(next, Place(next, target) + (IF side = "after" THEN 1 ELSE 0), dragged)

Columns(v) == ToSet(Versions[v])
Shown(id) == id \in Hideable => id \in DOMAIN page.shown /\ page.shown[id]
VisibleCols == SelectSeq(page.order, Shown)

-----------------------------------------------------------------------------
(* Sorting. *)

DefaultSort == <<[key |-> Time, direction |-> "desc"]>>
Turn(d) == IF d = "desc" THEN "asc" ELSE "desc"
Level(levels, key) == {i \in DOMAIN levels : levels[i].key = key}

AddsInFront(levels, key, additive) ==  \* deviation
  IF ~ additive THEN <<[key |-> key, direction |-> "desc"]>>
  ELSE IF Level(levels, key) # {} THEN [i \in DOMAIN levels |->
         IF levels[i].key = key THEN [levels[i] EXCEPT !.direction = Turn(@)] ELSE levels[i]]
  ELSE <<[key |-> key, direction |-> "desc"]>> \o levels
ToggleSortLevel(levels, key, additive) ==
  IF additive /\ Level(levels, key) = {} THEN Append(levels, [key |-> key, direction |-> "desc"])
  ELSE IF additive \/ (Len(levels) = 1 /\ levels[1].key = key)
  THEN [i \in DOMAIN levels |-> IF levels[i].key = key THEN [levels[i] EXCEPT !.direction = Turn(@)] ELSE levels[i]]
  ELSE <<[key |-> key, direction |-> "desc"]>>

EffectiveSortLevels(levels) == IF Level(levels, Time) # {} THEN levels ELSE levels \o DefaultSort

(* Telegrams without a value come last, turned over first. *)
CompareValues(key, a, b) ==
  IF a[key] = b[key] THEN 0
  ELSE IF a[key] = None THEN 1
  ELSE IF b[key] = None THEN -1
  ELSE IF a[key] < b[key] THEN -1 ELSE 1

Differ(levels, a, b) == {i \in DOMAIN levels : CompareValues(levels[i].key, a, b) # 0}
First(S) == CHOOSE i \in S : \A j \in S : i <= j
Ranked(n, Earlier(_, _)) ==
  [k \in 1..n |-> CHOOSE i \in 1..n : Cardinality({j \in 1..n : Earlier(j, i)}) = k - 1]
Precedes(levels, a, b) ==
  LET differ == Differ(levels, a, b)
      i == First(differ)
  IN /\ differ # {}
     /\ CompareValues(levels[i].key, a, b) = (IF levels[i].direction = "asc" THEN -1 ELSE 1)

(* The places in the table, in the order of the list. *)
SortTelegrams(levels) ==
  LET eff == EffectiveSortLevels(levels)
      Earlier(i, j) == \/ Precedes(eff, table[i], table[j])
                       \/ ~ Precedes(eff, table[j], table[i]) /\ i < j
  IN Ranked(Len(table), Earlier)

SortConfig == page.sort[page.view]

-----------------------------------------------------------------------------
(* The info bar, of the list's times: one pass over them from the earliest. *)

Times == [k \in DOMAIN list |-> table[list[k]][Time]]

ByTime(times, k, l) == times[k] < times[l] \/ (times[k] = times[l] /\ k < l)
AsListed(times) == [k \in DOMAIN times |-> k]  \* deviation
Ordered(times) == Ranked(Len(times), LAMBDA k, l : ByTime(times, k, l))
PeakRate(times) ==
  LET order == Ordered(times)
      at(k) == times[order[k]]
      lo(hi) == First({k \in 1..hi : at(hi) - at(k) < Window})
      end == First({hi \in DOMAIN times : \A h \in DOMAIN times : h - lo(h) <= hi - lo(hi)})
  IN [count |-> end - lo(end) + 1, start |-> order[lo(end)]]

Gap(times, k) == IF times[k] < times[k - 1] THEN times[k - 1] - times[k] ELSE times[k] - times[k - 1]
InfoMetrics(times) ==
  [oldest |-> First({k \in DOMAIN times : \A l \in DOMAIN times : times[k] <= times[l]}),
   newest |-> First({k \in DOMAIN times : \A l \in DOMAIN times : times[k] >= times[l]}),
   maxDelta |-> First({k \in 2..Len(times) : \A l \in 2..Len(times) : Gap(times, k) >= Gap(times, l)}),
   peak |-> PeakRate(times)]

-----------------------------------------------------------------------------
(* The mouse. *)

StartDrag(id) ==
  /\ Has("drags") /\ Free /\ Clicks
  /\ mouse' = [does |-> "drag", id |-> id, over |-> None, side |-> "before"]
  /\ UNCHANGED <<habits, table, page, prefs, list>>

DragOver(id, side) ==
  /\ ~ Free /\ mouse.does = "drag" /\ id # mouse.id
  /\ mouse' = [mouse EXCEPT !.over = id, !.side = side]
  /\ UNCHANGED <<habits, table, page, prefs, clicks, list>>

Drop ==
  /\ ~ Free /\ mouse.does = "drag" /\ mouse.over # None
  /\ page' = [page EXCEPT !.order = MoveColumn(@, mouse.id, mouse.over, mouse.side)]
  /\ prefs' = [prefs EXCEPT !.order = page'.order]
  /\ mouse' = None
  /\ UNCHANGED <<habits, table, clicks, list>>

EndDrag ==
  /\ ~ Free /\ mouse.does = "drag"
  /\ mouse' = None
  /\ UNCHANGED <<habits, table, page, prefs, clicks, list>>

(* The last column shown has no edge. *)
HasEdge(id) == id \in ToSet(VisibleCols) /\ id # VisibleCols[Len(VisibleCols)]

StartResize(id) ==
  /\ Has("resizes") /\ Free /\ HasEdge(id) /\ Clicks
  /\ mouse' = [does |-> "resize", id |-> id, from |-> page.widths[id]]
  /\ UNCHANGED <<habits, table, page, prefs, list>>

AnyWidth(w) == w  \* deviation
Wide(w) == IF w < MinWidth THEN MinWidth ELSE w

MoveEdge(by) ==
  /\ ~ Free /\ mouse.does = "resize"
  /\ page' = [page EXCEPT !.widths[mouse.id] = Wide(mouse.from + by)]
  /\ UNCHANGED <<habits, table, prefs, mouse, clicks, list>>

AsItStarted == [page.widths EXCEPT ![mouse.id] = mouse.from]  \* deviation
AsItIs == page.widths

EndResize ==
  /\ ~ Free /\ mouse.does = "resize"
  /\ prefs' = [prefs EXCEPT !.widths = AsItIs]
  /\ mouse' = None
  /\ UNCHANGED <<habits, table, page, clicks, list>>

ResetWidth(id) ==
  /\ Has("resizes") /\ Free /\ HasEdge(id) /\ Clicks
  /\ page' = [page EXCEPT !.widths[id] = DefaultWidth]
  /\ prefs' = [prefs EXCEPT !.widths = page'.widths]
  /\ UNCHANGED <<habits, table, mouse, list>>

ToggleColumn(id) ==
  /\ Has("hides") /\ Free /\ id \in DOMAIN page.shown /\ Clicks
  /\ page' = [page EXCEPT !.shown[id] = ~ @]
  /\ prefs' = [prefs EXCEPT !.shown = page'.shown]
  /\ UNCHANGED <<habits, table, mouse, list>>

HandleSort(key, additive) ==
  /\ Has("sorts") /\ Free /\ key \in Columns(page.version) /\ Clicks
  /\ page' = [page EXCEPT !.sort[page.view] = ToggleSortLevel(@, key, additive)]
  /\ prefs' = [prefs EXCEPT !.sort = page'.sort[page.view]]
  /\ list' = SortTelegrams(page'.sort[page'.view])
  /\ UNCHANGED <<habits, table, mouse>>

-----------------------------------------------------------------------------
(* What a mounting table and a loading page read. The live view's sort is the
   page's; the history's is read again with every visit. *)

Read(stored, default) == IF stored = None THEN default ELSE stored
OrderRead(v) == IF prefs.order = None THEN Versions[v] ELSE NormalizeColumnOrder(prefs.order, Versions[v])
WidthsRead(v) ==
  LET saved == Read(prefs.widths, <<>>)
  IN [id \in Columns(v) \cup DOMAIN saved |-> IF id \in DOMAIN saved THEN saved[id] ELSE DefaultWidth]
ShownRead(v) == Read(prefs.shown, [id \in Hideable \cap Columns(v) |-> TRUE])
SortRead == Read(prefs.sort, DefaultSort)

(* The table mounts again with the other view. *)
SwitchView ==
  /\ Has("switches") /\ Free /\ Clicks
  /\ page' = LET to == IF page.view = "live" THEN "history" ELSE "live"
             IN [page EXCEPT !.view = to, !.order = OrderRead(page.version), !.widths = WidthsRead(page.version),
                             !.sort["history"] = SortRead]
  /\ list' = SortTelegrams(page'.sort[page'.view])
  /\ UNCHANGED <<habits, table, prefs, mouse>>

Loaded(v, view) ==
  [version |-> v, view |-> view, order |-> OrderRead(v), widths |-> WidthsRead(v), shown |-> ShownRead(v),
   sort |-> [live |-> SortRead, history |-> SortRead]]

(* A page that loads stores what it shows. *)
Reload(v) ==
  /\ Has("reloads") /\ Free /\ (v # page.version => Has("upgrades")) /\ Clicks
  /\ page' = Loaded(v, page.view)
  /\ prefs' = [prefs EXCEPT !.shown = page'.shown]
  /\ list' = SortTelegrams(page'.sort[page'.view])
  /\ UNCHANGED <<habits, table, mouse>>

Init ==
  /\ habits \in Envs /\ table \in (IF Has("sorts") THEN Tables ELSE {<<>>})
  /\ prefs = [order |-> None, widths |-> None, sort |-> None, shown |-> [id \in Hideable \cap Columns(1) |-> TRUE]]
  /\ page = Loaded(1, "live") /\ list = SortTelegrams(DefaultSort) /\ mouse = None /\ clicks = 0

Next ==
  \/ \E id \in ToSet(VisibleCols) : StartDrag(id) \/ StartResize(id) \/ ResetWidth(id)
  \/ \E id \in ToSet(VisibleCols), side \in {"before", "after"} : DragOver(id, side)
  \/ Drop \/ EndDrag \/ EndResize
  \/ \E by \in Offsets : MoveEdge(by)
  \/ \E id \in Hideable : ToggleColumn(id)
  \/ \E key \in Sortable, additive \in BOOLEAN : HandleSort(key, additive)
  \/ SwitchView
  \/ \E v \in DOMAIN Versions : Reload(v)

Spec == Init /\ [][Next]_vars

-----------------------------------------------------------------------------
(* The order lists every column once, no column is narrower than it may be,
   and no column is sorted by twice. *)
TypeOK ==
  /\ page.view \in {"live", "history"} /\ page.version \in DOMAIN Versions
  /\ ToSet(page.order) = Columns(page.version) /\ Len(page.order) = Cardinality(Columns(page.version))
  /\ Columns(page.version) \subseteq DOMAIN page.widths /\ \A id \in DOMAIN page.widths : page.widths[id] >= MinWidth
  /\ \A v \in {"live", "history"} : page.sort[v] # <<>> /\ \A key \in Sortable : Cardinality(Level(page.sort[v], key)) <= 1

(* The info bar says the same however the list is sorted: it points at an
   oldest and a newest telegram and at the first of the busiest second
   (TelegramTable.tsx:486-488, peakRate.ts:8-13). *)
Burst(t) == Cardinality({i \in DOMAIN table : table[i][Time] >= t /\ table[i][Time] < t + Window})
InfoBarTrue ==
  table # <<>> =>
    \A times \in {Times}, info \in {InfoMetrics(Times)} :
    LET all == {table[i][Time] : i \in DOMAIN table}
        busiest == {t \in all : \A u \in all : Burst(u) <= Burst(t)}
    IN /\ times[info.oldest] = First(all)
       /\ \A t \in all : times[info.newest] >= t
       /\ info.peak.count = Burst(First(busiest))
       /\ times[info.peak.start] = First(busiest)

(* A dragged column lands among the columns shown right beside the one it was
   dropped on, on the side that was marked, and no other two change places,
   hidden ones included (columnOrder.ts:35). *)
Before(order, a, b) == Place(order, a) < Place(order, b)
Others == {p \in ToSet(page.order) \X ToSet(page.order) : p[1] # p[2] /\ mouse.id \notin {p[1], p[2]}}
DropLands ==
  [][Drop =>
       LET seen == SelectSeq(page'.order, Shown)
       IN /\ Place(seen, mouse.id) = Place(seen, mouse.over) + (IF mouse.side = "after" THEN 1 ELSE -1)
          /\ \A p \in Others : Before(page'.order, p[1], p[2]) <=> Before(page.order, p[1], p[2])]_vars

(* The other view and a reload show the columns as they were left; with
   another version the columns that stay keep their order and widths, and a new
   one stands behind the column it belongs to (columnOrder.ts:8-13). *)
LayoutKept ==
  [][(SwitchView \/ \E v \in DOMAIN Versions : Reload(v)) =>
       LET stay == Columns(page.version) \cap Columns(page'.version)
           new == Columns(page'.version) \ stay
           defaults == Versions[page'.version]
       IN /\ \A a, b \in stay : Before(page'.order, a, b) <=> Before(page.order, a, b)
          /\ \A id \in stay : page'.widths[id] = page.widths[id] /\ Shown(id)' = Shown(id)
          /\ prefs.order # None => \A id \in new : Place(defaults, id) > 1 /\ id \notin ToSet(prefs.order) =>
               Place(page'.order, id) = Place(page'.order, defaults[Place(defaults, id) - 1]) + 1]_vars

(* A further level only parts telegrams that were equal so far, and turning a
   level over moves none past one that differs above it or past one of the same
   value (sortConfig.ts:59-62). *)
ComesFirst(order, i, j) == Place(order, i) < Place(order, j)
LevelsRefine ==
  [][\A key \in Sortable : HandleSort(key, TRUE) =>
       LET at == Level(SortConfig, key)
           above == SubSeq(SortConfig, 1, IF at = {} THEN Len(SortConfig) ELSE First(at) - 1)
       IN \A i, j \in DOMAIN table :
            (Differ(above, table[i], table[j]) # {} \/ (at # {} /\ table[i][key] = table[j][key])) =>
              (ComesFirst(list', i, j) <=> ComesFirst(list, i, j))]_vars

=============================================================================
