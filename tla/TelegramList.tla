----------------------------- MODULE TelegramList -----------------------------
(***************************************************************************)
(* The scrolling of TelegramTable: following the live edge, holding an      *)
(* anchored row still while telegrams arrive, jumps, marks, zebra stripes   *)
(* and the snapshot sorted by delta.                                        *)
(*                                                                          *)
(* A telegram is its number; a higher one is newer.  All rows are one unit  *)
(* high, so a scroll position is the number of rows above the viewport.     *)
(* The table's refs and state are the record t and a handler is a function  *)
(* on it.  A frame dispatches the pending scroll event, lets the            *)
(* virtualizer draw around the new position and then runs the callbacks     *)
(* that requestAnimationFrame was given before.                             *)
(***************************************************************************)
EXTENDS Integers, Sequences, FiniteSets, SequencesExt

CONSTANTS
  Oldest, Newest, \* these telegrams and those between are loaded at first
  MaxId,        \* no telegram after this one
  Size,         \* the buffer keeps this many telegrams
  Height,       \* rows in the viewport
  MaxMarks,     \* bound on the marked rows
  MaxFrames,    \* bound on the callbacks that wait for a frame
  Overscan,     \* rows drawn beyond it at either end
  None,
  Envs          \* sets of habits

Habits ==
  {"older",     \* history is loaded while the list follows
   "hasty",     \* the user scrolls in a frame the table scrolls in as well
   "bursts",    \* more telegrams than the table draws arrive at once
   "marks",     \* rows are marked, and jumped between
   "sorts",     \* column headers are clicked
   "filters",   \* a filter comes and goes
   "leaves"}    \* other panels replace the table

VARIABLES
  habits,       \* the habits of this behaviour; fixed
  buf,          \* the telegrams in the buffer, oldest first
  hiding,       \* a filter hides the even ones
  t             \* the table, with listFollow and listAnchorKey of App

vars == <<habits, buf, hiding, t>>

Ids == 1..MaxId
Keys == Ids \cup {None}
Min2(a, b) == IF a < b THEN a ELSE b
Max2(a, b) == IF a < b THEN b ELSE a

(* The rows to show: filtered, in the order of the sort. *)
Shown(b, h, d) ==
  LET left == SelectSeq(b, LAMBDA k : ~h \/ k % 2 = 1)
  IN IF d = "asc" THEN left ELSE Reverse(left)

At(rows, k) == IF \E i \in DOMAIN rows : rows[i] = k
               THEN CHOOSE i \in DOMAIN rows : rows[i] = k ELSE 0
Lowest(s) == Max2(0, Len(s.rows) - Height)
Clamp(s, y) == Max2(0, Min2(y, Lowest(s)))

-----------------------------------------------------------------------------
(* What is on the screen. *)

Drawn(s) == {i \in DOMAIN s.rows : s.drawn - Overscan < i /\ i <= s.drawn + Height + Overscan}
Visible(s) == {i \in DOMAIN s.rows : s.top < i /\ i <= s.top + Height}
OnScreen(s) == Drawn(s) \cap Visible(s)

(* rowOffset: the place of a drawn row relative to the viewport. *)
Offset(s, k) == At(s.rows, k) - 1 - s.top
IsDrawn(s, k) == At(s.rows, k) \in Drawn(s)

CheckAtEdge(s) == IF s.dir = "desc" THEN s.top = 0 ELSE s.top + Height >= Len(s.rows)
EdgeTop(s) == IF s.dir = "desc" THEN 0 ELSE Lowest(s)

-----------------------------------------------------------------------------
(* The functions of the component. *)

Report(s, follow, key) == [s EXCEPT !.follow = follow, !.key = key]
ScrollTo(s, y) == [s EXCEPT !.top = Clamp(s, y), !.moved = @ \/ Clamp(s, y) # s.top]
Frame(s, callback) == [s EXCEPT !.raf = Append(@, callback)]
MarkProgrammatic(s) == Frame([s EXCEPT !.prog = TRUE], [do |-> "clear"])
ScrollToEdge(s) == ScrollTo(MarkProgrammatic(s), EdgeTop(s))
StandsStill(s) == s                              \* deviation
Follow(s) == ScrollToEdge(s)

Selected(s) == IF s.last \in s.marks THEN s.last ELSE None

Hold(s, k) ==
  [s EXCEPT !.anchor = [key |-> k, offset |-> Offset(s, k)], !.seen = TRUE, !.key = k]

AnyDrawn(s) == Drawn(s)                          \* deviation
Candidates(s) == OnScreen(s)

Never(s) == FALSE                                \* deviation
MayRetry(s) == s.tries < 5

CaptureAnchor(s, selected) ==
  IF selected # None /\ At(s.rows, selected) \in OnScreen(s) THEN Hold(s, selected)
  ELSE IF Candidates(s) # {}
       THEN [Hold(s, s.rows[CHOOSE i \in Candidates(s) : \A j \in Candidates(s) : i <= j])
               EXCEPT !.tries = 0]
  ELSE IF MayRetry(s)
       THEN Frame([s EXCEPT !.anchor = None, !.tries = @ + 1], [do |-> "capture"])
  ELSE [s EXCEPT !.anchor = None, !.tries = 0]

JumpToLive(s) ==
  ScrollToEdge(Report([s EXCEPT !.edge = TRUE, !.anchor = None, !.fresh = 0], TRUE, None))

GotoIndex(s, i) ==
  Frame(ScrollTo(MarkProgrammatic([s EXCEPT !.edge = FALSE, !.follow = FALSE, !.fresh = 0, !.anchor = None]),
                 i - 1 - (Height - 1) \div 2),
        [do |-> "goto", n |-> 1])

Refind(s) ==
  LET k == s.anchor.key IN
  Frame(ScrollTo([s EXCEPT !.refind = TRUE], At(s.rows, k) - 1),
        [do |-> "find", n |-> 1, anchor |-> s.anchor])

Inserted(s) == ~s.seen /\ ~s.held

PinAnchor(s) ==
  IF s.anchor = None \/ s.edge \/ s.rows = <<>> THEN s
  ELSE IF ~IsDrawn(s, s.anchor.key)
       THEN IF s.refind THEN s
            ELSE IF Inserted(s) /\ At(s.rows, s.anchor.key) # 0 THEN Refind(s)
            ELSE CaptureAnchor(s, Selected(s))
  ELSE IF s.refind THEN s
  ELSE LET d == Offset(s, s.anchor.key) - s.anchor.offset
           moved == IF d # 0 THEN ScrollTo(MarkProgrammatic(s), s.top + d) ELSE s
       IN [moved EXCEPT !.seen = TRUE]

(* The effects that bring App's values back into the refs. *)
Sync(s, before) ==
  LET e == IF s.follow # before.follow THEN [s EXCEPT !.edge = s.follow] ELSE s
  IN IF e.key = before.key THEN e
     ELSE IF e.key = None THEN [e EXCEPT !.anchor = None]
     ELSE IF e.anchor = None \/ e.anchor.key # e.key
          THEN [e EXCEPT !.anchor = [key |-> e.key, offset |-> 0]]
     ELSE e

-----------------------------------------------------------------------------
(* Rows that change: the layout effects. *)

Restart(s) == [s EXCEPT !.anchor = None, !.key = None, !.fresh = 0, !.stripe = 0]

ShiftByAdded(s, added, dropped) == added         \* deviation
Shift(s, added, dropped) == IF s.dir = "desc" THEN added ELSE -dropped

Added(s, old) ==
  IF s.dir = "desc" THEN At(s.rows, old[1]) - 1
  ELSE LET i == At(s.rows, old[Len(old)]) IN IF i = 0 THEN -1 ELSE Len(s.rows) - i

EdgeKey(s, rows) == IF s.dir = "desc" THEN rows[1] ELSE rows[Len(rows)]

AnchorSurvives(s) == s.anchor # None /\ ~s.edge /\ At(s.rows, s.anchor.key) # 0

Count(s, added) == [s EXCEPT !.fresh = @ + added]

IndexParity(n) == n                              \* deviation
Parity(n) == n % 2

RowsEffect(s, old) ==
  LET z == IF s.rows = <<>> THEN [s EXCEPT !.stripe = 0] ELSE s IN
  IF s.delta \/ old = <<>> \/ s.rows = <<>> \/ EdgeKey(s, old) = EdgeKey(s, s.rows) THEN z
  ELSE LET added == Added(s, old)
           dropped == Len(old) + added - Len(s.rows)
           striped == [s EXCEPT !.stripe = Parity(@ + Shift(s, added, dropped))]
       IN IF added <= 0
          THEN IF AnchorSurvives(s) THEN PinAnchor([s EXCEPT !.stripe = 0]) ELSE Restart(s)
          ELSE IF s.edge THEN Follow(striped)
          ELSE PinAnchor(Count(striped, added))

(* A commit that shows the given rows and has made c of s.  The height of    *)
(* the list follows their number, which runs the second layout effect.      *)
Commit(s, c, rows) ==
  LET r == [c EXCEPT !.rows = rows, !.seen = @ /\ rows = s.rows]
      e == RowsEffect(ScrollTo(r, r.top), s.rows)
  IN Sync(IF Len(rows) # Len(s.rows) THEN PinAnchor(e) ELSE e, s)

-----------------------------------------------------------------------------
(* Events. *)

Ours(s) == s.prog \/ s.refind

KeepsCount(s) == [s EXCEPT !.anchor = None, !.key = None]  \* deviation
BackAtEdge(s) == [s EXCEPT !.fresh = 0, !.anchor = None, !.key = None]

HandleScroll(s) ==
  IF Ours(s) THEN s
  ELSE LET edge == CheckAtEdge(s)
           e == [s EXCEPT !.cursor = None, !.edge = edge, !.follow = IF edge # s.edge THEN edge ELSE @]
       IN IF edge THEN BackAtEdge(e)
          ELSE CaptureAnchor(e, Selected(e))

Found(s, c) ==
  IF IsDrawn(s, c.anchor.key) /\ s.anchor = c.anchor
  THEN [ScrollTo(s, s.top + Offset(s, c.anchor.key) - c.anchor.offset) EXCEPT !.seen = TRUE]
  ELSE s

Restored(s, k) ==
  IF IsDrawn(s, k) THEN PinAnchor([s EXCEPT !.anchor = [key |-> k, offset |-> Offset(s, k)]]) ELSE s

RunCallback(s, c) ==
  CASE c.do = "clear" -> [s EXCEPT !.prog = FALSE]
    [] c.do = "capture" -> IF s.edge \/ s.anchor # None THEN s ELSE CaptureAnchor(s, Selected(s))
    [] c.do = "goto" -> IF c.n = 1 THEN Frame(s, [c EXCEPT !.n = 2])
                        ELSE [CaptureAnchor(s, Selected(s)) EXCEPT !.edge = FALSE, !.follow = FALSE]
    [] c.do = "find" -> IF c.n = 1 THEN Frame(s, [c EXCEPT !.n = 2])
                        ELSE Frame(Found(s, c), [do |-> "found", ok |-> IsDrawn(s, c.anchor.key)])
    [] c.do = "found" -> LET f == [s EXCEPT !.refind = FALSE]
                         IN IF c.ok THEN PinAnchor(f) ELSE CaptureAnchor(f, Selected(f))
    [] c.do = "restore" -> IF c.n = 1 THEN Frame(s, [c EXCEPT !.n = 2]) ELSE Restored(s, c.key)

Dispatch(s) ==
  IF s.moved THEN [HandleScroll([s EXCEPT !.moved = FALSE]) EXCEPT !.drawn = s.top] ELSE s

NextFrame(s) ==
  LET d == Dispatch(s) IN FoldLeft(RunCallback, [d EXCEPT !.raf = <<>>], d.raf)

(* A click on row i with the given modifier: marks, and a pause. *)
Marked(s, i, how) ==
  LET k == s.rows[i]
      j == IF s.last = None THEN 0 ELSE At(s.rows, s.last)
      range == IF j = 0 THEN {k} ELSE {s.rows[n] : n \in Min2(i, j)..Max2(i, j)}
  IN CASE how = "plain" -> {k}
       [] how = "ctrl" -> IF k \in s.marks THEN s.marks \ {k} ELSE s.marks \cup {k}
       [] how = "shift" -> range
       [] how = "both" -> s.marks \cup range

LeavesSilently(s) == [s EXCEPT !.edge = FALSE]   \* deviation
LeaveEdge(s) == IF s.edge /\ ~s.delta THEN [s EXCEPT !.edge = FALSE, !.follow = FALSE] ELSE s

ClickRow(s, i, how) ==
  LET k == s.rows[i]
      marks == Marked(s, i, how)
      m == LeaveEdge([s EXCEPT !.marks = marks, !.last = k, !.cursor = k])
  IN IF m.edge THEN m ELSE CaptureAnchor(m, IF k \in marks THEN k ELSE None)

(* The next or previous of the marked rows, around the ends of the list. *)
MarkedIndices(s) == {i \in DOMAIN s.rows : s.rows[i] \in s.marks}
AdjacentMark(at, from, forward) ==
  LET beyond == {i \in at : IF forward THEN i > from ELSE i < from}
      among == IF beyond = {} THEN at ELSE beyond
  IN CHOOSE i \in among : \A j \in among : IF forward THEN i <= j ELSE i >= j

Center(s) == Min2(Len(s.rows), s.drawn + 1 + Height \div 2)
From(s) == IF s.cursor # None /\ At(s.rows, s.cursor) # 0 THEN At(s.rows, s.cursor) ELSE Center(s)

JumpToMark(s, forward) ==
  LET i == AdjacentMark(MarkedIndices(s), From(s), forward)
  IN GotoIndex([s EXCEPT !.cursor = s.rows[i]], i)

-----------------------------------------------------------------------------
Fresh(rows, d, follow, key) ==
  [rows |-> rows, dir |-> d, top |-> 0, drawn |-> 0, edge |-> follow,
   anchor |-> IF key = None THEN None ELSE [key |-> key, offset |-> 0],
   seen |-> FALSE, fresh |-> 0, stripe |-> 0, prog |-> FALSE, refind |-> FALSE, held |-> FALSE,
   moved |-> FALSE, tries |-> 0, raf |-> <<>>, marks |-> {}, last |-> None, cursor |-> None,
   delta |-> FALSE, prior |-> TRUE, follow |-> follow, key |-> key]

(* The restore on mount. *)
Restore(s) ==
  LET m == PinAnchor(s) IN
  IF m.rows = <<>> THEN m
  ELSE IF m.edge \/ m.key = None THEN ScrollToEdge(m)
  ELSE IF At(m.rows, m.key) = 0 THEN JumpToLive(m)
  ELSE Frame(ScrollTo(MarkProgrammatic(m), At(m.rows, m.key) - 1),
             [do |-> "restore", n |-> 1, key |-> m.key])

Mount(follow, key) ==
  LET s == [Fresh(Shown(buf, hiding, t.dir), t.dir, follow, key)
              EXCEPT !.marks = t.marks, !.last = t.last]
  IN Sync(Restore(s), s)

Init ==
  /\ habits \in Envs
  /\ buf = [i \in 1..(Newest - Oldest + 1) |-> Oldest + i - 1]
  /\ hiding = FALSE
  /\ \E d \in {"asc", "desc"} :
       t = ScrollToEdge(Fresh(Shown(buf, FALSE, d), d, TRUE, None))

Quiet == ~t.moved /\ t.raf = <<>>
Rested == Quiet \/ ("hasty" \in habits /\ Len(t.raf) < MaxFrames)

Rerender(b, h) ==
  /\ Len(t.raf) < MaxFrames
  /\ buf' = b
  /\ hiding' = h
  /\ t' = IF t.delta THEN t ELSE Commit(t, t, Shown(b, h, t.dir))
  /\ UNCHANGED habits

Cut(b) == SubSeq(b, Max2(1, Len(b) - Size + 1), Len(b))
Burst == Height + 2 * Overscan + 1

Arrive ==
  \E n \in {1} \cup (IF "bursts" \in habits THEN {Burst} ELSE {}) :
    /\ buf[Len(buf)] + n <= MaxId
    /\ Rerender(Cut(buf \o [i \in 1..n |-> buf[Len(buf)] + i]), hiding)

LoadOlder ==
  /\ "older" \in habits
  /\ buf[1] > 1
  /\ Len(buf) < Size
  /\ Rerender(<<buf[1] - 1>> \o buf, hiding)

ToggleFilter ==
  /\ "filters" \in habits
  /\ t.fresh < MaxId
  /\ Rerender(buf, ~hiding)

(* Whatever happens to the table alone; the user, unless hasty, waits for it *)
(* to come to rest. *)
Table(s) ==
  /\ t' = Sync(s, t)
  /\ UNCHANGED <<habits, buf, hiding>>
User(s) == Rested /\ Table(s)

UserScroll == \E y \in 0..Lowest(t) : y # t.top /\ User([ScrollTo(t, y) EXCEPT !.held = TRUE])

Release == t.held /\ Quiet /\ Table([t EXCEPT !.held = FALSE])

Tick == ~Quiet /\ Table(NextFrame(t))

Click ==
  \E i \in Visible(t), how \in {"plain", "ctrl", "shift", "both"} :
    /\ "marks" \in habits
    /\ Cardinality(Marked(t, i, how)) <= MaxMarks
    /\ User(ClickRow(t, i, how))

ClearMarks == t.marks # {} /\ User([t EXCEPT !.marks = {}, !.last = None])

ClickPill == t.fresh > 0 /\ ~t.delta /\ User(JumpToLive(t))

Goto == \E i \in {1, Len(t.rows)} : i # 0 /\ User(GotoIndex(t, i))

NextMark == "marks" \in habits /\ MarkedIndices(t) # {} /\ \E f \in BOOLEAN : User(JumpToMark(t, f))

(* A column header; the effect on sortConfig runs after the others. *)
SortEffect(s) ==
  LET r == [s EXCEPT !.fresh = 0, !.stripe = 0, !.anchor = None, !.key = None]
      edge == CheckAtEdge(r)
  IN [r EXCEPT !.edge = edge, !.follow = IF edge # s.edge THEN edge ELSE @]

SortClick ==
  LET d == IF t.dir = "asc" THEN "desc" ELSE "asc"
      c == [t EXCEPT !.dir = d, !.delta = FALSE, !.follow = IF t.delta THEN t.prior ELSE @]
  IN /\ "sorts" \in habits
     /\ User(SortEffect(Commit(t, c, Shown(buf, hiding, d))))

(* The Delta-t header: a snapshot in an order of its own. *)
DeltaClick ==
  /\ "sorts" \in habits
  /\ User(Commit(t, IF t.delta THEN t ELSE [t EXCEPT !.delta = TRUE, !.prior = t.follow, !.follow = FALSE],
                  Reverse(t.rows)))

(* Another panel and back; a click in a chart; a click in a legend. *)
Return ==
  /\ "leaves" \in habits
  /\ Rested
  /\ \/ t' = Mount(t.follow, t.key)
     \/ \E i \in DOMAIN buf : t' = Mount(FALSE, buf[i])
     \/ t' = Mount(TRUE, t.key)
  /\ UNCHANGED <<habits, buf, hiding>>

Next ==
  \/ Arrive \/ LoadOlder \/ ToggleFilter
  \/ UserScroll \/ Release \/ Tick
  \/ Click \/ ClearMarks \/ ClickPill \/ Goto \/ NextMark
  \/ SortClick \/ DeltaClick \/ Return

Spec == Init /\ [][Next]_vars

-----------------------------------------------------------------------------
(* The variables have their types, the position stays on the list, and the *)
(* callbacks that wait for a frame do not pile up.                           *)
TypeOK ==
  /\ habits \in Envs /\ habits \subseteq Habits
  /\ hiding \in BOOLEAN
  /\ buf \in Seq(Ids) /\ Len(buf) <= Size
  /\ t.top \in 0..Lowest(t)
  /\ t.anchor = None \/ t.anchor.key \in Ids
  /\ t.key \in Keys /\ t.fresh \in 0..2 * MaxId /\ t.stripe \in {0, 1}
  /\ Len(t.raf) <= MaxFrames + 2

(* A step in which a newer telegram reached the table. *)
Arrived == buf'[Len(buf')] > buf[Len(buf)] /\ ~t'.delta

(* Scrolled away, the viewed rows are anchored: once the table is at rest,   *)
(* the anchored row is in view at the offset it was captured at, whatever    *)
(* telegrams, evictions, filters, jumps and panels came in between.          *)
AnchorHeld ==
  LET i == IF t.anchor = None THEN 0 ELSE At(t.rows, t.anchor.key) IN
  Quiet /\ ~t.edge /\ ~t.delta /\ i # 0 /\ "hasty" \notin habits
    => t.top = Clamp(t, i - 1 - t.anchor.offset) /\ i \in Visible(t)

(* A list that follows shows its live edge once it is at rest; the newest-   *)
(* at-the-bottom list only while nothing is inserted above (README).         *)
FollowsEdge ==
  Quiet /\ t.edge /\ ~t.delta /\ (t.dir = "desc" \/ habits \cap {"older", "filters"} = {}) /\ "hasty" \notin habits
    => CheckAtEdge(t)

(* Away from the edge some row is held still.                               *)
SomethingHeld == Quiet /\ ~t.edge /\ ~t.delta /\ t.rows # <<>> => t.anchor # None

Restarts == {"filters", "sorts", "leaves", "marks"}
(* The same as long as nothing makes the table start over and no selected    *)
(* row uses up the retries of captureAnchor.                                 *)
HeldUnlessRestarted == habits \cap Restarts = {} => SomethingHeld

(* The table and App agree: who leaves the table and comes back finds the    *)
(* list following, or held at the row it was held at.                        *)
Agrees == t.edge = t.follow /\ (Quiet /\ t.anchor # None => t.key = t.anchor.key)

(* The jump-to-live pill counts only while the list does not follow.         *)
PillMeansMissed == t.fresh > 0 => ~t.edge

(* Zebra stripes stay with a telegram: arrivals and evictions recolour none. *)
StripesStay ==
  [][Arrived /\ ~hiding => \A k \in Ids : At(t.rows, k) # 0 /\ At(t'.rows, k) # 0
        => (At(t.rows, k) + t.stripe) % 2 = (At(t'.rows, k) + t'.stripe) % 2]_vars

(* Whatever arrives, is evicted, filtered or sorted, the rows that are read
   stand still and the edge that is followed is shown (TelegramTable.tsx). *)
RowsHold == TypeOK /\ AnchorHeld /\ FollowsEdge /\ HeldUnlessRestarted /\ Agrees /\ PillMeansMissed
=============================================================================
