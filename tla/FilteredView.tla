----------------------------- MODULE FilteredView -----------------------------
(***************************************************************************)
(* A view of telegrams under filters: the Group Monitor, whose telegrams    *)
(* come from the bus, and the History Search, which loads them from the     *)
(* server.  Both show them in the telegram table, whose flags, toggle and   *)
(* quick filter bar decide on the Time-Delta-Context.                       *)
(***************************************************************************)
EXTENDS FilterRules

CONSTANTS
  Bus,          \* the telegrams the bus will carry
  Entries,      \* the pairs of a category and a value that can be selected
  Windows,      \* the windows, as records, the user enters
  Patterns,     \* the sets of telegrams a quick filter accepts; {} is no pattern
  Starts,       \* the times loads reach back to
  Limit,        \* the load limit
  None,
  Envs          \* sets of habits

Habits ==
  {"live",      \* the view is the Group Monitor, not the History Search
   "flags",     \* rows are flagged, the toggle is clicked
   "marks",     \* several rows are marked, then clicked with ctrl
   "quick",     \* the quick filter bar is used
   "parks",     \* entries and all filters are switched off and on
   "windows",   \* a window is entered
   "widens",    \* entries are added after a load
   "overlaps"}  \* the loader is closed while it loads, and opened again

VARIABLES
  habits,       \* the habits of this behaviour; fixed
  now,          \* the time; the store has the telegrams up to it
  telegrams,    \* those in the view
  filters,      \* activeFilters
  master,       \* filtersEnabled
  bar,          \* the quick filter bar
  table,        \* flaggedKeys, markedKeys and contextForAllMatches
  loads,        \* the answers to loads on their way
  loaded        \* the last answer, with filtersAtLoad; None before the first

vars == <<habits, now, telegrams, filters, master, bar, table, loads, loaded>>

Stored == {m \in Bus : m.ts <= now}
Newest(s) == CHOOSE m \in s : \A n \in s : n.ts <= m.ts
Keys(s) == {m.key : m \in s}

(* The newest n of a set of telegrams. *)
NewestOf[s \in SUBSET Bus, n \in 0..Cardinality(Bus)] ==
  IF n = 0 \/ s = {} THEN {}
  ELSE {Newest(s)} \cup NewestOf[s \ {Newest(s)}, n - 1]

-----------------------------------------------------------------------------
(* What the view computes from its state. *)

Effective == IF master THEN EnabledFilters(filters) ELSE WithoutSelections(filters)

MatchesFilterOnly == {m \in telegrams : MatchesTelegram(m, Effective)}  \* deviation

Matches == {m \in telegrams : MatchesTelegram(m, Effective) /\ ActiveQuick(bar, m)}

Flags == IF filters.on THEN table.flagged ELSE {}

NoContext == Expand(telegrams, Matches, Flags, [before |-> 0, after |-> 0], table.all)  \* deviation

View == Expand(telegrams, Matches, Flags, Window(filters), table.all)

(* The table: its own quick filter keeps the context and the flagged rows. *)
QuickKeeps(m) == m \in View.context \/ (filters.on /\ m.key \in table.flagged)

Rows == IF bar.open /\ bar.enabled
        THEN {m \in View.items : QuickAccepts(bar, m) \/ QuickKeeps(m)}
        ELSE View.items

AnchorsContext(m) == m.key \in table.flagged \/ (table.all /\ m \notin View.context)

AmongMatches == IF table.all THEN "all"  \* deviation
                ELSE IF Keys(Matches) \cap table.flagged = {} THEN "none" ELSE "some"

FlagState == IF table.all THEN "all"
             ELSE IF Keys(Rows) \cap table.flagged = {} THEN "none" ELSE "some"

ComparesSelections ==  \* deviation
  /\ loaded # None /\ telegrams # {}
  /\ \E c \in Categories \ {"directions"} : ~ (loaded.filters.sel[c] \subseteq filters.sel[c])

(* filtersLessRestrictive: the categories the server filters by. *)
LessRestrictive ==
  /\ loaded # None /\ telegrams # {}
  /\ \E c \in Categories \ {"directions"} : ~ (loaded.filters.sel[c] \subseteq Effective.sel[c])

LimitReached == loaded # None /\ loaded.limited

-----------------------------------------------------------------------------
(* Telegrams arrive; those a History Search asks for are there already. *)

Arrive ==
  /\ Bus \ Stored # {}
  /\ now' = now + 1
  /\ telegrams' = telegrams \cup {m \in Bus : m.ts = now'}
  /\ UNCHANGED <<habits, filters, master, bar, table, loads, loaded>>

(* The store's query: the window is opened around the matches, and the
   newest telegrams come first. *)
StoreQuery(range, f) == Expand(range, {m \in range : MatchesTelegram(m, f)}, {}, Window(f), TRUE).items

(* applyFilterParams, buildHistoryUrl, get_telegrams: every selection is
   applied but the directions. *)
Asked(f) == [f EXCEPT !.sel["directions"] = {}]
Range(start) == {m \in Stored : m.ts >= start}
GetTelegrams(range, f) ==
  LET found == StoreQuery(range, f)
  IN [rows |-> NewestOf[found, Limit], limited |-> Cardinality(found) > Limit]

Query(start, f) ==
  LET answer == GetTelegrams(Range(start), Asked(f))
  IN [filters |-> f, range |-> Range(start), rows |-> answer.rows, limited |-> answer.limited]

(* doFetch.  Closing the loader does not stop it; what it was given then, it
   still calls when the answer comes. *)
Load(start) ==
  /\ "live" \notin habits
  /\ Cardinality(loads) < (IF "overlaps" \in habits THEN 2 ELSE 1)
  /\ loads' = loads \cup {Query(start, Effective)}
  /\ UNCHANGED <<habits, now, telegrams, filters, master, bar, table, loaded>>

AlwaysLimit == Limit  \* deviation

(* handleLoad: telegrams at a time that is there are dropped, then those
   beyond the limit. *)
Room == IF Cardinality(telegrams) < Limit THEN Limit - Cardinality(telegrams) ELSE 0

Merge(rows) == telegrams \cup NewestOf[{m \in rows : \A n \in telegrams : n.ts # m.ts}, Room]

Answer(a) ==
  /\ loads' = loads \ {a}
  /\ telegrams' = Merge(a.rows)
  /\ loaded' = a
  /\ UNCHANGED <<habits, now, filters, master, bar, table>>

Fails(a) ==
  /\ loads' = loads \ {a}
  /\ UNCHANGED <<habits, now, telegrams, filters, master, bar, table, loaded>>

(* "Clear results": the filters of the last load are still known. *)
Clear ==
  /\ "live" \notin habits /\ telegrams # {}
  /\ telegrams' = {}
  /\ loaded' = IF loaded = None THEN None ELSE [loaded EXCEPT !.limited = FALSE]
  /\ UNCHANGED <<habits, now, filters, master, bar, table, loads>>

-----------------------------------------------------------------------------
(* The filters.  Every change goes through handleFiltersChange. *)

Change(f) == /\ filters' = PruneDisabled(f)
             /\ UNCHANGED <<habits, now, telegrams, bar, table, loads, loaded>>

(* handleQuickFilter and the rows of the filter pane: an entry is added, or
   taken away if it is there. *)
ToggleEntry(k) ==
  /\ "widens" \in habits \/ k[2] \in filters.sel[k[1]] \/ telegrams = {}
  /\ Change([filters EXCEPT !.sel[k[1]] = IF k[2] \in @ THEN @ \ {k[2]} ELSE @ \cup {k[2]}])
  /\ UNCHANGED master

Park(k) ==
  /\ "parks" \in habits /\ k[2] \in filters.sel[k[1]]
  /\ Change(ToggleDisabled(filters, k))
  /\ UNCHANGED master

Switch ==
  /\ "parks" \in habits
  /\ master' = ~ master
  /\ UNCHANGED <<habits, now, telegrams, filters, bar, table, loads, loaded>>

(* handleDeltaContextChange, handleDeltaContextEnabledChange. *)
SetWindow(w) ==
  /\ "windows" \in habits
  /\ Change([filters EXCEPT !.before = w.before, !.after = w.after])
  /\ UNCHANGED master

SwitchContext ==
  /\ "flags" \in habits
  /\ Change([filters EXCEPT !.on = ~ @])
  /\ UNCHANGED master

QuickBar(b) ==
  /\ "quick" \in habits
  /\ bar' = b
  /\ UNCHANGED <<habits, now, telegrams, filters, master, table, loads, loaded>>

-----------------------------------------------------------------------------
(* The table. *)

OnlyFlagged == table.flagged  \* deviation

(* The flags that keep every other row's window when "all" is left. *)
Explicit == table.flagged \cup (IF table.all THEN Keys(View.items \ View.context) ELSE {})

(* handleFlagClick: with ctrl it is about the marked rows too. *)
Clicked(m, ctrl) == {m.key} \cup (IF ctrl THEN table.marked ELSE {})

FlagClick(m, ctrl) ==
  /\ "flags" \in habits /\ m \in Rows
  /\ ctrl => "marks" \in habits
  /\ table' =
       IF AnchorsContext(m)
       THEN [table EXCEPT !.all = FALSE, !.flagged = Explicit \ Clicked(m, ctrl)]
       ELSE [table EXCEPT !.flagged = @ \cup Clicked(m, ctrl)]
  /\ UNCHANGED <<habits, now, telegrams, filters, master, bar, loads, loaded>>

(* handleDeltaToggleClick: none becomes all, and some or all becomes none. *)
ToggleAll ==
  /\ "flags" \in habits
  /\ table' = [table EXCEPT !.all = FlagState = "none", !.flagged = {}]
  /\ UNCHANGED <<habits, now, telegrams, filters, master, bar, loads, loaded>>

Mark(m) ==
  /\ "marks" \in habits /\ m \in Rows
  /\ table' = [table EXCEPT !.marked = IF m.key \in @ THEN @ \ {m.key} ELSE @ \cup {m.key}]
  /\ UNCHANGED <<habits, now, telegrams, filters, master, bar, loads, loaded>>

(* A click on a chart flags the telegram nearest to that time. *)
ChartClick(time) ==
  /\ {"live", "flags"} \subseteq habits /\ telegrams # {}
  /\ \E m \in telegrams :
       /\ \A n \in telegrams : (m.ts - time) * (m.ts - time) <= (n.ts - time) * (n.ts - time)
       /\ table' = [table EXCEPT !.flagged = @ \cup {m.key}]
  /\ UNCHANGED <<habits, now, telegrams, filters, master, bar, loads, loaded>>

-----------------------------------------------------------------------------
NoFilters == [sel |-> [c \in Categories |-> {}], off |-> {}, before |-> 0, after |-> 0, on |-> TRUE]
NoBar == [open |-> FALSE, enabled |-> FALSE, patterns |-> {}]

Init ==
  /\ habits \in Envs
  /\ now = IF "live" \in habits THEN 0 ELSE Newest(Bus).ts
  /\ telegrams = {} /\ filters = NoFilters /\ master = TRUE /\ bar = NoBar
  /\ table = [flagged |-> {}, marked |-> {}, all |-> TRUE]
  /\ loads = {} /\ loaded = None

Next ==
  \/ Arrive
  \/ \E start \in Starts : Load(start)
  \/ \E a \in loads : Answer(a) \/ Fails(a)
  \/ Clear
  \/ \E k \in Entries : ToggleEntry(k) \/ Park(k)
  \/ Switch
  \/ \E w \in Windows : SetWindow(w)
  \/ SwitchContext
  \/ \E p \in Patterns, open, enabled \in BOOLEAN :
       QuickBar([open |-> open, enabled |-> enabled, patterns |-> p])
  \/ \E m \in Bus, ctrl \in BOOLEAN : FlagClick(m, ctrl)
  \/ ToggleAll
  \/ \E m \in Bus : Mark(m)
  \/ \E time \in {m.ts : m \in Bus} : ChartClick(time)

Spec == Init /\ [][Next]_vars

-----------------------------------------------------------------------------
(* The types of the variables. *)
TypeOK ==
  /\ habits \in SUBSET Habits
  /\ telegrams \in SUBSET Stored
  /\ Selected(filters) \subseteq Entries
  /\ table.flagged \cup table.marked \subseteq Keys(Bus)
  /\ ("live" \in habits) \/ Cardinality(telegrams) <= Limit

(* A row that is drawn as context has, within the window, a row that anchors
   it and is drawn as well: neither the quick filter bar nor a flag that is
   out of force leaves context around nothing (TelegramTable.tsx:381-393,
   App.tsx:735-749). *)
ContextHasAnchor ==
  \A m \in Rows \cap View.context :
    \E a \in Rows : /\ AnchorsContext(a) /\ a \notin View.context
                    /\ m.ts >= a.ts - filters.before /\ m.ts <= a.ts + filters.after

(* The toggle does not read "none" while context is drawn, so that one click
   always takes the context away (TelegramTable.tsx:471-484). *)
ContextIsOwned == Rows \cap View.context # {} => FlagState # "none"

(* A click on a flag decides on the rows it is about and leaves the window of
   every other telegram in the view as it was; leaving "all" keeps them as
   flags (TelegramTable.tsx:362-379). *)
ClickDecidesItsRows ==
  [][<<table'.flagged, table'.all>> # <<table.flagged, table.all>> => \A m \in Bus, ctrl \in BOOLEAN : FlagClick(m, ctrl) =>
       \A n \in View.items :
         IF n.key \in Clicked(m, ctrl)
         THEN (n.key \in table'.flagged) = ~ AnchorsContext(m)
         ELSE (n.key \in table'.flagged \/ (table'.all /\ n \in Matches)) = AnchorsContext(n)]_vars

(* An entry that becomes selected is in force, also when it was switched off
   when it was last removed (filters.ts:70-79). *)
ReselectedIsOn ==
  [][\A k \in Selected(filters') \ Selected(filters) : k \notin filters'.off]_vars

(* While the filters are those of the last load, everything the server sent
   is shown: the window opened in the browser is the one opened by the
   server (deltaContextExpansion.ts:1-5, HistorySearch.tsx:174-189). *)
AnswerIsShown ==
  loaded # None /\ loaded.filters = Effective /\ ~ loaded.limited /\ loaded.rows \subseteq telegrams
  /\ Effective.sel["directions"] = {} /\ table.all /\ ~ (bar.open /\ bar.enabled)
    => loaded.rows \subseteq Rows

Unseen ==
  {m \in loaded.range : MatchesTelegram(m, Effective) /\ m \notin telegrams}

(* Entries were added to a category the last load was narrowed to. *)
Widened == \E c \in Categories : loaded.filters.sel[c] # {}
                                 /\ ~ (Effective.sel[c] \subseteq loaded.filters.sel[c])

(* Unless the limit cut them off, stored telegrams of the loaded range that
   match the filters are in the view or the view offers to reload, however
   selections were taken away: one by one, switched off, or all at once
   (HistorySearch.tsx:191-208). *)
RemovalsAreHinted ==
  loaded # None /\ telegrams # {} /\ ~ LimitReached /\ Cardinality(telegrams) < Limit
  /\ ~ Widened /\ Unseen # {} => LessRestrictive

(* What the view shows is right: context has its anchor and its owner, the
   answer of the server is shown, and what is missing is hinted at. *)
ViewIsTrue == TypeOK /\ ContextHasAnchor /\ ContextIsOwned /\ AnswerIsShown /\ RemovalsAreHinted
=============================================================================
