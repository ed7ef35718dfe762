----------------------------- MODULE MC_Filters -----------------------------
(* The bookkeeping of what a page has loaded, and what the tables over it are
   filtered and laid out by: the coverage list, the filter panel, the view the
   filters leave and the columns it is drawn with.  Each is explored for
   itself: `part` names the one that runs, the others stay as they start. *)
EXTENDS TelegramCoverage, TLC

CONSTANTS None, blue, red, timeCol, sourceCol, kindCol, valueCol

VARIABLES
  part,
  pickHabits, pickFilters, pane, colors, pickBus, pickClicks,
  colHabits, colTable, colPage, prefs, mouse, colList, colClicks,
  viewHabits, now, telegrams, viewFilters, master, quickBar, table, loads, loaded

MCTime == 0 .. 6

(* Addresses of one, two and three parts and two main types, one of them with
   an option of its own. *)
PickEnvs == {{"searches"}, {"quick", "mutes"}, {"colours"}, {"live"}}
Pick == INSTANCE FilterPicker WITH
  Categories <- {"targets", "dpts"},
  Options <- [targets |-> {<<1, 1, 1>>, <<1, 1, 2>>, <<1, 2>>, <<7>>}, dpts |-> {<<1, 1>>, <<1, 2>>, <<1, 3>>, <<9, 1>>, <<5>>}],
  Arrivals <- {[to |-> <<1, 1, 1>>, dpt |-> <<1, 2>>], [to |-> <<7>>, dpt |-> <<9>>], [to |-> <<1, 2>>, dpt |-> None]},
  Found <- {{<<1, 1, 2>>, <<1, 1>>, <<1, 2>>}, {<<7>>, <<9, 1>>}},
  Palette <- <<blue, red>>, MaxClicks <- 4, MaxBus <- 1, Envs <- PickEnvs,
  habits <- pickHabits, filters <- pickFilters, bus <- pickBus, clicks <- pickClicks

(* Three columns and, from the second version on, a fourth between them that
   can be hidden. *)
ColEnvs ==
  {{"drags", "hides", "switches"}, {"drags", "reloads", "upgrades", "hides"}, {"resizes", "hides", "switches"},
   {"resizes", "reloads", "upgrades"}, {"sorts"}}
ColRow(t, s, v) == timeCol :> t @@ sourceCol :> s @@ valueCol :> v @@ kindCol :> 1
ColTables ==
  {<<ColRow(p, 1, 1), ColRow(q, 2, None), ColRow(r, 1, 2), ColRow(s, 2, 2), ColRow(s, 1, None)>> :
     p \in {0, 2}, q \in {0, 1, 3}, r \in {1, 4}, s \in {2, 5}}
Cols == INSTANCE TableColumns WITH
  Time <- timeCol, Versions <- <<<<timeCol, sourceCol, valueCol>>, <<timeCol, sourceCol, kindCol, valueCol>>>>,
  Sortable <- {timeCol, sourceCol, valueCol}, Hideable <- {valueCol, kindCol}, DefaultWidth <- 2, MinWidth <- 1,
  Offsets <- {-2, 0, 1}, Tables <- ColTables, Window <- 2, MaxClicks <- 4, Envs <- ColEnvs,
  habits <- colHabits, table <- colTable, page <- colPage,
  list <- colList, clicks <- colClicks

(* Four telegrams, two of one address. *)
ViewEnvs ==
  {{"live", "flags", "quick", "windows"}, {"live", "flags", "marks", "windows"},
   {"live", "parks", "widens"}, {"parks"}, {"overlaps"}, {"widens", "windows"}}
Row(k, ga, dir) == [key |-> k, ts |-> k, is |-> [targets |-> {ga}, directions |-> dir]]
View == INSTANCE FilteredView WITH
  Categories <- {"targets", "directions"},
  Bus <- {Row(1, "a", {"In"}), Row(2, "b", {}), Row(3, "c", {"In"}), Row(4, "a", {"Out"})},
  Entries <- {<<"targets", "a">>, <<"targets", "b">>, <<"directions", "In">>},
  Starts <- {1}, Windows <- {[before |-> 0, after |-> 0], [before |-> 1, after |-> 0]},
  Patterns <- {{}, {1, 2}}, Limit <- 3, Envs <- ViewEnvs,
  habits <- viewHabits, filters <- viewFilters, bar <- quickBar

pickVars == <<pickHabits, pickFilters, pane, colors, pickBus, pickClicks>>
colVars == <<colHabits, colTable, colPage, prefs, mouse, colList, colClicks>>
viewVars == <<viewHabits, now, telegrams, viewFilters, master, quickBar, table, loads, loaded>>
allVars == <<part, vars, pickVars, colVars, viewVars>>
Starting(of, choice, envs) == part # of => choice = CHOOSE e \in envs : TRUE

MCInit ==
  /\ part \in {"coverage", "picker", "columns", "view"}
  /\ Init /\ Pick!Init /\ Cols!Init /\ View!Init
  /\ Starting("picker", pickHabits, PickEnvs) /\ Starting("view", viewHabits, ViewEnvs)
  /\ Starting("columns", <<colHabits, colTable>>, {{"drags", "hides", "switches"}} \X {<<>>})

MCNext ==
  /\ UNCHANGED part
  /\ \/ part = "coverage" /\ Next /\ UNCHANGED <<pickVars, colVars, viewVars>>
     \/ part = "picker" /\ Pick!Next /\ UNCHANGED <<vars, colVars, viewVars>>
     \/ part = "columns" /\ Cols!Next /\ UNCHANGED <<vars, pickVars, viewVars>>
     \/ part = "view" /\ View!Next /\ UNCHANGED <<vars, pickVars, colVars>>

MCSpec == MCInit /\ [][MCNext]_allVars
-----------------------------------------------------------------------------
(* The page shows what is so.  A box is ticked exactly if what it stands for
   passes, a bubble counts what would (DptTypeTree.tsx, FilterPanel.tsx); the
   oldest, newest and busiest telegrams are found however the table is sorted
   (TelegramTable.tsx:486-488, peakRate.ts); and the view is that of its
   filters, see FilteredView (TelegramTable.tsx, HistorySearch.tsx). *)
PageIsTrue ==
  /\ part = "picker" => Pick!TypeOK /\ Pick!TicksAreTrue /\ Pick!CountsPreview
  /\ part = "columns" => Cols!TypeOK /\ Cols!InfoBarTrue
  /\ part = "view" => View!ViewIsTrue

(* A click decides on what was clicked and on nothing else: on boxes, flags
   and entries that come back, and a new colour is a free one (DptTypeTree.tsx,
   TelegramTable.tsx:362-379, filters.ts:70-79, targetColors.ts:58-75). *)
ClicksDecide == Pick!ClickDecides /\ Pick!ColourIsFree /\ View!ClickDecidesItsRows /\ View!ReselectedIsOn

(* Columns and levels of sorting stay where they were put, through drags,
   reloads and new versions (columnOrder.ts, sortConfig.ts). *)
ColumnsStay == Cols!DropLands /\ Cols!LayoutKept /\ Cols!LevelsRefine
=============================================================================
