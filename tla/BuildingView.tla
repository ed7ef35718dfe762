---------------------------- MODULE BuildingView ----------------------------
(***************************************************************************)
(* The building page: its tree with what was opened and ticked, kept over   *)
(* the page's life in the session storage; the filters and the plot its     *)
(* rows add to; and the last values its rows, tables and the status page of *)
(* a device read once and then follow on the live feed.                     *)
(***************************************************************************)
EXTENDS BuildingTree

CONSTANTS
  Trees,      \* the projects there are, one after the other on the server
  Queries,    \* what is searched for
  Addresses,  \* the group addresses telegrams are about
  Focus,      \* the KO whose values are followed
  Rank,       \* per column of a table, the place of an address
  MaxClicks,  \* bound on clicks
  MaxBus,     \* bound on telegrams
  Envs        \* sets of habits

Habits ==
  {"expands",   \* nodes are opened and closed
   "searches",  \* the search text changes
   "ticks",     \* devices are ticked
   "reloads",   \* the tab is reloaded
   "private",   \* and has no storage
   "uploads",   \* the next project is uploaded
   "fails",     \* requests fail
   "adds",      \* rows are added to the filters and the plot
   "drills",    \* the status page of a device is visited
   "live",      \* telegrams arrive
   "races",     \* also while values are being fetched
   "batches",   \* several are drawn at once
   "sorts"}     \* tables are sorted

VARIABLES
  habits,   \* fixed
  project,  \* the one on the server
  page,     \* the panel, the device of the status page, the tree and whether it is being fetched
  kept,     \* what was opened ("over") and ticked, and the search text
  stored,   \* the opened and ticked in the session storage
  filters,  \* sources and targets of the filter, addresses plotted
  read,     \* per reader on screen, its values, the fetch under way, the order of its table
  bus,      \* the telegrams stored, each the address it is about
  seen,     \* the newest of them drawn
  clicks

vars == <<habits, project, page, kept, stored, filters, read, bus, seen, clicks>>

Has(h) == h \in habits
Plans == [i \in DOMAIN Trees |-> Laid(Trees[i])]
Tree == Plans[page.tree]
Drawn == page.panel = "building" /\ page.status = None /\ page.tree # None
Rows == IF Drawn THEN OnScreen(Tree, kept) ELSE {}  \* those drawn, each with its buttons
Clicks == clicks < MaxClicks /\ clicks' = clicks + 1

-----------------------------------------------------------------------------
(* The readers of last values on screen: the row of a KO, its table, the
   status page of a device, each gone when its place in the page is. *)

Readers ==
  IF ~ Has("live") \/ page.panel # "building" THEN {}
  ELSE IF page.status # None THEN {<<"status", page.status.device>>}
  ELSE IF ~ Drawn \/ Focus \notin OnScreen(Tree, kept) THEN {}
  ELSE {<<"row", KoKey(Tree, Focus, kept.query)>>}
         \cup IF IsOpen(Tree, Focus, kept) THEN {<<"table", KoKey(Tree, Focus, kept.query)>>} ELSE {}

GasRead(r) == IF r[1] = "status" THEN DeviceGas(Plans[page.status.tree], r[2]) ELSE KoGas(Tree, Focus)

(* A reader begins with the telegram drawn last, if it is about one of its
   addresses, and fetches. *)
Begins(gas) ==
  [values |-> [g \in Addresses |-> IF seen > 0 /\ g \in gas /\ bus[seen] = g THEN seen ELSE 0],
   since |-> Len(bus), sort |-> None]

Settle == read' = [r \in Readers' |-> IF r \in DOMAIN read THEN read[r] ELSE Begins(GasRead(r)')]

-----------------------------------------------------------------------------
(* The panels. *)

StatusAfter(p) == IF p # "building" THEN None ELSE page.status

(* One is chosen in the switch.  The building page fetches its tree each time
   it comes on screen. *)
Choose(p) ==
  /\ page.panel # p \/ page.status # None
  /\ Clicks
  /\ page' = LET status == StatusAfter(p) comes == p = "building" /\ page.panel # p /\ status = None
             IN [panel |-> p, status |-> status, tree |-> IF p = page.panel THEN page.tree ELSE None,
                 fetching |-> IF p = page.panel THEN page.fetching ELSE comes]
  /\ UNCHANGED <<habits, project, kept, stored, filters, bus, seen>> /\ Settle

(* The page closes; the last-seen panel opens for a row, or the plot. *)
LeavesFetching(p) ==  \* deviation
  /\ page.panel = "building" /\ Clicks
  /\ page' = [page EXCEPT !.panel = p, !.tree = None]
  /\ UNCHANGED <<habits, project, kept, stored, filters, bus, seen>> /\ Settle
Leave(p) ==
  /\ page.panel = "building" /\ (p = "list" => page.status = None)
  /\ Clicks
  /\ page' = [page EXCEPT !.panel = p, !.tree = None, !.fetching = FALSE]
  /\ UNCHANGED <<habits, project, kept, stored, filters, bus, seen>> /\ Settle

ShowStatus(d) ==
  /\ Has("drills") /\ d \in Of(Tree, "device") /\ HasChildren(Tree, d)
  /\ Clicks
  /\ page' = [page EXCEPT !.status = [device |-> d, tree |-> page.tree], !.tree = None, !.fetching = FALSE]
  /\ UNCHANGED <<habits, project, kept, stored, filters, bus, seen>> /\ Settle

BackToBuilding ==
  /\ page.panel = "building" /\ page.status # None
  /\ Clicks
  /\ page' = [page EXCEPT !.status = None, !.fetching = TRUE]
  /\ UNCHANGED <<habits, project, kept, stored, filters, bus, seen>> /\ Settle

-----------------------------------------------------------------------------
(* The tree. *)

Refresh ==
  /\ page.panel = "building" /\ page.status = None /\ ~ page.fetching /\ Clicks
  /\ page' = [page EXCEPT !.fetching = TRUE]
  /\ UNCHANGED <<habits, project, kept, stored, filters, read, bus, seen>>

Answer ==
  /\ page.fetching
  /\ page' = [page EXCEPT !.tree = project, !.fetching = FALSE]
  /\ UNCHANGED <<habits, project, kept, stored, filters, bus, seen, clicks>> /\ Settle

Fail ==
  /\ Has("fails") /\ page.fetching
  /\ page' = [page EXCEPT !.fetching = FALSE]
  /\ UNCHANGED <<habits, project, kept, stored, filters, read, bus, seen, clicks>>

Upload ==
  /\ Has("uploads") /\ project < Len(Trees)
  /\ project' = project + 1
  /\ UNCHANGED <<habits, page, kept, stored, filters, read, bus, seen, clicks>>

(* Every change of what is opened or ticked is written. *)
Forgetful(next) == stored  \* deviation
Written(next) == IF Has("private") THEN stored ELSE next
Keep(next) ==
  /\ kept' = next /\ stored' = Written(next)
  /\ UNCHANGED <<habits, project, page, filters, bus, seen>> /\ Settle

Toggle(n) ==
  /\ Has("expands")
  /\ CASE Tree.kind[n] = "ko" -> KoGas(Tree, n) # {}
       [] Tree.kind[n] = "device" -> HasChildren(Tree, n)
       [] Tree.kind[n] = "space" -> Below(Tree, n) # {}
       [] OTHER -> TRUE
  /\ Clicks
  /\ LET key == Key(Tree, n, kept.query)
     IN Keep([kept EXCEPT !.over = [k \in DOMAIN @ \cup {key} |-> IF k = key THEN ~ IsOpen(Tree, n, kept) ELSE @[k]]])

ToggleDeviceSelected(d) ==
  /\ Has("ticks") /\ d \in Of(Tree, "device") /\ Clicks
  /\ Keep([kept EXCEPT !.devices = IF d \in @ THEN @ \ {d} ELSE @ \cup {d}])

(* Both only while something is ticked. *)
SetOnlySelected ==
  /\ Drawn /\ kept.devices # {} /\ Clicks
  /\ Keep([kept EXCEPT !.only = ~ @])

ClearDeviceSelection ==
  /\ Drawn /\ kept.devices # {} /\ Clicks
  /\ Keep([kept EXCEPT !.devices = {}, !.only = FALSE])

SetSearchQuery(q) ==
  /\ Has("searches") /\ Drawn /\ q # kept.query /\ Clicks
  /\ kept' = [kept EXCEPT !.query = q]
  /\ UNCHANGED <<habits, project, page, stored, filters, bus, seen>> /\ Settle

(* The panel comes back, without the status page. *)
Reload ==
  /\ Has("reloads") /\ Clicks
  /\ kept' = [stored EXCEPT !.query = kept.query]
  /\ page' = [panel |-> page.panel, status |-> None, tree |-> None, fetching |-> page.panel = "building"]
  /\ UNCHANGED <<habits, project, stored, filters, bus>>
  /\ seen' = Len(bus) /\ Settle

-----------------------------------------------------------------------------
(* What rows add elsewhere.  Their buttons are there if the row has addresses. *)

RowGas(n) ==
  CASE Tree.kind[n] = "ko" -> KoGas(Tree, n)
    [] Tree.kind[n] = "channel" -> ChannelGas(Tree, n)
    [] Tree.kind[n] = "device" -> DeviceGas(Tree, n)
    [] Tree.kind[n] = "function" -> FunctionGas(Tree, n)
    [] OTHER -> {}

Adds == Has("adds") /\ Clicks /\ UNCHANGED <<habits, project, kept, stored, bus, seen>>

HandleFilterGas(n) ==
  /\ Adds /\ RowGas(n) # {}
  /\ filters' = [filters EXCEPT !.targets = @ \cup RowGas(n)]
  /\ UNCHANGED <<page, read>>

HandleVisualizeGas(n) ==
  /\ Adds /\ Tree.kind[n] # "channel" /\ RowGas(n) # {}
  /\ filters' = [filters EXCEPT !.plotted = @ \cup RowGas(n)]
  /\ page' = [page EXCEPT !.panel = "visualizer", !.tree = None, !.fetching = FALSE]
  /\ Settle

(* The quick filter of the list: a second click takes the device out. *)
FilterDevice(d) ==
  /\ Adds /\ d \in Of(Tree, "device")
  /\ filters' = [filters EXCEPT !.sources = IF d \in @ THEN @ \ {d} ELSE @ \cup {d}]
  /\ UNCHANGED <<page, read>>

-----------------------------------------------------------------------------
(* Values. *)

Arrive(g) ==
  /\ Has("live") /\ Len(bus) < MaxBus
  /\ Has("races") \/ \A r \in DOMAIN read : read[r].since = None
  /\ bus' = Append(bus, g)
  /\ UNCHANGED <<habits, project, page, kept, stored, filters, read, seen, clicks>>

Ignores(r, i) == read[r].values  \* deviation
Takes(r, i) == IF bus[i] \in GasRead(r) THEN [read[r].values EXCEPT ![bus[i]] = i] ELSE read[r].values

(* The page is drawn with the newest of the telegrams that came. *)
Render ==
  /\ seen < Len(bus)
  /\ \E i \in (seen + 1)..(IF Has("batches") THEN Len(bus) ELSE seen + 1) :
       /\ seen' = i
       /\ read' = [r \in DOMAIN read |-> [read[r] EXCEPT !.values = Takes(r, i)]]
  /\ UNCHANGED <<habits, project, page, kept, stored, filters, bus, clicks>>

(* The newest telegram of an address among the first n. *)
LastOf(g, n) == CHOOSE i \in 0..n : (i = 0 \/ bus[i] = g) /\ \A j \in 1..n : bus[j] = g => j <= i

(* An answer replaces the values, with what was stored as it was asked or later. *)
Answered(r, n) ==
  /\ read[r].since # None /\ n \in read[r].since..Len(bus)
  /\ read' = [read EXCEPT ![r] = [@ EXCEPT !.since = None,
                !.values = [g \in Addresses |-> IF g \in GasRead(r) THEN LastOf(g, n) ELSE 0]]]
  /\ UNCHANGED <<habits, project, page, kept, stored, filters, bus, seen, clicks>>

(* The status page can be reloaded. *)
FetchValues ==
  /\ page.panel = "building" /\ page.status # None /\ Clicks
  /\ \E r \in DOMAIN read : read[r].since = None /\ read' = [read EXCEPT ![r].since = Len(bus)]
  /\ UNCHANGED <<habits, project, page, kept, stored, filters, bus, seen>>

HandleSort(r, key) ==
  /\ Has("sorts") /\ r[1] = "table" /\ Clicks
  /\ read' = [read EXCEPT ![r].sort = Clicked(@, key)]
  /\ UNCHANGED <<habits, project, page, kept, stored, filters, bus, seen>>

(* The newest value of a KO in its row. *)
NewestRead(r) == LET v == read[r].values IN CHOOSE g \in GasRead(r) : \A h \in GasRead(r) : v[h] <= v[g]

-----------------------------------------------------------------------------
Init ==
  /\ habits \in Envs
  /\ project = 1
  /\ page = [panel |-> "list", status |-> None, tree |-> None, fetching |-> FALSE]
  /\ kept = [over |-> <<>>, devices |-> {}, only |-> FALSE, query |-> None] /\ stored = kept
  /\ filters = [sources |-> {}, targets |-> {}, plotted |-> {}]
  /\ read = <<>> /\ bus = <<>> /\ seen = 0 /\ clicks = 0

Next ==
  \/ BackToBuilding \/ Refresh \/ Answer \/ Fail \/ Upload \/ SetOnlySelected \/ ClearDeviceSelection
  \/ Reload \/ Render \/ FetchValues
  \/ \E p \in {"list", "building", "lastseen"} : Choose(p) \/ (p # "building" /\ Leave(p))
  \/ \E n \in Rows :
       \/ ShowStatus(n) \/ Toggle(n) \/ ToggleDeviceSelected(n) \/ FilterDevice(n)
       \/ HandleFilterGas(n) \/ HandleVisualizeGas(n)
  \/ \E q \in Queries \cup {None} : SetSearchQuery(q)
  \/ \E g \in Addresses : Arrive(g)
  \/ \E r \in DOMAIN read : (\E n \in 0..MaxBus : Answered(r, n)) \/ \E key \in {"ga", "name", "time"} : HandleSort(r, key)

Spec == Init /\ [][Next]_vars

-----------------------------------------------------------------------------
(* The types of the variables; a tree is there only while the page is. *)
TypeOK ==
  /\ page.tree \in DOMAIN Trees \cup {None} /\ page.fetching \in BOOLEAN
  /\ (page.tree # None \/ page.fetching) => (page.panel = "building" /\ page.status = None)
  /\ \A key \in DOMAIN kept.over : kept.over[key] \in BOOLEAN
  /\ \A r \in DOMAIN read : read[r].values \in [Addresses -> 0..Len(bus)]
  /\ seen <= Len(bus)

(* With only the ticked devices shown, all of them that the project has are on
   screen, however deep and closed their rooms are, and nothing else but the
   way to them (BuildingOverlay.tsx:737-739). *)
TickedTogether ==
  Drawn /\ HideOthers(kept) /\ kept.query = None =>
    LET shown == OnScreen(Tree, kept)
        ticked == kept.devices \cap Of(Tree, "device")
    IN /\ shown \cap (Of(Tree, "device") \cup Of(Tree, "function")) = ticked
       /\ \A s \in shown \cap Of(Tree, "space") : Below(Tree, s) \cap ticked # {}

(* A search brings every KO, function and device it finds on screen, opened or
   not (BuildingOverlay.tsx:134-191, 539-549). *)
MatchesShown ==
  Drawn /\ kept.query # None /\ ~ HideOthers(kept) =>
    {k \in Of(Tree, "ko") : KoMatches(Tree, k, kept.query)}
      \cup (kept.query \cap (Of(Tree, "device") \cup Of(Tree, "function"))) \subseteq OnScreen(Tree, kept)

(* Leaving the page, another project and a reload of the tab change nothing of
   what is opened and ticked: only clicks do (buildingExpansion.ts:5-11,
   buildingSelection.ts:7-8). *)
TreeSurvives ==
  [][page # page' /\ ~ Has("private") => [kept' EXCEPT !.query = None] = [kept EXCEPT !.query = None]]_vars

(* A click, a search or an upload opens or closes no space, device, channel or
   function but the one clicked (buildingExpansion.ts:9-11). *)
OthersStay ==
  [][Drawn /\ Drawn' /\ Tree = Tree' =>
       Cardinality({n \in Nodes(Tree) \ Of(Tree, "ko") : IsOpen(Tree, n, kept) # IsOpen(Tree, n, kept')}) <= 1]_vars

(* Once everything is drawn and fetched each reader shows the newest value of
   each of its addresses: row, table and status page of a KO agree. *)
Current ==
  seen = Len(bus) => \A r \in DOMAIN read : read[r].since = None =>
    /\ \A g \in GasRead(r) : read[r].values[g] = LastOf(g, Len(bus))
    /\ GasRead(r) # {} => \A g \in GasRead(r) : LastOf(g, Len(bus)) <= read[r].values[NewestRead(r)]

(* So it is where telegrams neither cross an answer nor share a drawing
   (useLastSeenValues.ts:46-52, DeviceStatusOverlay.tsx:277-282). *)
ValuesCurrent == ~ Has("races") /\ ~ Has("batches") => Current

(* The table sorted by time has the addresses in the order of their values,
   those never seen at the end in both directions (GaValuesTable.tsx:126-134). *)
SortedByTime ==
  \A r \in DOMAIN read : read[r].sort # None /\ r[1] = "table" =>
    LET rows == Sorted(Tree.gas[Focus], read[r].sort, read[r].values, Rank)
        v(i) == read[r].values[rows[i]]
    IN /\ ToSet(rows) = GasRead(r) /\ Len(rows) = Len(Tree.gas[Focus])
       /\ read[r].sort.key = "time" => \A i, j \in DOMAIN rows : i < j =>
            v(j) = 0 \/ (v(i) # 0 /\ IF read[r].sort.dir = "asc" THEN v(i) <= v(j) ELSE v(j) <= v(i))

(* The building page shows what is ticked, what is searched for and what the
   bus said last, sorted as asked (BuildingOverlay.tsx). *)
BuildingIsTrue == TypeOK /\ TickedTogether /\ MatchesShown /\ ValuesCurrent /\ SortedByTime
=============================================================================
