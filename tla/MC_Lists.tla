------------------------------ MODULE MC_Lists ------------------------------
(* The lists a page keeps up to date from the live feed: the buffer of
   telegrams, the table that draws it, the last-seen overlay and the building
   page; and the workspace they are part of, in the address bar.  Each is explored for itself: `part` names the one that runs, the
   others stay as they start. *)
EXTENDS BuildingView, TLC

CONSTANTS house, floor, hall, attic, dev1, dev2, ch, ko1, ko2, ko3, ko4, fn, ga, gb, gc

VARIABLES
  part,
  tableHabits, tableBuf, hiding, tbl,
  seenEnv, seenBus, close, wire, latest, stale, sel, seenValues, seenList, pending, live, resend, fetches,
  buffer, maxSize, ids, onScreen, paused, pausedCount,
  wsHabits, ws, own, due, timer, synced, writeMode, entries, entryAt, wsStored, touched

(* Telegrams 1, 2, ...; two of them share a timestamp. *)
Time(e) == IF e <= 2 THEN e ELSE e - 1
Buffer == INSTANCE TelegramBuffer WITH Entry <- 1 .. 4, Ts <- Time, MaxSizes <- {1, 2, 3}, MaxMerge <- 3, shown <- onScreen

(* A table whose viewport has room for two rows. *)
TableEnvs ==
  {{"hasty", "older"}, {"marks"}, {"bursts", "older"}, {"bursts", "filters"}, {"sorts"}, {"leaves", "older"}}
Table == INSTANCE TelegramList WITH
  Oldest <- 2, Newest <- 4, MaxId <- 7, Size <- 5, MaxFrames <- 3, MaxMarks <- 1, Height <- 2, Overscan <- 0,
  Envs <- TableEnvs, habits <- tableHabits, t <- tbl, buf <- tableBuf

(* Two addresses and a few telegrams. *)
SeenEnv(v, n, h) == [view |-> v, telegrams |-> n, habits |-> h]
SeenEnvs ==
  {SeenEnv("values", 2, {"close", "switch"}), SeenEnv("list", 3, {}), SeenEnv("values", 2, {"burst", "race", "outage"}),
   SeenEnv("list", 2, {"race", "switch"}), SeenEnv("list", 3, {"burst", "outage"}), SeenEnv("list", 2, {"close", "burst"})}
Seen == INSTANCE LastSeen WITH GA <- {1, 2}, Limit <- 2, Envs <- SeenEnvs, env <- seenEnv, bus <- seenBus,
  values <- seenValues, list <- seenList

(* A house of a floor and two rooms, one device with a channel and objects of
   its own, another with one object, and a function; the next project moves the
   second device out of the house. *)
MCParent ==
  house :> None @@ floor :> house @@ hall :> floor @@ attic :> house @@ dev1 :> hall @@ dev2 :> attic
  @@ ch :> dev1 @@ ko1 :> ch @@ ko2 :> dev1 @@ ko3 :> dev1 @@ ko4 :> dev2 @@ fn :> hall
MCKind ==
  house :> "space" @@ floor :> "space" @@ hall :> "space" @@ attic :> "space" @@ dev1 :> "device" @@ dev2 :> "device"
  @@ ch :> "channel" @@ ko1 :> "ko" @@ ko2 :> "ko" @@ ko3 :> "ko" @@ ko4 :> "ko" @@ fn :> "function"
MCTree ==
  [parent |-> MCParent, kind |-> MCKind,
   order |-> <<house, attic, floor, hall, fn, dev1, ch, ko1, ko3, ko2, dev2, ko4>>,
   number |-> ko1 :> 1 @@ ko2 :> 2 @@ ko3 :> 3 @@ ko4 :> None,
   gas |-> ko1 :> <<ga>> @@ ko2 :> <<gb>> @@ ko3 :> <<gb, ga>> @@ ko4 :> <<>> @@ fn :> <<ga, gc>>]
MCTrees == <<MCTree, [MCTree EXCEPT !.parent[dev2] = None]>>
MCQueries == {{ga}, {ko1}, {hall}, {gb, dev2}}
MCRank == "ga" :> (ga :> 1 @@ gb :> 2 @@ gc :> 3) @@ "name" :> (ga :> 2 @@ gb :> 1 @@ gc :> 2)
MCEnvs ==
  {{"expands", "searches"}, {"ticks", "expands", "searches"}, {"ticks", "uploads", "expands"}, {"ticks", "expands", "reloads"},
   {"expands", "reloads", "private"}, {"adds", "searches", "fails"}, {"drills", "searches", "live"},
   {"expands", "searches", "live", "sorts"}}

(* Two filters and two selections, in a history of two entries. *)
WsEnvs == {{}, {"hasty"}, {"shared"}, {"embedded"}, {"edited"}, {"panel"}}
Ws == INSTANCE Workspace WITH
  None <- "none", Filters <- {"none", "kitchen"}, Selections <- {"none", "1/1/1"}, MaxEntries <- 2, Envs <- WsEnvs,
  habits <- wsHabits, mode <- writeMode, at <- entryAt, stored <- wsStored

(* These instances are among those the theorems speak of. *)
ASSUME SizedAssumption == Ws!Sized /\ Buffer!Sized /\ Seen!Sized

tableVars == <<tableHabits, tableBuf, hiding, tbl>>
seenVars == <<seenEnv, seenBus, close, wire, latest, stale, sel, seenValues, seenList, pending, live, resend, fetches>>
bufferVars == <<buffer, maxSize, ids, onScreen, paused, pausedCount>>
wsVars == <<wsHabits, ws, own, due, timer, synced, writeMode, entries, entryAt, wsStored, touched>>
allVars == <<part, vars, bufferVars, tableVars, seenVars, wsVars>>
Starting(of, choice, envs) == part # of => choice = CHOOSE e \in envs : TRUE

MCInit ==
  /\ part \in {"buffer", "table", "seen", "building", "workspace"}
  /\ Init /\ Buffer!Init /\ Table!Init /\ Seen!Init /\ Ws!Init
  /\ Starting("buffer", maxSize, {2}) /\ Starting("table", <<tableHabits, tbl.dir>>, TableEnvs \X {"asc"})
  /\ Starting("seen", <<seenEnv, sel, live>>, SeenEnvs \X {{1}} \X {TRUE}) /\ Starting("building", habits, Envs)
  /\ Starting("workspace", wsHabits, WsEnvs)

MCNext ==
  /\ UNCHANGED part
  /\ \/ part = "buffer" /\ Buffer!Next /\ UNCHANGED <<vars, tableVars, seenVars, wsVars>>
     \/ part = "table" /\ Table!Next /\ UNCHANGED <<vars, bufferVars, seenVars, wsVars>>
     \/ part = "seen" /\ Seen!Next /\ UNCHANGED <<vars, bufferVars, tableVars, wsVars>>
     \/ part = "building" /\ Next /\ UNCHANGED <<bufferVars, tableVars, seenVars, wsVars>>
     \/ part = "workspace" /\ Ws!Next /\ UNCHANGED <<vars, bufferVars, tableVars, seenVars>>

MCSpec == MCInit /\ [][MCNext]_allVars
-----------------------------------------------------------------------------
(* The buffer: see TelegramBuffer, and the set it implements. *)
BufferIsTrue == part = "buffer" => Buffer!BufferIsTrue
ImplementsBufferPromise == Buffer!ImplementsBufferPromise

(* The table: see TelegramList (TelegramTable.tsx). *)
RowsHold == part = "table" => Table!RowsHold

(* The last-seen overlay: see LastSeen (LastSeenOverlay.tsx). *)
SeenIsTrue == part = "seen" => Seen!SeenIsTrue

(* What a reader has paused, frozen, opened or is reading is not changed under
   him: not the paused screen, the frozen list, the stripes of the rows, nor
   the branches of the building (TelegramTable.tsx, LastSeenOverlay.tsx,
   buildingExpansion.ts:5-11). *)
ArrangedStays ==
  Buffer!PauseFreezes /\ Seen!FrozenStays /\ Table!StripesStay /\ TreeSurvives /\ OthersStay

(* What a reload, Back and Forward bring back: see Workspace. *)
WorkspaceKept == part = "workspace" => Ws!WorkspaceKept

(* The way forward is cut off only by the user, and left alone the page comes
   to rest (App.tsx:440-560, LastSeenOverlay.tsx:109-121). *)
HistoryRests ==
  /\ Ws!ForwardKept
  /\ part = "workspace" /\ Ws!Fairness => Ws!RenderingEndsOtherwise
=============================================================================
