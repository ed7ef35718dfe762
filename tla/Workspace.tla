------------------------------ MODULE Workspace ------------------------------
(***************************************************************************)
(* The workspace of App: tab, panel, filters and selections, written to the *)
(* address bar half a second after they change (or to localStorage in a     *)
(* dashboard), restored by Back, Forward and a reload; and the last-seen    *)
(* panel, which keeps a selection of its own in step with App's.            *)
(*                                                                          *)
(* A URL is the workspace it encodes.  The browser's history is a sequence  *)
(* of them.  Effects run after the commit that made them due.               *)
(***************************************************************************)
EXTENDS Integers, Sequences

CONSTANTS
  Filters,      \* values of the filters; contains None
  Selections,   \* values of the last-seen selection; contains None
  None,
  MaxEntries,   \* bound on the entries of the history
  Envs          \* sets of habits

Habits ==
  {"embedded",  \* the app runs in a dashboard's frame
   "shared",    \* it was opened by a link to a view
   "edited",    \* the address was edited by hand
   "hasty",     \* something is changed within half a second of a load
   "panel"}     \* Back and Forward change the selection under an open panel

Sized ==
  /\ None \in Selections /\ None \in Filters /\ \E f \in Filters : f # None
  /\ MaxEntries \in Nat \ {0}
  /\ Envs \subseteq SUBSET Habits /\ \A e \in Envs : ~ {"shared", "edited"} \subseteq e

Views == {"list", "lastseen"}
Default == [view |-> "list", pane |-> TRUE, filters |-> None, selection |-> None]
SharedView == [Default EXCEPT !.filters = CHOOSE f \in Filters : f # None]
Bogus == [Default EXCEPT !.view = "bogus"]
Workspaces == [view : Views, pane : BOOLEAN, filters : Filters, selection : Selections]

VARIABLES
  habits,       \* the habits of this behaviour; fixed
  ws,           \* the workspace in App's state
  own,          \* the panel's selection
  due,          \* the panel's effects that are due: "no", "back" or "both"
  timer,        \* the debounce timer runs
  synced,       \* syncedSearchRef
  mode,         \* urlWriteModeRef
  entries, at,  \* the browser's history and the entry it is at
  stored,       \* localStorage
  touched       \* the user changed something since the last write or navigation

app == <<ws, own, due, timer, synced, mode>>
browser == <<entries, at, stored>>
vars == <<habits, app, browser, touched>>

Unchecked(u) == u                                \* deviation
(* What a URL, or a stored workspace, is taken for. *)
Sanitize(u) == IF u.view \in Views THEN u ELSE [u EXCEPT !.view = "list"]

Embedded == "embedded" \in habits
Shared == "shared" \in habits
AlwaysSyncs == TRUE                              \* deviation
Syncs == ~Shared

Kept == Sanitize(IF Embedded THEN stored ELSE entries[at])

Init ==
  /\ habits \in Envs
  /\ own = None /\ due = "no" /\ timer = Syncs /\ touched = FALSE
  /\ synced = Default /\ mode = "replace" /\ at = 1 /\ stored = Default
  /\ entries = IF "edited" \in habits THEN <<Bogus>> ELSE <<Default>>
  /\ ws = IF Shared THEN SharedView ELSE Kept
-----------------------------------------------------------------------------
(* App renders with another workspace: the panel mounts with its selection, *)
(* or its effects become due, and the debounce starts again.                *)
Open(w) == w.view = "lastseen"
Renders(w) ==
  /\ ws' = w /\ timer' = Syncs
  /\ IF Open(w) /\ Open(ws)
       THEN own' = own /\ due' = IF w.selection # ws.selection THEN "both" ELSE due
       ELSE own' = w.selection /\ due' = "no"

(* The user changes filters, the pane or the panel, or looks at addresses.  *)
MayAct == "hasty" \in habits \/ mode = "push" \/ Shared \/ Embedded
Change(w) ==
  /\ MayAct /\ due = "no" /\ w # ws
  /\ w.selection # ws.selection => ~Open(ws) /\ Open(w)
  /\ Renders(w) /\ touched' = TRUE
  /\ UNCHANGED <<habits, synced, mode, browser>>

(* She selects others in the panel itself. *)
Select(s) ==
  /\ MayAct /\ Open(ws) /\ due = "no" /\ s # own
  /\ own' = s /\ due' = "back" /\ touched' = TRUE
  /\ UNCHANGED <<habits, ws, timer, synced, mode, browser>>

(* Effects read the commit they belong to: App's selection becomes the      *)
(* panel's if it is another than before, and the panel's becomes App's,     *)
(* which is due after every render, as App's callback is never the same.    *)
NotBack == due' = "no" /\ UNCHANGED <<ws, timer>>   \* deviation
CopiesBack == due' = "both" /\ ws' = [ws EXCEPT !.selection = own] /\ timer' = Syncs   \* deviation
Back ==
  /\ ws' = [ws EXCEPT !.selection = own]
  /\ IF own # ws.selection THEN due' = "both" /\ timer' = Syncs ELSE due' = "no" /\ timer' = timer

Effects ==
  /\ due # "no" /\ own' = (IF due = "both" THEN ws.selection ELSE own) /\ Back
  /\ UNCHANGED <<habits, synced, mode, browser, touched>>
-----------------------------------------------------------------------------
SameApartFromLayout(a, b) == [a EXCEPT !.pane = b.pane] = b
EveryChange(a, b) == FALSE                       \* deviation
LayoutOnly(a, b) == SameApartFromLayout(a, b)

Pushes(w) == entries' = Append(SubSeq(entries, 1, at), w) /\ at' = at + 1
Replaces(w) == entries' = [entries EXCEPT ![at] = w] /\ at' = at

(* The debounce timer. *)
Write ==
  /\ timer /\ timer' = FALSE /\ touched' = (touched /\ due # "no")
  /\ IF Embedded
       THEN stored' = ws /\ UNCHANGED <<synced, mode, entries, at>>
       ELSE /\ mode' = "push" /\ UNCHANGED stored
            /\ IF ws = synced THEN UNCHANGED <<synced, entries, at>>
               ELSE /\ synced' = ws
                    /\ IF mode = "replace" \/ LayoutOnly(ws, synced) THEN Replaces(ws)
                       ELSE Len(SubSeq(entries, 1, at)) < MaxEntries /\ Pushes(ws)
  /\ UNCHANGED <<habits, ws, own, due>>

KeepsFilters(w) == [w EXCEPT !.filters = ws.filters]   \* deviation
Restored(w) == w

(* Back and Forward: the entry navigated to is the workspace. *)
Navigate(n) ==
  /\ ~Shared /\ ~Embedded /\ n \in DOMAIN entries /\ n # at /\ due = "no"
  /\ "panel" \in habits \/ ~(Open(ws) /\ Open(entries[n]) /\ ws.selection # entries[n].selection)
  /\ LET w == Sanitize(entries[n]) IN
       at' = n /\ synced' = w /\ touched' = FALSE /\ Renders(Restored(w))
  /\ UNCHANGED <<habits, mode, entries, stored>>

(* A reload, or the dashboard's frame made anew. *)
Reload ==
  /\ ws' = (IF Shared THEN SharedView ELSE Kept) /\ synced' = (IF Shared THEN synced ELSE Kept)
  /\ own' = ws'.selection /\ due' = "no" /\ timer' = Syncs /\ mode' = "replace" /\ touched' = FALSE
  /\ UNCHANGED <<habits, browser>>

Next ==
  \/ Effects \/ Write \/ Reload
  \/ \E w \in Workspaces : Change(w)
  \/ \E s \in Selections : Select(s)
  \/ \E n \in {at - 1, at + 1} : Navigate(n)

Fairness == WF_vars(Effects) /\ WF_vars(Write)
Spec == Init /\ [][Next]_vars /\ Fairness
-----------------------------------------------------------------------------
TypeOK ==
  /\ habits \subseteq Habits /\ {ws, synced, stored} \subseteq Workspaces /\ own \in Selections
  /\ {timer, touched} \subseteq BOOLEAN /\ due \in {"no", "back", "both"} /\ mode \in {"push", "replace"}
  /\ Len(entries) \in 1..MaxEntries /\ at \in DOMAIN entries
  /\ \A n \in DOMAIN entries : entries[n] \in Workspaces \cup {Bogus}

Settled == ~timer /\ due = "no"
(* Half a second after the last change, what a reload would restore is what *)
(* is on screen, the panel's own selection included.                        *)
ReloadRestores ==
  Settled /\ ~Shared => Kept = ws /\ (ws.view = "lastseen" => own = ws.selection)

(* "A shared viz link owns the URL for this session."                       *)
SharedLinkStays == Shared => Len(entries) = 1 /\ entries[1] = Default /\ stored = Default

(* Every step of Back and Forward changes something on screen, apart from   *)
(* the pane.  A change made within half a second of a load breaks it: it    *)
(* overwrites the entry instead of adding one.  So does a selection that    *)
(* the open panel swaps with App's after Back or Forward.                   *)
StepsDiffer ==
  habits \cap {"hasty", "panel"} = {} =>
    \A n \in 1..(Len(entries) - 1) : ~SameApartFromLayout(entries[n], entries[n + 1])

(* What can be gone forward to is cut off only by a change of the user's, or *)
(* by the selections that an open panel and App swap after Back or Forward.  *)
Cuts == Len(entries') < Len(entries) \/ (at' > at /\ Len(entries) > at /\ entries' # entries)
ForwardKept == [][Cuts /\ "panel" \notin habits => touched]_vars

(* "Sync props to selection state (loop-safe)": left alone, the panel and   *)
(* App agree and rendering ends.  False when Back or Forward changes the    *)
(* selection under an open panel: they swap their values for ever.          *)
RenderingEnds == []<>(due = "no")
RenderingEndsOtherwise == "panel" \notin habits => RenderingEnds

(* What a reload, Back and Forward bring back is what was on screen, and a
   shared link touches none of it (App.tsx:440-560, urlWorkspace.ts). *)
WorkspaceKept == TypeOK /\ ReloadRestores /\ SharedLinkStays /\ StepsDiffer
=============================================================================
