----------------------------- MODULE FilterRules -----------------------------
(***************************************************************************)
(* Which telegrams a view shows: the filter selections, the quick filter    *)
(* bar and the Time-Delta-Context, as the Group Monitor and the History     *)
(* Search both compute it.                                                  *)
(*                                                                          *)
(* A telegram is a record with its key, its time, and is: for every filter  *)
(* category the entries it meets (a DPT meets both "1" and "1.001"; a       *)
(* telegram without a direction meets none).  Filters are a record: the     *)
(* entries selected per category, those switched off, and the window.       *)
(***************************************************************************)
EXTENDS Integers, FiniteSets

CONSTANT Categories   \* of filter entries; "directions" is one of them

FilterKeys(f) == {<<c, v>> : c \in Categories, v \in UNION {f.sel[d] : d \in Categories}}
Selected(f) == {k \in FilterKeys(f) : k[2] \in f.sel[k[1]]}

(* toggleFilterDisabled, pruneDisabled, enabledFilters, withoutSelections. *)
ToggleDisabled(f, k) == [f EXCEPT !.off = IF k \in @ THEN @ \ {k} ELSE @ \cup {k}]

PruneNever(f) == f  \* deviation

PruneDisabled(f) == [f EXCEPT !.off = @ \cap Selected(f)]

EnabledFilters(f) ==
  [f EXCEPT !.sel = [c \in Categories |-> {v \in f.sel[c] : <<c, v>> \notin f.off}], !.off = {}]

WithoutSelections(f) == [f EXCEPT !.sel = [c \in Categories |-> {}], !.off = {}]

(* matchesTelegram: every category with selections is met. *)
MatchesTelegram(m, f) == \A c \in Categories : f.sel[c] = {} \/ f.sel[c] \cap m.is[c] # {}

(* effectiveDeltaContext: no window while the context is switched off. *)
Window(f) == IF f.on THEN [before |-> f.before, after |-> f.after]
                     ELSE [before |-> 0, after |-> 0]

(* The telegrams within w of one of the anchors. *)
Around(items, anchors, w) ==
  {m \in items : \E a \in anchors : m.ts >= a.ts - w.before /\ m.ts <= a.ts + w.after}

(* expandWithDeltaContext: the telegrams to show, and those of them that are
   there as context only. *)
Expand(items, matches, flags, w, anchorMatches) ==
  LET flagged == {m \in items : m.key \in flags}
      base == matches \cup flagged
      anchors == flagged \cup (IF anchorMatches THEN matches ELSE {})
      context == IF w.before <= 0 /\ w.after <= 0 THEN {}
                 ELSE Around(items, anchors, w) \ base
  IN [items |-> base \cup context, context |-> context]

(* compileQuickFilters, activeQuickFilter: a bar is open, enabled and has
   patterns, which are the telegrams they accept. *)
QuickAccepts(bar, m) == bar.patterns = {} \/ m.key \in bar.patterns
ActiveQuick(bar, m) == (bar.open /\ bar.enabled) => QuickAccepts(bar, m)
=============================================================================
