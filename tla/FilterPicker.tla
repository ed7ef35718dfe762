---------------------------- MODULE FilterPicker ----------------------------
(***************************************************************************)
(* The filter pane: the tree of group addresses and the tree of data point  *)
(* types (DPTs) with their tristate boxes, search and count bubbles; the    *)
(* list of the active filters with its colours; and the filter buttons of   *)
(* the telegram list.                                                       *)
(*                                                                          *)
(* An address is the sequence of its parts; a DPT is <<main, sub>>, or      *)
(* <<main>> for a whole main type; a search is the set of options it finds. *)
(***************************************************************************)
EXTENDS FilterRules, Sequences, SequencesExt

CONSTANTS
  None,
  Options,    \* [targets |-> addresses, dpts |-> DPTs of the project]
  Arrivals,   \* the telegrams there may be: [to |-> address, dpt |-> DPT or None]
  Found,      \* what may be searched for
  Palette,    \* the colours, in the order they are offered
  MaxClicks,  \* bound on clicks
  MaxBus,     \* bound on telegrams
  Envs        \* sets of habits

Habits ==
  {"searches",  \* the options are searched
   "mutes",     \* filters are switched off in the list of the active ones
   "colours",   \* and given colours
   "quick",     \* the buttons of the telegram list are used
   "live"}      \* telegrams arrive

VARIABLES
  habits,   \* fixed
  filters,  \* what is selected and what of it is switched off
  pane,     \* its view, what the search finds, the nodes opened and closed by hand
  colors,   \* of addresses, kept in the preferences
  bus,      \* the telegrams loaded
  clicks

vars == <<habits, filters, pane, colors, bus, clicks>>

Has(h) == h \in habits
Clicks == clicks < MaxClicks /\ clicks' = clicks + 1
Edit == pane.view = "edit"
Shown(c) == IF pane.found = None THEN Options[c] ELSE Options[c] \cap pane.found

ChangeKeepsAll(c, selected) ==  \* deviation
  filters' = [filters EXCEPT !.sel[c] = selected] /\ UNCHANGED <<habits, pane, colors, bus>>

(* Every change of the filters drops what is switched off of entries gone. *)
Change(c, selected) ==
  /\ filters' = PruneDisabled([filters EXCEPT !.sel[c] = selected])
  /\ UNCHANGED <<habits, pane, colors, bus>>

-----------------------------------------------------------------------------
(* Boxes. *)

CheckState(leaves, selected) ==
  IF leaves \cap selected = {} THEN "unchecked" ELSE IF leaves \subseteq selected THEN "checked" ELSE "partial"

(* Addresses: groups of one and of two parts above the leaves, of one only
   where the addresses have no more. *)
Targets == filters.sel["targets"]
Path(a) == {SubSeq(a, 1, n) : n \in 1..(IF Len(a) = 1 THEN 1 ELSE 2)}
Branches == UNION {Path(a) : a \in Shown("targets")}
Leaves(p) == {a \in Shown("targets") : IsPrefix(p, a)}
BranchState(p) == CheckState(Leaves(p), Targets)

(* DPTs: a main type above its subtypes, ticked as a whole by its bare key. *)
Dpts == filters.sel["dpts"]
Bare(main) == <<main>>
InGroup(main, k) == k[1] = main
Mains == {k[1] : k \in Shown("dpts")}
ChildKeys(main) == {k \in Shown("dpts") : InGroup(main, k)}
GroupState(main) == IF Bare(main) \in Dpts THEN "checked" ELSE CheckState(ChildKeys(main), Dpts)
KeyOnly(k) == k \in Dpts  \* deviation
Checked(k) == Bare(k[1]) \in Dpts \/ k \in Dpts

(* What is open: as it was clicked, else the first level of addresses, and
   the DPTs with a selection or a search. *)
Open(n) ==
  IF n \in DOMAIN pane.open THEN pane.open[n]
  ELSE IF n[1] = "branch" THEN Len(n[2]) = 1
  ELSE pane.found # None \/ GroupState(n[2]) # "unchecked"
Nodes == {<<"branch", p>> : p \in Branches} \cup {<<"dpt", main>> : main \in Mains}
LeafDrawn(a) == \A p \in Path(a) : Open(<<"branch", p>>)

-----------------------------------------------------------------------------
(* The trees. *)

ToggleLeaf(a) ==
  /\ Edit /\ LeafDrawn(a) /\ Clicks
  /\ Change("targets", IF a \in Targets THEN Targets \ {a} ELSE Targets \cup {a})

ToggleBranch(p) ==
  /\ Edit /\ (Len(p) = 2 => Open(<<"branch", <<p[1]>>>>)) /\ Clicks
  /\ Change("targets", IF BranchState(p) = "checked" THEN Targets \ Leaves(p) ELSE Targets \cup Leaves(p))

ToggleGroup(main) ==
  /\ Edit /\ Clicks
  /\ LET rest == {k \in Dpts : ~ InGroup(main, k)}
     IN Change("dpts", IF GroupState(main) = "checked" THEN rest ELSE rest \cup {Bare(main)})

(* A subtype of a main type selected as a whole leaves the others selected. *)
JustDrops(k) ==  \* deviation
  IF Bare(k[1]) \in Dpts THEN Dpts \ {Bare(k[1]), k} ELSE IF k \in Dpts THEN Dpts \ {k} ELSE Dpts \cup {k}
ChildToggled(k) ==
  IF Bare(k[1]) \in Dpts THEN (Dpts \ {Bare(k[1])}) \cup (ChildKeys(k[1]) \ {k})
  ELSE IF k \in Dpts THEN Dpts \ {k} ELSE Dpts \cup {k}
ToggleChild(k) ==
  /\ Edit /\ Open(<<"dpt", k[1]>>) /\ Clicks
  /\ Change("dpts", ChildToggled(k))

ToggleOpen(n) ==
  /\ Edit /\ Clicks
  /\ pane' = [pane EXCEPT !.open = [m \in DOMAIN @ \cup {n} |-> IF m = n THEN ~ Open(n) ELSE @[m]]]
  /\ UNCHANGED <<habits, filters, colors, bus>>

(* Branches a search takes away forget whether they were open. *)
SetSearch(q) ==
  /\ Has("searches") /\ Edit /\ q # pane.found /\ Clicks
  /\ pane' = LET left == {n \in DOMAIN pane.open : n[1] = "branch" /\ ~ \E a \in Options["targets"] :
                            IsPrefix(n[2], a) /\ (q = None \/ a \in q)}
             IN [pane EXCEPT !.found = q, !.open = [n \in DOMAIN @ \ left |-> @[n]]]
  /\ UNCHANGED <<habits, filters, colors, bus>>

(* The other view: the trees come back as they were at first. *)
SetView(v) ==
  /\ Has("mutes") \/ Has("colours")
  /\ pane.view # v /\ Clicks
  /\ pane' = [pane EXCEPT !.view = v, !.open = <<>>]
  /\ UNCHANGED <<habits, filters, colors, bus>>

-----------------------------------------------------------------------------
(* The active filters, and the filter buttons of the list. *)

Mute(k) ==
  /\ Has("mutes") /\ ~ Edit /\ Clicks
  /\ filters' = ToggleDisabled(filters, k)
  /\ UNCHANGED <<habits, pane, colors, bus>>

RemoveFilter(k) ==
  /\ ~ Edit /\ Clicks
  /\ Change(k[1], filters.sel[k[1]] \ {k[2]})

(* From none to the first colour no other address in use has, then through
   the palette and back to none. *)
FirstColor(a, inUse) == Palette[1]  \* deviation
FreeColor(a, inUse) ==
  LET taken == {colors[b] : b \in (inUse \ {a}) \cap DOMAIN colors}
      free == SelectSeq(Palette, LAMBDA c : c \notin taken)
  IN IF free = <<>> THEN Palette[1] ELSE free[1]
NextColor(a, inUse) ==
  IF a \notin DOMAIN colors THEN FreeColor(a, inUse)
  ELSE LET at == CHOOSE i \in DOMAIN Palette : Palette[i] = colors[a]
       IN IF at = Len(Palette) THEN None ELSE Palette[at + 1]

SetTargetColor(a) ==
  /\ Has("colours") /\ ~ Edit /\ Clicks
  /\ LET c == NextColor(a, Targets)
     IN colors' = IF c = None THEN [b \in DOMAIN colors \ {a} |-> colors[b]]
                  ELSE [b \in DOMAIN colors \cup {a} |-> IF b = a THEN c ELSE colors[b]]
  /\ UNCHANGED <<habits, filters, pane, bus>>

QuickFilter(c, v) ==
  /\ Has("quick") /\ Clicks
  /\ Change(c, IF v \in filters.sel[c] THEN filters.sel[c] \ {v} ELSE filters.sel[c] \cup {v})

Arrive(m) ==
  /\ Has("live") /\ Len(bus) < MaxBus
  /\ bus' = Append(bus, m)
  /\ UNCHANGED <<habits, filters, pane, colors, clicks>>

-----------------------------------------------------------------------------
(* Counts: under its own key, and a subtype's also under the bare one. *)

Times(test(_)) == Cardinality({i \in DOMAIN bus : test(bus[i])})
DptCounts(k) ==
  IF k = Bare(k[1]) THEN Times(LAMBDA m : m.dpt # None /\ InGroup(k[1], m.dpt)) ELSE Times(LAMBDA m : m.dpt = k)
TargetCounts(a) == Times(LAMBDA m : m.to = a)

(* The bubble of a main type adds up what is counted in it. *)
Counted == UNION {{m.dpt, Bare(m.dpt[1])} : m \in {bus[i] : i \in {j \in DOMAIN bus : bus[j].dpt # None}}}
GroupCount(main) ==
  LET keys == SetToSeq({k \in Counted : InGroup(main, k)})
  IN FoldLeft(LAMBDA sum, k : sum + DptCounts(k), 0, keys)

-----------------------------------------------------------------------------
Init ==
  /\ habits \in Envs
  /\ filters = [sel |-> [c \in Categories |-> {}], off |-> {}]
  /\ pane = [view |-> "edit", found |-> None, open |-> <<>>]
  /\ colors = <<>> /\ bus = <<>> /\ clicks = 0

Next ==
  \/ \E a \in Shown("targets") : ToggleLeaf(a)
  \/ \E p \in Branches : ToggleBranch(p)
  \/ \E main \in Mains : ToggleGroup(main)
  \/ \E k \in Shown("dpts") : ToggleChild(k)
  \/ \E n \in Nodes : ToggleOpen(n)
  \/ \E q \in Found \cup {None} : SetSearch(q)
  \/ \E v \in {"edit", "active"} : SetView(v)
  \/ \E k \in Selected(filters) : Mute(k) \/ RemoveFilter(k)
  \/ \E a \in Targets : SetTargetColor(a)
  \/ \E m \in Arrivals : (m.dpt # None /\ QuickFilter("dpts", m.dpt)) \/ QuickFilter("targets", m.to) \/ Arrive(m)

Spec == Init /\ [][Next]_vars

-----------------------------------------------------------------------------
(* The types of the variables; only what is selected is switched off. *)
TypeOK ==
  /\ DOMAIN filters.sel = Categories /\ filters.off \subseteq Selected(filters)
  /\ pane.view \in {"edit", "active"} /\ pane.found \in Found \cup {None}
  /\ \A n \in DOMAIN pane.open : pane.open[n] \in BOOLEAN
  /\ \A a \in DOMAIN colors : colors[a] \in ToSet(Palette)

Meets(k) == [is |-> [c \in Categories |-> IF c = "dpts" THEN {k, Bare(k[1])} ELSE {}]]
Passes(k) == Dpts # {} /\ MatchesTelegram(Meets(k), [filters EXCEPT !.sel["targets"] = {}])

(* What the boxes show is what filters: the box of a subtype is ticked exactly
   if its telegrams are selected, that of a main type if those of all its
   subtypes in view are, and neither is when nothing is (DptTypeTree.tsx:85-90,
   155, filters.ts:142-145). *)
TicksAreTrue ==
  /\ \A k \in Shown("dpts") : Checked(k) <=> Passes(k)
  /\ \A main \in Mains :
       /\ GroupState(main) = "checked" <=> \A k \in ChildKeys(main) : Passes(k)
       /\ GroupState(main) = "unchecked" <=> \A k \in ChildKeys(main) : ~ Passes(k)

(* The bubble of an address counts the telegrams that selecting it alone would
   leave; that of a main type none of them less than once or more than twice,
   under its subtype and as a whole (FilterPanel.tsx:46, 281-287). *)
Alone(c, key) == [sel |-> [d \in Categories |-> IF d = c THEN {key} ELSE {}]]
Sent(m) == [is |-> [d \in Categories |-> IF d = "targets" THEN {m.to} ELSE IF m.dpt = None THEN {} ELSE {m.dpt, Bare(m.dpt[1])}]]
CountsPreview ==
  /\ \A a \in Options["targets"] : TargetCounts(a) = Times(LAMBDA m : MatchesTelegram(Sent(m), Alone("targets", a)))
  /\ \A main \in Mains : LET n == Times(LAMBDA m : MatchesTelegram(Sent(m), Alone("dpts", Bare(main)))) IN GroupCount(main) \in n..2 * n

(* Only a whole main type selected beside subtypes of it is left out: its
   button in the list, or its own option, selects them one by one. *)
Overlaps(main) == Bare(main) \in Dpts /\ \E k \in Dpts : InGroup(main, k) /\ k # Bare(main)

(* A click on a subtype turns it over and no other option of either tree; one
   on a group turns a full one empty and any other full, and no option outside
   of it, whatever the search hides (DptTypeTree.tsx:92-107, KnxAddressTree.tsx:245-310). *)
ClickDecides ==
  [][Edit /\ Clicks =>
       /\ \A k \in Shown("dpts") : ToggleChild(k) /\ ~ Overlaps(k[1]) /\ k # Bare(k[1]) /\ Bare(k[1]) \notin Shown("dpts") =>
            /\ Checked(k)' # Checked(k)
            /\ \A j \in Shown("dpts") \ {k} : Checked(j)' = Checked(j)
       /\ \A main \in Mains : ToggleGroup(main) =>
            \A k \in Shown("dpts") : Checked(k)' = IF InGroup(main, k) THEN GroupState(main) # "checked" ELSE Checked(k)
       /\ \A p \in Branches : ToggleBranch(p) =>
            \A a \in Options["targets"] : a \in Targets' <=> IF a \in Leaves(p) THEN BranchState(p) # "checked" ELSE a \in Targets]_vars

(* The first colour of an address is one no other filtered address has, as
   long as there is one (targetColors.ts:58-75). *)
ColourIsFree ==
  [][\A a \in DOMAIN colors' \ DOMAIN colors :
       (\E b \in Targets \ {a} : b \in DOMAIN colors /\ colors[b] = colors'[a]) =>
         ToSet(Palette) \subseteq {colors[b] : b \in Targets \cap DOMAIN colors}]_vars

=============================================================================
