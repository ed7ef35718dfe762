------------------------------ MODULE LastSeen ------------------------------
(***************************************************************************)
(* The views of what was last seen on some group addresses: the values     *)
(* that useLastSeenValues keeps for the building view, the device view and *)
(* the write panel, and the list of LastSeenOverlay.  Both fetch once for  *)
(* a selection and follow the live feed from then on, which reaches them   *)
(* as App's latestTelegram, one state that the next render reads.          *)
(***************************************************************************)
EXTENDS Naturals, Sequences, FiniteSets, SequencesExt, FiniteSetsExt

CONSTANTS
  GA,           \* the group addresses
  Limit,        \* telegrams in the list
  Envs          \* environments: a view, a bound on the telegrams, a set of habits

Habits ==
  {"burst",     \* two telegrams arrive between two renders
   "race",      \* telegrams arrive, or other answers, while an answer is on its way
   "close",     \* one sender writes to one address twice within a second
   "outage",    \* the live feed misses telegrams
   "switch"}    \* the selection changes within 700 ms of a send

VARIABLES
  env,          \* the environment of this behaviour; fixed
  bus,          \* the telegrams, stored and broadcast: their group addresses
  close,        \* those that follow the one before them within a second
  wire,         \* telegrams on their way to the page
  latest,       \* App's latestTelegram, 0 for null
  stale,        \* ... has changed and was not rendered yet
  sel,          \* the addresses shown
  values,       \* valuesByGA, 0 for a missing entry
  list,         \* the overlay's telegrams, newest first
  pending,      \* pendingCount
  live,         \* autoRefresh
  resend,       \* refreshSoon's timer: the selection it was set with, {} for none
  fetches       \* requests on their way: their selection, and when they began

shown == <<values, list, pending>>
vars == <<env, bus, close, wire, latest, stale, sel, values, list, pending, live,
          resend, fetches>>

(* What the proofs assume: the list has room for a telegram. *)
Sized == Limit \in Nat \ {0}

Has(h) == h \in env.habits
Telegram == DOMAIN bus
Among(n, S) == {t \in 1 .. n : bus[t] \in S}      \* those on S among the first n
Newest(n, S) == Max({0} \cup Among(n, S))         \* the newest of them, or 0
Listed(all) ==                  \* newest first: each comes after those newer than it
  [k \in 1 .. (IF Cardinality(all) < Limit THEN Cardinality(all) ELSE Limit) |->
     CHOOSE t \in all : Cardinality({u \in all : u > t}) = k - 1]
NewestOf(n, S) == Listed(Among(n, S))            \* as the store answers

Request(S) == [sel |-> S, since |-> Len(bus)]

Init ==
  /\ env \in Envs
  /\ bus = <<>> /\ close = {} /\ wire = <<>> /\ latest = 0 /\ stale = FALSE
  /\ sel \in (SUBSET GA) \ {{}}
  /\ values = [g \in GA |-> 0] /\ list = <<>> /\ pending = 0
  /\ live \in BOOLEAN /\ resend = {}
  /\ fetches = <<[sel |-> sel, since |-> 0]>>

(* A telegram is stored and broadcast. *)
Arrive(g) ==
  /\ Len(bus) < env.telegrams
  /\ bus' = Append(bus, g)
  /\ close' \in {close} \cup (IF Has("close") /\ bus # <<>> /\ Last(bus) = g
                              THEN {close \cup {Len(bus')}} ELSE {})
  /\ wire' \in {Append(wire, Len(bus'))} \cup (IF Has("outage") THEN {wire} ELSE {})
  /\ UNCHANGED <<env, latest, stale, sel, shown, live, resend, fetches>>

(* handleTelegram: a state set twice before a render keeps the last value. *)
OnMessage ==
  /\ wire # <<>> /\ (stale => Has("burst"))
  /\ latest' = Head(wire) /\ wire' = Tail(wire) /\ stale' = TRUE
  /\ UNCHANGED <<env, bus, close, sel, shown, live, resend, fetches>>
-----------------------------------------------------------------------------
NeverThere(t) == FALSE                           \* deviation
(* Less than a second apart, from one sender to one address (senders are left
   out: one per address). *)
There(t) ==
  \E i \in DOMAIN list :
    \/ list[i] = t
    \/ bus[list[i]] = bus[t] /\ (Max({list[i], t}) \in close)

PrependUncut(t) == <<t>> \o list                 \* deviation
Prepend(t) == SubSeq(<<t>> \o list, 1, IF Len(list) < Limit THEN Len(list) + 1 ELSE Limit)

FollowFrozen(t) == list' = (IF There(t) THEN list ELSE Prepend(t)) /\ UNCHANGED <<values, pending>>  \* deviation
(* The overlay's effect for a matching telegram: shown, or counted. *)
Follow(t) ==
  IF live THEN list' = (IF There(t) THEN list ELSE Prepend(t)) /\ UNCHANGED <<values, pending>>
  ELSE pending' = pending + 1 /\ UNCHANGED <<values, list>>

IntoValues(t) == values' = [values EXCEPT ![bus[t]] = t] /\ UNCHANGED <<list, pending>>

(* The effects on latestTelegram, with the selection S. *)
Effect(t, S) ==
  IF t = 0 \/ bus[t] \notin S THEN UNCHANGED shown
  ELSE IF env.view = "values" THEN IntoValues(t) ELSE Follow(t)

Render ==
  /\ stale /\ stale' = FALSE
  /\ Effect(latest, sel)
  /\ UNCHANGED <<env, bus, close, wire, latest, sel, live, resend, fetches>>

NoFetch(S) == fetches                            \* deviation
Fetch(S) == Append(fetches, Request(S))

(* Another selection: it is fetched, and the effect runs again with the last
   telegram although that is not new. *)
Select(S) ==
  /\ S # sel /\ ~stale /\ Len(fetches) < 2
  /\ resend # {} => Has("switch")
  /\ sel' = S /\ fetches' = Fetch(S)
  /\ Effect(latest, S)
  /\ UNCHANGED <<env, bus, close, wire, latest, stale, live, resend>>

NoCatchUp == fetches                             \* deviation
CatchUp == Append(fetches, Request(sel))

(* Going live fetches; frozen, the list keeps what it has. *)
ToggleLive ==
  /\ env.view = "list" /\ ~stale /\ Len(fetches) < 2
  /\ live' = ~live
  /\ fetches' = IF live' THEN CatchUp ELSE fetches
  /\ UNCHANGED <<env, bus, close, wire, latest, stale, sel, shown, resend>>

(* handleRead and handleWrite while live: a fetch 700 ms later. *)
Send ==
  /\ env.view = "list" /\ live /\ resend = {} /\ resend' = sel
  /\ UNCHANGED <<env, bus, close, wire, latest, stale, sel, shown, live, fetches>>

RefreshSoon ==
  /\ resend # {} /\ Len(fetches) < 2
  /\ fetches' = Append(fetches, Request(resend)) /\ resend' = {}
  /\ UNCHANGED <<env, bus, close, wire, latest, stale, sel, shown, live>>
-----------------------------------------------------------------------------
KeepsCount(S, n) ==                              \* deviation
  list' = NewestOf(n, S) /\ UNCHANGED <<values, pending>>
AnswerList(S, n) ==
  list' = NewestOf(n, S) /\ pending' = 0 /\ UNCHANGED values
AnswerValues(S, n) ==
  /\ values' = [g \in GA |-> IF g \in S THEN Newest(n, {g}) ELSE 0]
  /\ UNCHANGED <<list, pending>>

(* An answer, with the first n telegrams that were in the store, replaces what
   is shown, whatever was selected or has arrived since. *)
Answered(i, n) ==
  /\ IF Has("race") THEN n >= fetches[i].since
     ELSE i = 1 /\ n = Len(bus) /\ wire = <<>> /\ ~stale
  /\ IF env.view = "values" THEN AnswerValues(fetches[i].sel, n) ELSE AnswerList(fetches[i].sel, n)
  /\ fetches' = RemoveAt(fetches, i)
  /\ UNCHANGED <<env, bus, close, wire, latest, stale, sel, live, resend>>

Next ==
  \/ \E g \in GA : Arrive(g)
  \/ OnMessage \/ Render \/ ToggleLive \/ Send \/ RefreshSoon
  \/ \E S \in (SUBSET GA) \ {{}} : Select(S)
  \/ \E i \in DOMAIN fetches, n \in 0 .. Len(bus) : Answered(i, n)

Spec == Init /\ [][Next]_vars
-----------------------------------------------------------------------------
(* Every variable has its type; the overlay's list fits its limit, and what is
   shown has arrived. *)
TypeOK ==
  /\ bus \in Seq(GA) /\ wire \in Seq(Telegram) /\ latest \in 0 .. Len(bus)
  /\ sel \subseteq GA /\ sel # {} /\ resend \subseteq GA /\ close \subseteq Telegram
  /\ values \in [GA -> 0 .. Len(bus)] /\ list \in Seq(Telegram) /\ Len(list) <= Limit
  /\ pending \in Nat /\ live \in BOOLEAN /\ stale \in BOOLEAN

Quiet == wire = <<>> /\ ~stale /\ fetches = <<>> /\ resend = {}

(* "Keeps it current from the live feed": once all is delivered, every value
   is that of the newest telegram on its address. *)
ValuesCurrent == Quiet /\ env.view = "values" => \A g \in sel : values[g] = Newest(Len(bus), {g})
(* ... as long as telegrams come one per render and not while an answer is on
   its way. *)
ShowsNewest == env.habits \subseteq {"close", "switch"} => ValuesCurrent

(* "Live shows every matching telegram the moment it arrives." *)
ListCurrent == Quiet /\ env.view = "list" /\ live => list = NewestOf(Len(bus), sel)
(* ... unless two of them are less than a second apart, or an answer is
   overtaken. *)
ListComplete == env.habits = {} => ListCurrent

(* Whatever effects run again and answers overtake: no telegram is listed
   twice, and the list runs from new to old unless the feed misses telegrams. *)
NoDuplicates ==
  /\ \A i, k \in DOMAIN list : list[i] = list[k] => i = k
  /\ env.habits \cap {"race", "outage"} = {} => \A i \in 1 .. Len(list) - 1 : list[i] > list[i + 1]

(* Frozen, the list is missing exactly what is counted (up to its limit). *)
CountsWhatIsMissing ==
  Quiet /\ env.habits = {} /\ env.view = "list" /\ ~live =>
    pending = Cardinality({t \in Telegram : bus[t] \in sel /\ t > Max({0} \cup ToSet(list))})

(* A frozen list stays as it is until it is fetched again. *)
FrozenStays == [][~live /\ list' # list => Len(fetches') < Len(fetches)]_vars

(* The overlay shows what the bus said last, and counts what it leaves out
   while it is frozen (LastSeenOverlay.tsx, useLastSeenValues.ts). *)
SeenIsTrue == TypeOK /\ ShowsNewest /\ ListComplete /\ NoDuplicates /\ CountsWhatIsMissing
=============================================================================
