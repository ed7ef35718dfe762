---------------------------- MODULE BuildingTree ----------------------------
(***************************************************************************)
(* The building structure of a project as the page draws it: which rows a   *)
(* search, the ticked devices and the opened nodes leave on screen.         *)
(*                                                                          *)
(* A tree maps each node to its parent, and has the nodes in their order, a *)
(* kind for each, the numbers of the communication objects (KOs) and the    *)
(* group addresses of KOs and functions.  A query is the set of nodes and   *)
(* addresses whose text contains what was typed.                            *)
(***************************************************************************)
EXTENDS Integers, FiniteSets, Sequences, SequencesExt

CONSTANTS None

Nodes(t) == DOMAIN t.parent
Of(t, kind) == {n \in Nodes(t) : t.kind[n] = kind}
Children(t, n, kind) == {m \in Of(t, kind) : t.parent[m] = n}

Below(t, n) == {m \in Nodes(t) : n \in t.above[m]}

Place(t, n) == CHOOSE i \in DOMAIN t.order : t.order[i] = n
InOrder(t, ns) == SelectSeq(t.order, LAMBDA n : n \in ns)

-----------------------------------------------------------------------------
(* Group addresses. *)

KoGas(t, k) == ToSet(t.gas[k])
ChannelGas(t, c) == UNION {KoGas(t, k) : k \in Children(t, c, "ko")}
DeviceGas(t, d) == UNION {ChannelGas(t, c) : c \in Children(t, d, "channel")} \cup UNION {KoGas(t, k) : k \in Children(t, d, "ko")}
FunctionGas(t, f) == ToSet(t.gas[f])

(* KOs by number, those without one last, otherwise as in the project. *)
SortKos(t, ks) ==
  SetToSortSeq(ks, LAMBDA a, b :
    IF t.number[a] = t.number[b] THEN Place(t, a) < Place(t, b)
    ELSE t.number[b] = None \/ (t.number[a] # None /\ t.number[a] < t.number[b]))

-----------------------------------------------------------------------------
(* Search. *)

KoMatches(t, k, q) == k \in q \/ KoGas(t, k) \cap q # {}
OwnKos(t, d, q) ==  \* deviation
  d \in q \/ \E k \in Children(t, d, "ko") : KoMatches(t, k, q)
DeviceMatches(t, d, q) ==
  \/ d \in q
  \/ \E c \in Children(t, d, "channel") : c \in q \/ \E k \in Children(t, c, "ko") : KoMatches(t, k, q)
  \/ \E k \in Children(t, d, "ko") : KoMatches(t, k, q)
FunctionMatches(t, f, q) == f \in q \/ FunctionGas(t, f) \cap q # {}
SpaceMatches(t, s, q) ==
  \E n \in Below(t, s) \cup {s} :
    CASE t.kind[n] = "space" -> n \in q
      [] t.kind[n] = "device" -> DeviceMatches(t, n, q)
      [] t.kind[n] = "function" -> FunctionMatches(t, n, q)
      [] OTHER -> FALSE

VisibleKos(t, n, q) == SortKos(t, {k \in Children(t, n, "ko") : q = None \/ KoMatches(t, k, q)})

-----------------------------------------------------------------------------
(* The keys under which the open nodes are remembered. *)

(* A tree with, for each node, those above it, and for each space its path of
   names and places among its siblings. *)
Laid(t) ==
  LET above[n \in Nodes(t)] == IF t.parent[n] = None THEN {} ELSE {t.parent[n]} \cup above[t.parent[n]]
      index(s) == Cardinality({m \in Children(t, t.parent[s], "space") : Place(t, m) < Place(t, s)})
      path[s \in Of(t, "space")] == (IF t.parent[s] = None THEN <<>> ELSE path[t.parent[s]]) \o <<s, index(s)>>
  IN t @@ [above |-> [n \in Nodes(t) |-> above[n]], path |-> [s \in Of(t, "space") |-> path[s]]]

(* A KO goes by its number and its place among the KOs that are drawn. *)
KoKey(t, k, q) ==
  LET drawn == VisibleKos(t, t.parent[k], q)
  IN <<"ko", t.parent[k], t.number[k], {i \in DOMAIN drawn : drawn[i] = k}>>

ByPlace(t, n, q) == <<t.kind[n], IF t.kind[n] = "space" THEN t.path[n][Len(t.path[n])] ELSE n>>  \* deviation
Key(t, n, q) ==
  CASE t.kind[n] = "space" -> <<"space">> \o t.path[n]
    [] t.kind[n] = "ko" -> KoKey(t, n, q)
    [] OTHER -> <<t.kind[n], n>>

(* The two upper levels of spaces are open unless they were closed. *)
DefaultOpen(t, n) == t.kind[n] = "space" /\ Cardinality(t.above[n]) < 2
IsOpen(t, n, v) == LET key == Key(t, n, v.query) IN IF key \in DOMAIN v.over THEN v.over[key] ELSE DefaultOpen(t, n)

-----------------------------------------------------------------------------
(* What is on screen for a view: the opened nodes "over", the "query", the
   ticked "devices" and whether "only" they are shown. *)

HideOthers(v) == v.only /\ v.devices # {}
HasChildren(t, d) == Below(t, d) \cap Of(t, "ko") # {}

OpenOnly(t, n, v) == IsOpen(t, n, v) \/ v.query # None  \* deviation
EffectiveOpen(t, n, v) ==
  CASE t.kind[n] = "space" -> IsOpen(t, n, v) \/ v.query # None \/ HideOthers(v)
    [] t.kind[n] = "ko" -> IsOpen(t, n, v)
    [] OTHER -> IsOpen(t, n, v) \/ v.query # None

SpaceHasSelected(t, s, v) == \E d \in v.devices : d \in Below(t, s)
SpaceShows(t, s, v) ==
  (v.query # None => SpaceMatches(t, s, v.query)) /\ (HideOthers(v) => SpaceHasSelected(t, s, v))
FunctionShows(t, f, v) == ~ HideOthers(v) /\ (v.query # None => FunctionMatches(t, f, v.query))
DeviceShows(t, d, v) == (v.query # None => DeviceMatches(t, d, v.query)) /\ (HideOthers(v) => d \in v.devices)
ChannelShows(t, c, v) == VisibleKos(t, c, v.query) # <<>>
KoShows(t, k, v) == v.query # None => KoMatches(t, k, v.query)

Shows(t, n, v) ==
  CASE t.kind[n] = "space" -> SpaceShows(t, n, v)
    [] t.kind[n] = "function" -> FunctionShows(t, n, v)
    [] t.kind[n] = "device" -> DeviceShows(t, n, v)
    [] t.kind[n] = "channel" -> ChannelShows(t, n, v)
    [] t.kind[n] = "ko" -> KoShows(t, n, v)

OnScreen(t, v) ==
  {n \in Nodes(t) : Shows(t, n, v) /\ \A m \in t.above[n] : Shows(t, m, v) /\ EffectiveOpen(t, m, v)}

-----------------------------------------------------------------------------
(* The table of a node's addresses, by a column or in the order of ETS. *)

Flips(a, b, dir) == IF dir = "asc" THEN a < b ELSE b < a
NeverSeenByValue(a, b, dir) == Flips(a, b, dir)  \* deviation

(* An address never seen, at 0, comes last whatever the direction. *)
ByTime(a, b, dir) == IF a = 0 \/ b = 0 THEN a # 0 /\ b = 0 ELSE Flips(a, b, dir)

Sorted(gas, sort, values, rank) ==
  LET place(g) == CHOOSE i \in DOMAIN gas : gas[i] = g
      before(a, b) == IF sort.key = "time" THEN ByTime(values[a], values[b], sort.dir)
                      ELSE Flips(rank[sort.key][a], rank[sort.key][b], sort.dir)
  IN IF sort = None THEN gas
     ELSE SetToSortSeq(ToSet(gas), LAMBDA a, b : before(a, b) \/ (~ before(b, a) /\ place(a) < place(b)))

(* The next order on a click on a column: up, down, none. *)
Clicked(sort, key) ==
  IF sort = None \/ sort.key # key THEN [key |-> key, dir |-> "asc"]
  ELSE IF sort.dir = "asc" THEN [key |-> key, dir |-> "desc"] ELSE None
=============================================================================
