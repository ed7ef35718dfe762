------------------------------ MODULE MC_Cache ------------------------------
(* The telegrams of a page, cached in the browser, and the chart drawn from
   them.  Each is explored for itself: `part` names the one that runs, the
   other stays as it starts. *)
EXTENDS TelegramCache

CONSTANTS None, gaA, gaB, gaC

VARIABLES part, habits, open, view, drag, built, armed, asked, went, height, stored, sizing

(* Three addresses, and telegrams in which an address changes its metric, gets
   a datatype, and has text and reads. *)
Typed(ga, ts, unit, value) == [ga |-> ga, ts |-> ts, form |-> "number", typed |-> TRUE, unit |-> unit, value |-> value]
Charted ==
  {Typed(gaA, 1, "lx", 1), Typed(gaA, 3, "W", 12), Typed(gaB, 5, "lx", 6), Typed(gaC, 2, "lx", 7),
   [Typed(gaB, 1, "unknown", 3) EXCEPT !.form = "bytes", !.typed = FALSE],
   [Typed(gaC, 4, "unknown", 1) EXCEPT !.form = "switch"],
   [Typed(gaB, 2, "unknown", 0) EXCEPT !.form = "text"],
   [Typed(gaC, 3, "lx", 0) EXCEPT !.form = "read"]}
ChartEnvs ==
  {{"live", "history", "retypes"}, {"live", "history", "selects"}, {"live", "selects", "locks"}, {"live", "zooms", "evicts"},
   {"live", "hovers"}, {"live", "clicks"}, {"live", "resizes", "reopens"}}
Chart == INSTANCE ChartView WITH
  Pool <- Charted, Targets <- {gaA, gaB, gaC}, Metrics <- {"lx", "W", "unknown", "binary", "events", "fits", "wide"},
  Stretches <- {<<2, 5>>, <<3, 4>>}, Heights <- {200}, MaxHeld <- 3, MaxLocks <- 2, MaxClicks <- 2, Envs <- ChartEnvs

chartVars == <<habits, open, view, drag, built, armed, asked, went, height, stored, sizing>>
allVars == <<part, vars, chartVars>>
Starting(of, choice, envs) == part # of => choice = CHOOSE e \in envs : TRUE

MCInit ==
  /\ part \in {"cache", "chart"}
  /\ Init /\ Chart!Init
  /\ Starting("cache", env, Envs) /\ Starting("chart", habits, ChartEnvs)

MCNext ==
  /\ UNCHANGED part
  /\ \/ part = "cache" /\ Next /\ UNCHANGED chartVars
     \/ part = "chart" /\ Chart!Next /\ UNCHANGED vars

MCSpec == MCInit /\ [][MCNext]_allVars
-----------------------------------------------------------------------------
(* What the chart's module says of it. *)
ChartIsTrue == part = "chart" => Chart!ChartIsTrue

(* A load claims and shows only what it may, and the chart's range is not
   moved by telegrams under who reads it (useTelegramCache.ts:231-352,
   Visualizer.tsx:137-160). *)
NothingIsPretended == LoadsAreHonest /\ Chart!FramesStay
=============================================================================
