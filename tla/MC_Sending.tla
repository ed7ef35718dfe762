----------------------------- MODULE MC_Sending -----------------------------
(* What has to end: the send jobs of the server, the panel that starts and
   watches them, and the catching up of a page that connects.  `part` names the
   one that runs, the others stay as they start; the panel runs over the jobs,
   and the jobs also for themselves. *)
EXTENDS WritePanel

CONSTANT NoLive

VARIABLES
  part,
  cacheEnv, clock, backend, linkUp, wire, conn, onScreen, pend, cov, saved, idb, ops, trimTo, loads

(* Two rows, two addresses and one schedule. *)
MCSchedules == {<<TRUE, TRUE>>}
MCPanelEnvs ==
  {{"jobs", "reopens"}, {"jobs", "removes"}, {"jobs", "loses"}, {"jobs", "overtakes"}, {"jobs", "edits"},
   {"reads", "overtakes"}, {"reads", "edits"}}

(* A page that connects, perhaps with two loads that overlap; small histories
   fit into one chunk. *)
Cache == INSTANCE TelegramCache WITH
  MaxTick <- 3, TicksPerMs <- 1, MaxSize <- 8, InitialLimit <- 8, Chunk <- 2, BatchSize <- 2, MaxCache <- 2,
  Retention <- 2, MaxLoads <- 2, MaxOps <- 2, Envs <- {{"connect", "overlap"}},
  env <- cacheEnv, now <- clock, db <- backend, up <- linkUp, buf <- onScreen

cacheVars == <<cacheEnv, clock, backend, linkUp, wire, conn, onScreen, pend, cov, saved, idb, ops, trimTo, loads>>
unionVars == <<part, allVars, cacheVars>>
Starting(of_, choice, envs) == part # of_ => choice = CHOOSE e \in envs : TRUE

MCInit ==
  /\ part \in {"send", "panel", "catchup"}
  /\ PanelInit /\ Cache!Init
  /\ Starting("panel", <<panelHabits, rows>>, {{"jobs", "reopens"}} \X {[row \in RowIds |-> CHOOSE a \in Addresses : TRUE]})

MCNext ==
  /\ UNCHANGED part
  /\ \/ part = "send" /\ Next /\ UNCHANGED <<panelVars, cacheVars>>
     \/ part = "panel" /\ PanelNext /\ UNCHANGED cacheVars
     \/ part = "catchup" /\ Cache!Next /\ UNCHANGED allVars

MCSpec == MCInit /\ [][MCNext]_unionVars
-----------------------------------------------------------------------------
(* A cancel that was accepted takes effect and a one-shot job ends, as the
   event loop keeps running its tasks (cyclic_send.py:113-211). *)
JobsEnd ==
  /\ part = "send" /\ Fairness => CancelTakesEffect
  /\ part = "send" /\ Fairness => OneShotEnds

(* The banner follows the job: it goes when the job is over, it is there while
   the job runs, and removing its row cancels it (WriteToBusPanel.tsx). *)
PanelFollows ==
  /\ RemovalCancels
  /\ part = "panel" /\ PanelFairness => BannerGoes
  /\ part = "panel" /\ PanelFairness => ActiveIsShown

(* A page that stays connected comes to show every telegram, and its live
   telegrams come to be stored (useTelegramCache.ts). *)
PageCatchesUp ==
  /\ part = "catchup" /\ Cache!Fairness => Cache!CatchesUp
  /\ part = "catchup" /\ Cache!Fairness => Cache!LiveReachesCache
=============================================================================
