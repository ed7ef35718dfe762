------------------------------ MODULE MC_Feeds ------------------------------
(* The ways a telegram takes to a page: the PostgreSQL and Home Assistant
   bridges, which replace one another, and the server's own feed with the
   page's socket. They share no state, so each is explored for itself: `part`
   names the one that runs, the others stay as they start. *)
EXTENDS PgListenBridge

VARIABLES
  part,
  haEnv, haTs, flushed, haPc, haConnected, haSeen, haReplay, events, haFeed, haDrops,
  local, legacy, watcher,
  wsEnv, job, stored, registry, filtered, sock, hook, got, bus, badge, asked, wsDrops

HaEnv(s, h) == [source |-> s, habits |-> h]
HaEnvs == {HaEnv("ha_websocket", h) : h \in
             {{}, {"busy"}, {"late", "sameTs", "longGap", "queryFails"}, {"east", "busy"}, {"west"}}}
     \cup {HaEnv("poll", h) : h \in {{"late", "busy", "longGap", "queryFails"}, {"sameTs", "east"}, {"west"}}}
Ha == INSTANCE HaLiveBridge WITH
  Envs <- HaEnvs, MaxRows <- 4, env <- haEnv, ts <- haTs, pc <- haPc, connected <- haConnected,
  seen <- haSeen, replay <- haReplay, feed <- haFeed, drops <- haDrops

WsEnv(t, f, d, h) == [telegrams |-> t, flips |-> f, drops |-> d, habits |-> h]
WsEnvs == {WsEnv(2, 0, 2, {}), WsEnv(0, 2, 1, {}), WsEnv(1, 0, 1, {"devMount"}),
           WsEnv(0, 1, 1, {"httpFaults"})}
Ws == INSTANCE LiveFeed WITH Envs <- WsEnvs, env <- wsEnv, drops <- wsDrops

(* What the proofs about LiveFeed and HaLiveBridge assume of bounds and
   environments. *)
ASSUME SizedAssumption == Ws!Sized /\ Ha!Sized

haVars == <<haEnv, haTs, flushed, haPc, haConnected, haSeen, haReplay, events, haFeed, haDrops,
            local, legacy, watcher>>
wsVars == <<wsEnv, job, stored, registry, filtered, sock, hook, got, bus, badge, asked, wsDrops>>
allVars == <<part, vars, haVars, wsVars>>
Starts(of, choice, envs) == part # of => choice = CHOOSE e \in envs : TRUE

MCInit ==
  /\ part \in {"postgres", "home_assistant", "websocket"}
  /\ Init /\ Ha!Init /\ Ws!Init
  /\ Starts("postgres", env, Envs) /\ Starts("home_assistant", haEnv, HaEnvs)
  /\ Starts("websocket", <<wsEnv, bus.up>>, WsEnvs \X {TRUE})

MCNext ==
  /\ UNCHANGED part
  /\ \/ part = "postgres" /\ Next /\ UNCHANGED <<haVars, wsVars>>
     \/ part = "home_assistant" /\ Ha!Next /\ UNCHANGED <<vars, wsVars>>
     \/ part = "websocket" /\ Ws!Next /\ UNCHANGED <<vars, haVars>>

MCSpec == MCInit /\ [][MCNext]_allVars
-----------------------------------------------------------------------------
(* The bridge of PostgreSQL tells its status truly (NothingLost and
   ImplementsFeedPromise of its module say the rest).  That of Home Assistant
   does, too; over any number of lost connections it loses no telegram where the
   store has none of the habits that lose some, and shows none twice
   (ha_live_bridge.py).  The server's own feed and the page's socket: see
   LiveFeed. *)
FeedsAreTrue ==
  /\ part = "postgres" => TypeOK
  /\ part = "home_assistant" => Ha!TypeOK /\ Ha!NoRepeat /\ Ha!NothingLost
  /\ part = "websocket" => Ws!FeedIsTrue

(* The Home Assistant bridge implements the abstract feed.  Under its own
   fairness, each way recovers: rows reach the feed of a bridge, the warning of a
   legacy store clears, and the page reconnects. *)
FeedsDeliver ==
  /\ Ha!ImplementsFeedPromise
  /\ part = "postgres" /\ Fairness => EventuallyFed
  /\ part = "home_assistant" /\ Ha!Fairness => Ha!EventuallyFed
  /\ part = "home_assistant" /\ Ha!Fairness => Ha!WarningClears
  /\ part = "websocket" /\ Ws!Fairness => Ws!Reconnects
=============================================================================
