---------------------------- MODULE HaLiveBridge ----------------------------
(***************************************************************************)
(* ha_live_bridge.py: the live feed of companion mode.  Home Assistant     *)
(* owns bus and database; the bridge subscribes to its telegram events,    *)
(* replaying from the database what it missed, or polls the database.  A   *)
(* watcher asks whether the database still holds local timestamps.         *)
(***************************************************************************)
EXTENDS Integers, SequencesExt

CONSTANTS
  MaxRows,      \* bound on the telegrams of Home Assistant
  Limit,        \* rows a query returns at most (5000)
  MaxDrops,     \* bound on lost connections and failed attempts, and on failed checks
  Envs          \* the environments: live source, and a set of habits

Habits ==
  {"late",      \* telegrams reach the database after they were announced
   "busy",      \* telegrams come between subscription and replay query
   "sameTs",    \* several telegrams have one timestamp
   "longGap",   \* a gap has Limit telegrams or more
   "queryFails",\* queries of the database fail
   "east", "west"}  \* the database holds local timestamps, ahead of or behind UTC

VARIABLES
  env,          \* the environment of this behaviour; fixed
  ts,           \* the timestamps of the telegrams, in order
  flushed,      \* how many of them the database holds
  pc,           \* where _bridge_loop or _poll_loop is
  connected,    \* _connected
  seen,         \* _last_seen, 0 for None
  replay,       \* rows fetched and still to be broadcast
  events,       \* events the socket has not handed out
  feed,         \* telegrams broadcast, in order
  drops,        \* lost connections, failed attempts and failed queries so far
  local,        \* the database holds local timestamps
  legacy,       \* _legacy_timestamps
  watcher       \* _timestamp_watch_loop: "start" before the startup's own check

convention == <<local, legacy, watcher>>
vars == <<env, ts, flushed, pc, connected, seen, replay, events, feed, drops,
          local, legacy, watcher>>

(* What the proofs assume of bounds and environments. *)
Sized ==
  /\ MaxRows \in Nat /\ Limit \in Nat \ {0} /\ MaxDrops \in Nat
  /\ Envs \subseteq [source : {"ha_websocket", "poll"}, habits : SUBSET Habits]

Has(h) == h \in env.habits
Polls == env.source = "poll"
Rows == DOMAIN ts
First == 3                      \* the timestamp after startup
Newest == Max({0} \cup ToSet(feed))          \* of the telegrams shown
(* The timestamp a row of the database is read with. *)
Read(r) == ts[r] + (IF ~local THEN 0 ELSE IF Has("east") THEN 2 ELSE -2)

Init ==
  /\ env \in Envs
  /\ ts = <<>> /\ flushed = 0 /\ feed = <<>> /\ replay = <<>> /\ events = <<>> /\ drops = 0
  /\ pc = (IF Polls THEN "sleep" ELSE "connect")
  /\ connected = Polls /\ seen = (IF Polls THEN First - 1 ELSE 0)
  /\ local = (Has("east") \/ Has("west")) /\ legacy = FALSE /\ watcher = "start"

(* Home Assistant receives a telegram, announces it and stores it. *)
Emit(step) ==
  /\ Len(ts) < MaxRows /\ watcher # "start"
  /\ step = 0 => Has("sameTs")
  /\ Polls \/ Has("busy") \/ pc # "query" \/ seen = 0
  /\ Has("longGap") \/ Len(ts) - Newest < Limit - 1
  /\ ts' = Append(ts, IF ts = <<>> THEN First ELSE Last(ts) + step)
  /\ flushed' = IF Has("late") THEN flushed ELSE Len(ts')
  /\ events' = IF pc \in {"query", "replay", "listen"} /\ ~Polls THEN Append(events, Len(ts'))
               ELSE events
  /\ UNCHANGED <<env, pc, connected, seen, replay, feed, drops, convention>>

Flush ==
  /\ flushed < Len(ts) /\ flushed' = Len(ts)
  /\ UNCHANGED <<env, ts, pc, connected, seen, replay, events, feed, drops, convention>>

(* It converts its database on a start, which drops the socket. *)
Convert ==
  /\ local /\ watcher # "start" /\ local' = FALSE
  /\ IF pc \in {"query", "listen"} THEN pc' = "backoff" /\ connected' = FALSE /\ events' = <<>>
     ELSE UNCHANGED <<pc, connected, events>>
  /\ UNCHANGED <<env, ts, flushed, seen, replay, feed, drops, legacy, watcher>>
-----------------------------------------------------------------------------
(* check_timestamp_convention: a check that fails changes nothing. *)
Check ==
  \/ legacy' = local /\ UNCHANGED drops
  \/ drops < MaxDrops /\ drops' = drops + 1 /\ UNCHANGED legacy

(* companion_startup. *)
Startup ==
  /\ watcher = "start" /\ Check
  /\ watcher' = IF legacy' THEN "running" ELSE "over"
  /\ UNCHANGED <<env, ts, flushed, pc, connected, seen, replay, events, feed, local>>

EndsAtOnce == "over"                             \* deviation
WhileLegacy == IF legacy' THEN "running" ELSE "over"
WatchTick ==
  /\ watcher = "running" /\ Check /\ watcher' = WhileLegacy
  /\ UNCHANGED <<env, ts, flushed, pc, connected, seen, replay, events, feed, local>>

(* _fetch_since: a page from the last timestamp on, and of it what is newer.
   Rows come in the order of their timestamps; Older(t) of them are before t. *)
Consecutive(a, b) == [i \in 1 .. b - a |-> a + i]
Older(t) == CHOOSE n \in 0 .. flushed : \A r \in 1 .. flushed : Read(r) < t <=> r <= n
PageEnd == IF Older(seen) + Limit < flushed THEN Older(seen) + Limit ELSE flushed
FreshAgain == Consecutive(Older(seen), PageEnd)  \* deviation
Fresh == Consecutive(Older(seen + 1), PageEnd)

(* _bridge_loop up to its subscription and the check that follows it. *)
Subscribe ==
  /\ pc = "connect" /\ watcher # "start" /\ pc' = "query" /\ connected' = TRUE
  /\ IF legacy THEN Check ELSE UNCHANGED <<legacy, drops>>
  /\ UNCHANGED <<env, ts, flushed, seen, replay, events, feed, local, watcher>>

Caught == IF Polls THEN "sleep" ELSE "listen"

(* _replay_gap up to its first broadcast, and a round of _poll_loop. *)
Query ==
  /\ pc \in {"query", "sleep"} /\ watcher # "start"
  /\ IF seen = 0 \/ Fresh = <<>> THEN pc' = Caught /\ UNCHANGED <<seen, replay>>
     ELSE pc' = "replay" /\ replay' = Fresh /\ seen' = Read(Last(Fresh))
  /\ connected' = TRUE
  /\ UNCHANGED <<env, ts, flushed, events, feed, drops, convention>>

(* It fails: the replay is given up, the poll tries again. *)
QueryFails ==
  /\ Has("queryFails") /\ drops < MaxDrops /\ drops' = drops + 1
  /\ pc \in {"query", "sleep"} /\ watcher # "start" /\ seen # 0
  /\ pc' = Caught /\ connected' = ~Polls
  /\ UNCHANGED <<env, ts, flushed, seen, replay, events, feed, convention>>

BroadcastNewest ==                               \* deviation
  /\ pc = "replay"
  /\ feed' = Append(feed, Last(replay)) /\ replay' = Front(replay)
  /\ pc' = IF Len(replay) = 1 THEN Caught ELSE pc
  /\ UNCHANGED <<env, ts, flushed, connected, seen, events, drops, convention>>

BroadcastRow ==
  /\ pc = "replay"
  /\ feed' = Append(feed, Head(replay)) /\ replay' = Tail(replay)
  /\ pc' = IF Len(replay) = 1 THEN Caught ELSE pc
  /\ UNCHANGED <<env, ts, flushed, connected, seen, events, drops, convention>>

(* _note_seen never goes back. *)
Noted(t) == IF t > seen THEN t ELSE seen

Forward ==
  /\ pc = "listen" /\ events # <<>>
  /\ feed' = Append(feed, Head(events)) /\ events' = Tail(events)
  /\ seen' = Noted(ts[Head(events)])
  /\ UNCHANGED <<env, ts, flushed, pc, connected, replay, drops, convention>>

DropUnreported ==                                \* deviation
  /\ drops < MaxDrops /\ drops' = drops + 1
  /\ pc \in {"connect", "query", "listen"} /\ watcher # "start"
  /\ pc' = "backoff" /\ events' = <<>>
  /\ UNCHANGED <<env, ts, flushed, connected, seen, replay, feed, convention>>

(* The connection is lost with the events not handed out, or not made. *)
Drop ==
  /\ drops < MaxDrops /\ drops' = drops + 1
  /\ pc \in {"connect", "query", "listen"} /\ watcher # "start"
  /\ pc' = "backoff" /\ connected' = FALSE /\ events' = <<>>
  /\ UNCHANGED <<env, ts, flushed, seen, replay, feed, convention>>

RetryListenOnly ==                               \* deviation
  /\ pc = "backoff" /\ pc' = "listen" /\ connected' = TRUE
  /\ UNCHANGED <<env, ts, flushed, seen, replay, events, feed, drops, convention>>

RetryOnce ==                                     \* deviation
  /\ pc = "backoff" /\ drops < 2 /\ pc' = "connect"
  /\ UNCHANGED <<env, ts, flushed, connected, seen, replay, events, feed, drops, convention>>

Retry ==
  /\ pc = "backoff" /\ pc' = "connect"
  /\ UNCHANGED <<env, ts, flushed, connected, seen, replay, events, feed, drops, convention>>

(* companion_shutdown cancels both tasks. *)
Shutdown ==
  /\ watcher # "start" /\ pc # "stopped" /\ pc' = "stopped" /\ connected' = FALSE
  /\ replay' = <<>> /\ events' = <<>> /\ watcher' = "over"
  /\ UNCHANGED <<env, ts, flushed, seen, feed, drops, local, legacy>>

Step == Startup \/ Subscribe \/ Query \/ BroadcastRow \/ Forward \/ Retry

Next ==
  \/ \E step \in {0, 1} : Emit(step)
  \/ Step \/ WatchTick \/ Flush \/ Convert \/ QueryFails \/ Drop \/ Shutdown

(* The event loop runs both tasks, timers elapse and the store flushes. *)
Fairness == WF_vars(Step) /\ WF_vars(WatchTick) /\ WF_vars(Flush)

Spec == Init /\ [][Next]_vars /\ Fairness
-----------------------------------------------------------------------------
(* Every variable has its type; the status says connected unless a socket or
   a poll is waited for or the bridge is stopped. *)
TypeOK ==
  /\ ts \in Seq(Nat) /\ flushed \in 0 .. Len(ts)
  /\ pc \in {"connect", "query", "replay", "listen", "sleep", "backoff", "stopped"}
  /\ pc # "sleep" => connected = (pc \notin {"connect", "backoff", "stopped"})
  /\ replay \in Seq(Rows) /\ events \in Seq(Rows) /\ feed \in Seq(Rows)
  /\ drops \in 0 .. MaxDrops /\ watcher \in {"start", "running", "over"}
  /\ local \in BOOLEAN /\ legacy \in BOOLEAN /\ seen \in Nat

(* No telegram is shown twice, unless it is announced while the replay is
   being fetched, or the database holds local timestamps: those it reads before
   its conversion come again after it. *)
NoRepeat == env.habits \cap {"busy", "east", "west"} = {} => IsInjective(feed)

(* "On reconnect the gap is replayed from the store, so nothing is lost": what
   Home Assistant received since the first telegram shown is shown, announced
   or still to be fetched. *)
Complete ==
  /\ pc = "listen" /\ feed # <<>> =>
       \A r \in Rows : r >= feed[1] => r \in ToSet(feed) \cup ToSet(events)
  /\ pc = "sleep" => \A r \in Rows : r \in ToSet(feed) \/ r > flushed \/ Read(r) > seen
Lossy == IF Polls THEN {"sameTs", "west"} ELSE {"late", "sameTs", "longGap", "queryFails", "west"}
NothingLost == env.habits \cap (Lossy \cup {"east"}) = {} => Complete

(* In the environments the bridge is built for it keeps the feed's promise. *)
Promised == env.habits \cap (Lossy \cup {"busy", "east"}) = {}
FP == INSTANCE FeedPromise WITH
        strict <- TRUE, rows <- Len(ts), feed <- IF Promised THEN feed ELSE <<>>
ImplementsFeedPromise == FP!Spec

(* ... and a telegram gets there, however often the connection is lost. *)
EventuallyFed ==
  \A r \in 1 .. MaxRows :
    Promised /\ r \in Rows /\ feed # <<>> /\ r >= feed[1] ~> r \in ToSet(feed) \/ pc = "stopped"

(* "This warning clears by itself once that has happened." *)
WarningClears == (legacy /\ ~local) ~> (~legacy \/ pc = "stopped")
=============================================================================
