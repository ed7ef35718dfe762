--------------------------- MODULE PgListenBridge ---------------------------
(***************************************************************************)
(* pg_listen_bridge.py: the live feed of postgres-readonly mode.  Another  *)
(* process writes telegrams to the shared database; the bridge LISTENs for *)
(* them and broadcasts each one, and after a lost connection first replays *)
(* what the database got meanwhile.                                        *)
(*                                                                         *)
(* A row is its place in the database, rowTs its timestamp.  One task runs *)
(* the loop; every await of it is a step boundary at which rows arrive and *)
(* the connection may drop.                                                *)
(***************************************************************************)
EXTENDS Integers, FiniteSets, SequencesExt

CONSTANTS
  MaxRows,      \* bound on the rows the writer inserts
  MaxTs,        \* bound on their timestamps
  Limit,        \* rows one replay query returns at most (5000)
  MaxDrops,     \* bound on lost connections and failed attempts
  Envs          \* the habits of writer and store to consider, as sets

Habits ==
  {"duringReconnect",  \* rows are inserted between the replay query and LISTEN
   "sameTs",           \* several rows have one timestamp
   "longGap",          \* a gap has Limit rows or more: the replay's page, which starts
                       \* with the row last seen, has no room for the last of them
   "queryFails"}       \* a replay query fails although LISTEN then works

ASSUME BoundsAssumption ==
  MaxRows \in Nat /\ MaxTs \in Nat /\ Limit \in Nat \ {0} /\ MaxDrops \in Nat
ASSUME EnvAssumption == Envs \subseteq SUBSET Habits

VARIABLES
  env,          \* what writer and store of this behaviour do; fixed
  rowTs,        \* the timestamps of the rows, in order of insertion
  pc,           \* where the loop is
  connected,    \* _connected
  seen,         \* _last_seen, 0 for None
  replay,       \* rows of the replay still to be broadcast
  notified,     \* notifications the listener has not handed out
  feed,         \* rows broadcast, in order
  drops         \* lost connections and failed attempts so far

vars == <<env, rowTs, pc, connected, seen, replay, notified, feed, drops>>

Row == 1 .. MaxRows
Rows == DOMAIN rowTs

(* The rows not yet broadcast that are newer than what was last seen. *)
Missed == {r \in Rows : rowTs[r] > seen /\ \A i \in DOMAIN feed : feed[i] # r}

Init ==
  /\ env \in Envs
  /\ rowTs = <<>> /\ feed = <<>> /\ replay = <<>> /\ notified = <<>>
  /\ pc = "query" /\ connected = TRUE /\ seen = 0 /\ drops = 0

(* The writer commits a row; PostgreSQL notifies a session that LISTENs. *)
Insert(ts) ==
  /\ Len(rowTs) < MaxRows
  /\ \A r \in Rows : IF "sameTs" \in env THEN rowTs[r] <= ts ELSE rowTs[r] < ts
  /\ "duringReconnect" \in env \/ seen = 0 \/ pc \notin {"replay", "subscribe"}
  /\ "longGap" \in env \/ Cardinality(Missed) < Limit - 1
  /\ rowTs' = Append(rowTs, ts)
  /\ notified' = IF pc = "listen" THEN Append(notified, Len(rowTs')) ELSE notified
  /\ UNCHANGED <<env, pc, connected, seen, replay, feed, drops>>
-----------------------------------------------------------------------------
(* The replay query asks for the rows from the last one seen on, oldest first,
   and cuts the answer at the limit.  Rows come in the order of their timestamps,
   so that an answer is a run of them; Older(ts) is how many there are before ts. *)
Consecutive(a, b) == [i \in 1 .. b - a |-> a + i]
Older(ts) == CHOOSE n \in 0 .. Len(rowTs) : \A r \in Rows : rowTs[r] < ts <=> r <= n
PageEnd == IF Older(seen) + Limit < Len(rowTs) THEN Older(seen) + Limit ELSE Len(rowTs)
Page    == Consecutive(Older(seen), PageEnd)

FreshAgain == Page                               \* deviation
(* Of the page, the rows that are really newer. *)
Fresh   == Consecutive(Older(seen + 1), PageEnd)

SkipReplay ==                                    \* deviation
  /\ pc = "query" /\ pc' = "subscribe"
  /\ UNCHANGED <<env, rowTs, connected, seen, replay, notified, feed, drops>>

(* _replay_gap up to its first broadcast: without a last telegram there is
   nothing to replay. *)
ReplayQuery ==
  /\ pc = "query"
  /\ IF seen = 0 \/ Fresh = <<>> THEN pc' = "subscribe" /\ UNCHANGED <<seen, replay>>
     ELSE pc' = "replay" /\ replay' = Fresh /\ seen' = rowTs[Last(Fresh)]
  /\ UNCHANGED <<env, rowTs, connected, notified, feed, drops>>

(* A query that fails is logged and the replay given up. *)
ReplayFails ==
  /\ "queryFails" \in env
  /\ pc = "query" /\ seen # 0 /\ pc' = "subscribe"
  /\ UNCHANGED <<env, rowTs, connected, seen, replay, notified, feed, drops>>

ReplayBroadcast ==
  /\ pc = "replay"
  /\ feed' = Append(feed, Head(replay))
  /\ replay' = Tail(replay)
  /\ pc' = IF replay' = <<>> THEN "subscribe" ELSE pc
  /\ UNCHANGED <<env, rowTs, connected, seen, notified, drops>>

(* The generator's first step: the session LISTENs. *)
Listen ==
  /\ pc = "subscribe" /\ pc' = "listen"
  /\ UNCHANGED <<env, rowTs, connected, seen, replay, notified, feed, drops>>

Forward ==
  /\ pc = "listen" /\ notified # <<>>
  /\ seen' = rowTs[Head(notified)]
  /\ feed' = Append(feed, Head(notified))
  /\ notified' = Tail(notified)
  /\ UNCHANGED <<env, rowTs, pc, connected, replay, drops>>

DropUnreported ==                                \* deviation
  /\ pc \in {"subscribe", "listen"} /\ drops < MaxDrops
  /\ pc' = "backoff" /\ notified' = <<>>
  /\ drops' = drops + 1
  /\ UNCHANGED <<env, rowTs, connected, seen, replay, feed>>

(* LISTEN fails, or the connection is lost with what it had not handed out. *)
Drop ==
  /\ pc \in {"subscribe", "listen"} /\ drops < MaxDrops
  /\ pc' = "backoff" /\ connected' = FALSE /\ notified' = <<>>
  /\ drops' = drops + 1
  /\ UNCHANGED <<env, rowTs, seen, replay, feed>>

RetryListenOnly ==                               \* deviation
  /\ pc = "backoff" /\ pc' = "subscribe" /\ connected' = TRUE
  /\ UNCHANGED <<env, rowTs, seen, replay, notified, feed, drops>>

(* The back-off is over. *)
Retry ==
  /\ pc = "backoff" /\ pc' = "query" /\ connected' = TRUE
  /\ UNCHANGED <<env, rowTs, seen, replay, notified, feed, drops>>

(* postgres_listen_shutdown: the task is cancelled at whatever it awaits. *)
Shutdown ==
  /\ pc # "stopped"
  /\ pc' = "stopped" /\ connected' = FALSE
  /\ replay' = <<>> /\ notified' = <<>>
  /\ UNCHANGED <<env, rowTs, seen, feed, drops>>

LoopStep == ReplayQuery \/ ReplayFails \/ ReplayBroadcast \/ Listen \/ Forward \/ Retry

Next == (\E ts \in 1 .. MaxTs : Insert(ts)) \/ LoopStep \/ Drop \/ Shutdown

(* The loop's task runs whenever what it awaits is there. *)
Fairness == WF_vars(LoopStep)

Spec == Init /\ [][Next]_vars /\ Fairness
-----------------------------------------------------------------------------
(* Every variable has its type; the status says disconnected exactly while
   the bridge waits to reconnect or is stopped. *)
TypeOK ==
  /\ rowTs \in Seq(1 .. MaxTs) /\ Len(rowTs) <= MaxRows
  /\ pc \in {"query", "replay", "subscribe", "listen", "backoff", "stopped"}
  /\ connected = (pc \notin {"backoff", "stopped"})
  /\ seen \in 0 .. MaxTs
  /\ replay \in Seq(Rows) /\ notified \in Seq(Rows) /\ feed \in Seq(Rows)
  /\ drops \in 0 .. MaxDrops

(* The live feed never shows a telegram twice nor an older one after a newer
   one, although replays and notifications overlap, and skips none as long as
   writer and store have none of the habits. *)
FP == INSTANCE FeedPromise WITH strict <- env = {}, rows <- Len(rowTs), feed <- feed
ImplementsFeedPromise == FP!Spec

(* "A brief LISTEN drop does not lose telegrams": while the bridge listens,
   every row inserted since the first one it broadcast was broadcast too or
   is about to be. *)
Complete ==
  pc = "listen" /\ feed # <<>> =>
    \A r \in Rows : r >= feed[1] => r \in ToSet(feed) \cup ToSet(notified)

(* That holds over any number of drops as long as writer and store have none
   of the habits; each of them breaks Complete. *)
NothingLost == env = {} => Complete

(* Once the feed has begun, a row that is inserted reaches it, however often
   the connection drops meanwhile. *)
EventuallyFed ==
  \A r \in Row :
    (env = {} /\ feed # <<>> /\ r \in Rows /\ r >= feed[1])
      ~> (r \in ToSet(feed) \/ pc = "stopped")
=============================================================================
