---------------------------- MODULE TelegramCache ----------------------------
(***************************************************************************)
(* useTelegramCache (useTelegramCache.ts): one browser page that combines  *)
(* the in-memory buffer, the IndexedDB cache and the coverage bookkeeping  *)
(* of the Group Monitor, with the backend it reads from and the WebSocket  *)
(* that feeds it.                                                          *)
(*                                                                         *)
(* A telegram is its timestamp in clock ticks (the backend's microseconds);*)
(* the page sees milliseconds, TicksPerMs ticks each.  Every await of the  *)
(* hook is a step boundary: HTTP answers, IndexedDB completions, timers,   *)
(* socket events and user calls interleave freely.  IndexedDB runs its     *)
(* transactions in the order they were issued (ops is that queue), and a   *)
(* load's generation number is kept as the fact it is compared for: has    *)
(* clear() run since this load started (stale)?                            *)
(***************************************************************************)
EXTENDS Sequences, CoverageSet

CONSTANTS
  MaxTick,       \* bound on the clock
  TicksPerMs,    \* timestamp resolution of the backend per millisecond
  MaxSize,       \* maxSize: capacity of the buffer, and budget of a gap fill
  InitialLimit,  \* INITIAL_LOAD_LIMIT
  Chunk,         \* HISTORY_CHUNK_SIZE
  BatchSize,     \* FLUSH_BATCH_SIZE
  MaxCache,      \* MAX_CACHE_SIZE
  Retention,     \* milliseconds of history the backend keeps
  MaxLoads,      \* bound on background loads in flight
  MaxOps,        \* bound on queued IndexedDB operations when a user call adds one
  Envs           \* the environments to consider, as sets of the events they produce

EnvEvents ==
  {"connect",       \* the WebSocket comes and goes
   "range",         \* the user loads a time range
   "overlap",       \* a background load starts while another one is in flight
   "clear",         \* the user clears the monitor while no history chunk is being stored
   "clearMidStore", \* ... or at any time
   "evict",         \* the minute's size enforcement
   "crash",         \* the page dies, or reloads
   "noRestore",     \* the user has switched restoreFromCache off
   "idbFails",      \* IndexedDB rejects an operation
   "fetchFails",    \* a backend request fails
   "halfOpen",      \* the link dies before the page notices
   "sameMs"}        \* telegrams share the millisecond of a (re)connect

ASSUME BoundsAssumption ==
  /\ MaxTick \in Nat /\ MaxLoads \in Nat \ {0} /\ MaxOps \in Nat
  /\ TicksPerMs \in Nat \ {0} /\ Retention \in Nat
ASSUME SizesAssumption ==
  /\ MaxSize \in Nat \ {0} /\ InitialLimit \in Nat \ {0} /\ Chunk \in Nat \ {0}
  /\ BatchSize \in Nat \ {0} /\ MaxCache \in Nat \ {0}
ASSUME EnvAssumption == Envs \subseteq SUBSET EnvEvents

VARIABLES
  env,      \* what the environment of this behaviour may do; fixed
  now,      \* the clock, in ticks
  db,       \* the backend's telegrams
  up,       \* the WebSocket delivers
  wire,     \* telegrams broadcast to this page and not yet handled
  conn,     \* connectedRef
  buf,      \* bufferRef: the telegrams on screen
  pend,     \* pendingRef: live telegrams awaiting the next flush
  cov,      \* coverageRef
  saved,    \* the coverage in localStorage
  idb,      \* the telegrams in IndexedDB
  ops,      \* IndexedDB operations issued and not completed, in order
  trimTo,   \* result of a finished evictToSize whose continuation has not run
  loads     \* the background loads

vars == <<env, now, db, up, wire, conn, buf, pend, cov, saved, idb, ops, trimTo, loads>>

Tick   == 0 .. MaxTick
LoadId == 1 .. MaxLoads
Live   == 0                     \* issuer of a live flush
Ms(t)  == t \div TicksPerMs
NowMs  == Ms(now)               \* Date.now()

(* Broadcasts are handled as they come, unless the link can be slow; and no
   telegram shares its millisecond with a (re)connect or a clear, unless the
   environment says that it can. *)
PromptLink == wire = {} \/ "halfOpen" \in env
QuietMs    == "sameMs" \in env \/ \A r \in db : Ms(r) # NowMs

Least(S) == CHOOSE x \in S : \A y \in S : x <= y

OldestMs(S) == Least({Ms(r) : r \in S})

(* The subsets of S that keep its n newest members; members whose timestamps
   agree to res ticks are interchangeable (a sort by that resolution). *)
Newest(S, n, res) ==
  {T \in SUBSET S :
     /\ Cardinality(T) = Least({n, Cardinality(S)})
     /\ \A r \in T, q \in S \ T : q \div res <= r \div res}

(* merge / add: the union, minus the oldest entries beyond the capacity. *)
BufferWithoutEviction(new) == {buf \cup new}   \* deviation
BufferWith(new) == Newest(buf \cup new, MaxSize, TicksPerMs)
-----------------------------------------------------------------------------
(* IndexedDB operations. *)
StoreOp(rows, by) == [op |-> "store", rows |-> rows, by |-> by, min |-> 0]
ReadOp(by)        == [op |-> "read", rows |-> {}, by |-> by, min |-> 0]
ClearOp           == [op |-> "clear", rows |-> {}, by |-> Live, min |-> 0]
EvictSizeOp       == [op |-> "evictToSize", rows |-> {}, by |-> Live, min |-> 0]
EvictBeforeOp(m)  == [op |-> "evictBefore", rows |-> {}, by |-> Live, min |-> m]

(* pendingStoreCountRef: the store() calls in flight. *)
StoresInFlight(queue) == {i \in DOMAIN queue : queue[i].op = "store"}

(* saveCoverage: skipped while a store is in flight. *)
SaveCoverage(c, queue) == IF StoresInFlight(queue) = {} THEN c.pts ELSE saved

(* What remains of a load: the gaps not started, the gap being paged through
   (start .. cursor), the rows it may still fetch, whether it ignores a full
   buffer, whether clear() has run since it began, and the chunk in store(). *)
IdleLoad ==
  [pc |-> "idle", gaps |-> {}, start |-> 0, cursor |-> 0, left |-> 0,
   skip |-> FALSE, stale |-> FALSE, rows |-> {}, limitReached |-> FALSE]

Idle == {l \in LoadId : loads[l].pc = "idle"}
FreeLoad == Least(Idle)
MayLoad == IF "overlap" \in env THEN Idle # {} ELSE Idle = LoadId

(* A load re-reads the generation after every await that precedes a merge. *)
NeverInvalidated(ld) == FALSE                    \* deviation
Invalidated(ld) == ld.stale

(* The full-buffer break of fetchGapProgressive. *)
BufferFullBreak(ld, cursor, b) ==
  ~ld.skip /\ Cardinality(b) >= MaxSize /\ b # {} /\ cursor < OldestMs(b)

(* The loop of fillGapsBudgeted over its gaps, newest first, up to the next
   request or to the end.  Every gap older than one the full buffer stops at
   is stopped at too. *)
NextGap(ld, b) ==
  IF ld.gaps = {} \/ ld.left = 0 \/ Invalidated(ld) THEN IdleLoad
  ELSE LET g == CHOOSE x \in ld.gaps : \A y \in ld.gaps : y[1] <= x[1]
       IN  IF BufferFullBreak(ld, g[2], b) THEN IdleLoad
           ELSE [ld EXCEPT !.pc = "fetch", !.start = g[1], !.cursor = g[2],
                           !.gaps = @ \ {g}, !.rows = {}]

(* The loop head of fetchGapProgressive after a chunk, and what follows it. *)
NextRequest(ld, b) ==
  IF ld.cursor >= ld.start /\ ld.left > 0 /\ ~BufferFullBreak(ld, ld.cursor, b)
  THEN [ld EXCEPT !.pc = "fetch", !.rows = {}]
  ELSE NextGap(ld, b)

(* fillGapsBudgeted: the gaps are computed once, when it is called. *)
FillGaps(c, b, from, to, budget, skip) ==
  NextGap([IdleLoad EXCEPT !.gaps = Gaps(c, from, to), !.left = budget,
                           !.skip = skip], b)

(* Load l goes on as next; a fill that ran to its end saves the coverage,
   one that clear() invalidated does not. *)
Proceed(l, next, c, queue) ==
  /\ loads' = [loads EXCEPT ![l] = next]
  /\ saved' = IF next.pc = "idle" /\ ~Invalidated(loads[l])
              THEN SaveCoverage(c, queue) ELSE saved
-----------------------------------------------------------------------------
Restore == "noRestore" \notin env

(* A (re)load of the page: memory is empty, the persisted coverage is merged
   in and the startup restore begins, when it is enabled. *)
RestoredCoverage(persisted) ==
  [Empty EXCEPT !.pts = IF Restore THEN persisted ELSE {}]

MountedLoads ==
  [l \in LoadId |->
     [IdleLoad EXCEPT !.pc = IF Restore /\ l = 1 THEN "info" ELSE "idle"]]

Init ==
  /\ env \in Envs
  /\ now = 0 /\ db \in SUBSET {0}
  /\ saved = {} /\ idb = {}
  /\ conn = FALSE /\ up = FALSE /\ wire = {} /\ buf = {} /\ pend = {}
  /\ cov = RestoredCoverage({})
  /\ ops = <<>> /\ trimTo = NoLive
  /\ loads = MountedLoads

(* The bus: time passes, a telegram may be recorded and broadcast, and the
   backend forgets what has left its retention window. *)
Advance ==
  /\ now < MaxTick
  /\ PromptLink
  /\ now' = now + 1
  /\ \E telegram \in SUBSET {now + 1} :
       /\ db' = {r \in db \cup telegram : Ms(r) >= Ms(now + 1) - Retention}
       /\ wire' = IF up THEN wire \cup telegram ELSE wire
  /\ UNCHANGED <<env, up, conn, buf, pend, cov, saved, idb, ops, trimTo, loads>>
-----------------------------------------------------------------------------
(* addLive, for the next broadcast on the wire.  idsRef is the set of ids in
   the buffer; an id it keeps beyond that is of a row never broadcast again. *)
AddLive ==
  /\ wire # {}
  /\ LET r == Least(wire) IN
       /\ wire' = wire \ {r}
       /\ IF r \in buf THEN UNCHANGED <<buf, cov, pend, ops>>
          ELSE /\ buf' \in BufferWith({r})
               /\ cov' = ExtendLive(cov, Ms(r))
               /\ IF Cardinality(pend \cup {r}) >= BatchSize
                  THEN pend' = {} /\ ops' = Append(ops, StoreOp(pend \cup {r}, Live))
                  ELSE pend' = pend \cup {r} /\ UNCHANGED ops
  /\ UNCHANGED <<env, now, db, up, conn, saved, idb, trimTo, loads>>

FlushTickWhileConnected(evict) ==                \* deviation
  /\ PromptLink /\ conn /\ ~evict
  /\ pend' = {}
  /\ cov' = ExtendLive(cov, NowMs)
  /\ ops' = IF pend = {} THEN ops ELSE Append(ops, StoreOp(pend, Live))
  /\ saved' = SaveCoverage(cov', ops')
  /\ UNCHANGED <<env, now, db, up, wire, conn, buf, idb, trimTo, loads>>

(* The flush timer: the pending batch goes to IndexedDB, a connected stream
   covers the time up to now, coverage is saved; every 30th tick the size of
   the cache is enforced as well.  pagehide and unmount flush in the same way. *)
FlushTick(evict) ==
  /\ PromptLink
  /\ evict => "evict" \in env /\ trimTo = NoLive
              /\ \A i \in DOMAIN ops : ops[i].op # "evictToSize"
  /\ pend' = {}
  /\ cov' = IF conn THEN ExtendLive(cov, NowMs) ELSE cov
  /\ LET flushed == IF pend = {} THEN ops ELSE Append(ops, StoreOp(pend, Live))
     IN  /\ ops' = IF evict THEN Append(flushed, EvictSizeOp) ELSE flushed
         /\ saved' = SaveCoverage(cov', flushed)
  /\ UNCHANGED <<env, now, db, up, wire, conn, buf, idb, trimTo, loads>>

(* The continuation of evictToSize. *)
TrimAfterEvict ==
  /\ trimTo # NoLive
  /\ cov' = Trim(cov, trimTo)
  /\ saved' = SaveCoverage(cov', ops)
  /\ trimTo' = NoLive
  /\ UNCHANGED <<env, now, db, up, wire, conn, buf, pend, idb, ops, loads>>
-----------------------------------------------------------------------------
(* setConnected(true): the live interval is anchored at the reconnect instant
   and the gaps since the oldest covered instant are filled. *)
Connect ==
  /\ "connect" \in env /\ ~conn /\ MayLoad
  /\ QuietMs
  /\ conn' = TRUE /\ up' = TRUE
  /\ cov' = ExtendLive(cov, NowMs)
  /\ Proceed(FreeLoad, FillGaps(cov', buf, Least(cov'.pts), NowMs, MaxSize, FALSE),
             cov', ops)
  /\ UNCHANGED <<env, now, db, wire, buf, pend, idb, ops, trimTo>>

DisconnectKeepsLive ==                           \* deviation
  /\ conn /\ PromptLink
  /\ conn' = FALSE /\ up' = FALSE /\ wire' = {}
  /\ cov' = ExtendLive(cov, NowMs)
  /\ saved' = SaveCoverage(cov', ops)
  /\ UNCHANGED <<env, now, db, buf, pend, idb, ops, trimTo, loads>>

(* setConnected(false): everything up to now counts as seen. *)
Disconnect ==
  /\ conn
  /\ PromptLink
  /\ conn' = FALSE /\ up' = FALSE /\ wire' = {}
  /\ cov' = CloseLive(ExtendLive(cov, NowMs))
  /\ saved' = SaveCoverage(cov', ops)
  /\ UNCHANGED <<env, now, db, buf, pend, idb, ops, trimTo, loads>>

(* The link dies: what is on the wire is lost, and the page has not noticed. *)
LinkDies ==
  /\ "halfOpen" \in env /\ up
  /\ up' = FALSE /\ wire' = {}
  /\ UNCHANGED <<env, now, db, conn, buf, pend, cov, saved, idb, ops, trimTo, loads>>
-----------------------------------------------------------------------------
(* The startup restore, once the retention of the backend is known (or the
   request for it has failed): coverage and cache are clamped to it, and the
   cached telegrams are read.  The read is issued before evictBefore deletes. *)
StartupInfo(l) ==
  /\ loads[l].pc = "info"
  /\ loads' = [loads EXCEPT ![l].pc = "readAll"]
  /\ \/ /\ cov' = Trim(cov, NowMs - Retention)
        /\ ops' = ops \o <<ReadOp(l), EvictBeforeOp(NowMs - Retention)>>
     \/ /\ "fetchFails" \in env
        /\ ops' = Append(ops, ReadOp(l))
        /\ UNCHANGED cov
  /\ UNCHANGED <<env, now, db, up, wire, conn, buf, pend, saved, idb, trimTo>>

(* loadRange: the cache is read first. *)
LoadRange(from, to) ==
  /\ "range" \in env /\ MayLoad /\ Len(ops) < MaxOps
  /\ from <= to /\ to <= NowMs
  /\ loads' = [loads EXCEPT ![FreeLoad] =
                 [IdleLoad EXCEPT !.pc = "readRange", !.start = from, !.cursor = to]]
  /\ ops' = Append(ops, ReadOp(FreeLoad))
  /\ UNCHANGED <<env, now, db, up, wire, conn, buf, pend, cov, saved, idb, trimTo>>

ClearKeepsCoverage ==                            \* deviation
  /\ "clear" \in env /\ Len(ops) < MaxOps /\ QuietMs
  /\ loads' = [l \in LoadId |->
                 IF l \in Idle THEN loads[l] ELSE [loads[l] EXCEPT !.stale = TRUE]]
  /\ buf' = {} /\ pend' = {}
  /\ ops' = Append(ops, ClearOp)
  /\ UNCHANGED <<env, now, db, up, wire, conn, cov, saved, idb, trimTo>>

(* clear(): everything in memory and the saved coverage go, the loads in
   flight are invalidated, and the cache is wiped. *)
Clear ==
  /\ "clear" \in env /\ Len(ops) < MaxOps
  /\ QuietMs
  /\ "clearMidStore" \in env \/ \A l \in LoadId : loads[l].pc # "store"
  /\ loads' = [l \in LoadId |->
                 IF l \in Idle THEN loads[l] ELSE [loads[l] EXCEPT !.stale = TRUE]]
  /\ buf' = {} /\ pend' = {} /\ cov' = Empty
  /\ saved' = SaveCoverage(Empty, ops)
  /\ ops' = Append(ops, ClearOp)
  /\ UNCHANGED <<env, now, db, up, wire, conn, idb, trimTo>>
-----------------------------------------------------------------------------
(* The answer to a history request: the newest rows of start .. cursor, whose
   end the page sends as a whole millisecond, and whether there were more
   (a page that is exactly full may report either). *)
FetchAnswer(l) ==
  LET ld    == loads[l]
      match == {r \in db : r >= ld.start * TicksPerMs /\ r <= ld.cursor * TicksPerMs}
      limit == Least({Chunk, ld.left})
  IN
  /\ ld.pc = "fetch"
  /\ \/ /\ Invalidated(ld)
        /\ Proceed(l, IdleLoad, cov, ops)
        /\ UNCHANGED <<buf, cov, ops>>
     \/ /\ ~Invalidated(ld) /\ match = {}
        /\ cov' = Add(cov, ld.start, ld.cursor)
        /\ Proceed(l, NextGap(ld, buf), cov', ops)
        /\ UNCHANGED <<buf, ops>>
     \/ /\ ~Invalidated(ld) /\ match # {}
        /\ \E fetched \in Newest(match, limit, 1), more \in BOOLEAN :
             /\ more => Cardinality(match) >= limit
             /\ Cardinality(match) > limit => more
             /\ buf' \in BufferWith(fetched)
             /\ ops' = Append(ops, StoreOp(fetched, l))
             /\ loads' = [loads EXCEPT ![l].pc = "store", ![l].rows = fetched,
                                       ![l].limitReached = more]
        /\ UNCHANGED <<cov, saved>>
  /\ UNCHANGED <<env, now, db, up, wire, conn, pend, idb, trimTo>>

(* The request fails: the load ends with an error and saves nothing. *)
FetchFails(l) ==
  /\ "fetchFails" \in env /\ loads[l].pc = "fetch"
  /\ loads' = [loads EXCEPT ![l] = IdleLoad]
  /\ UNCHANGED <<env, now, db, up, wire, conn, buf, pend, cov, saved, idb, ops, trimTo>>
-----------------------------------------------------------------------------
(* IndexedDB completes (or rejects) its oldest operation, and the code that
   awaited it runs. *)
Outcomes == IF "idbFails" \in env THEN {TRUE, FALSE} ELSE {TRUE}

(* store() of a live batch: success saves the coverage, failure does nothing. *)
LiveStoreDone ==
  /\ ops # <<>> /\ Head(ops).op = "store" /\ Head(ops).by = Live
  /\ ops' = Tail(ops)
  /\ \E ok \in Outcomes :
       /\ idb' = IF ok THEN idb \cup Head(ops).rows ELSE idb
       /\ saved' = IF ok THEN SaveCoverage(cov, ops') ELSE saved
  /\ UNCHANGED <<env, now, db, up, wire, conn, buf, pend, cov, trimTo, loads>>

ChunkCoveredUnstored(c, ld, ok) ==                                  \* deviation
  IF ld.limitReached THEN Add(c, OldestMs(ld.rows), ld.cursor)
  ELSE Add(c, ld.start, ld.cursor)

(* What a stored chunk covers: back to its oldest row, and the whole rest of
   the gap when the backend had no more. *)
ChunkCovered(c, ld, ok) ==
  IF ~ok THEN c
  ELSE IF ld.limitReached THEN Add(c, OldestMs(ld.rows), ld.cursor)
  ELSE Add(Add(c, OldestMs(ld.rows), ld.cursor), ld.start, ld.cursor)

(* Paging back re-includes the oldest millisecond, unless the whole chunk sat
   on it. *)
NextCursor(ld) ==
  IF OldestMs(ld.rows) < ld.cursor THEN OldestMs(ld.rows) ELSE ld.cursor - 1

ChunkStoreDone(l) ==
  LET ld   == loads[l]
      paid == [ld EXCEPT !.left = @ - Cardinality(ld.rows)]
  IN
  /\ ops # <<>> /\ Head(ops).op = "store" /\ Head(ops).by = l
  /\ ops' = Tail(ops)
  /\ \E ok \in Outcomes :
       /\ idb' = IF ok THEN idb \cup ld.rows ELSE idb
       /\ cov' = ChunkCovered(cov, ld, ok)
  /\ Proceed(l, IF ld.limitReached
                THEN NextRequest([paid EXCEPT !.cursor = NextCursor(ld)], buf)
                ELSE NextGap(paid, buf),
             cov', ops')
  /\ UNCHANGED <<env, now, db, up, wire, conn, buf, pend, trimTo>>

(* The cached rows are there: loadRange shows those of its range, the startup
   restore the newest ones, and the gaps up to the end of the range (or now)
   are filled.  A failed read counts as an empty cache. *)
CacheRead(l) ==
  LET ld == loads[l] IN
  /\ ops # <<>> /\ Head(ops).op = "read" /\ Head(ops).by = l
  /\ ops' = Tail(ops)
  /\ \/ /\ Invalidated(ld)
        /\ loads' = [loads EXCEPT ![l] = IdleLoad]
        /\ UNCHANGED <<buf, saved>>
     \/ /\ ~Invalidated(ld) /\ ld.pc = "readRange"
        /\ \E ok \in Outcomes :
             buf' \in BufferWith(IF ok THEN {r \in idb : Ms(r) \in ld.start .. ld.cursor}
                                 ELSE {})
        /\ Proceed(l, FillGaps(cov, buf', ld.start, ld.cursor, MaxSize, TRUE), cov, ops')
     \/ /\ ~Invalidated(ld) /\ ld.pc = "readAll"
        /\ \E ok \in Outcomes :
             LET cached == IF ok THEN idb ELSE {}
                 budget == Least({InitialLimit, MaxSize})
                 known  == cov.pts \cup {Ms(r) : r \in cached}
             IN  \E slice \in Newest(cached, budget, TicksPerMs) :
                   /\ buf' \in BufferWith(slice)
                   /\ IF known = {}
                      THEN loads' = [loads EXCEPT ![l] = IdleLoad] /\ UNCHANGED saved
                      ELSE Proceed(l, FillGaps(cov, buf', Least(known), NowMs, budget, FALSE),
                                   cov, ops')
  /\ UNCHANGED <<env, now, db, up, wire, conn, pend, cov, idb, trimTo>>

(* The maintenance operations. *)
CacheCleared ==
  /\ ops # <<>> /\ Head(ops).op = "clear"
  /\ ops' = Tail(ops)
  /\ \E ok \in Outcomes : idb' = IF ok THEN {} ELSE idb
  /\ UNCHANGED <<env, now, db, up, wire, conn, buf, pend, cov, saved, trimTo, loads>>

EvictedBefore ==
  /\ ops # <<>> /\ Head(ops).op = "evictBefore"
  /\ ops' = Tail(ops)
  /\ \E ok \in Outcomes :
       idb' = IF ok THEN {r \in idb : Ms(r) >= Head(ops).min} ELSE idb
  /\ UNCHANGED <<env, now, db, up, wire, conn, buf, pend, cov, saved, trimTo, loads>>

EvictedToSize ==
  /\ ops # <<>> /\ Head(ops).op = "evictToSize"
  /\ ops' = Tail(ops)
  /\ \/ /\ Cardinality(idb) > MaxCache
        /\ idb' \in Newest(idb, MaxCache, TicksPerMs)
        /\ trimTo' = OldestMs(idb')
     \/ /\ Cardinality(idb) <= MaxCache \/ "idbFails" \in env
        /\ UNCHANGED <<idb, trimTo>>
  /\ UNCHANGED <<env, now, db, up, wire, conn, buf, pend, cov, saved, loads>>
-----------------------------------------------------------------------------
(* The page dies; operations IndexedDB has not completed are lost. *)
Crash ==
  /\ "crash" \in env
  /\ PromptLink
  /\ conn' = FALSE /\ up' = FALSE /\ wire' = {} /\ buf' = {} /\ pend' = {}
  /\ cov' = RestoredCoverage(saved)
  /\ ops' = <<>> /\ trimTo' = NoLive
  /\ loads' = MountedLoads
  /\ UNCHANGED <<env, now, db, saved, idb>>

IdbStep ==
  \/ LiveStoreDone
  \/ \E l \in LoadId : ChunkStoreDone(l) \/ CacheRead(l)
  \/ CacheCleared \/ EvictedBefore \/ EvictedToSize

Next ==
  \/ Advance
  \/ AddLive
  \/ \E evict \in BOOLEAN : FlushTick(evict)
  \/ TrimAfterEvict
  \/ Connect \/ Disconnect \/ LinkDies
  \/ \E l \in LoadId : StartupInfo(l) \/ FetchAnswer(l) \/ FetchFails(l)
  \/ \E s, e \in Tick : LoadRange(s, e)
  \/ Clear
  \/ IdbStep
  \/ Crash

(* Timers fire, the backend answers, IndexedDB completes and broadcasts are
   handled; connecting, user calls, faults and new telegrams owe nothing. *)
Fairness ==
  /\ WF_vars(AddLive)
  /\ WF_vars(FlushTick(FALSE))
  /\ WF_vars(IdbStep)
  /\ WF_vars(TrimAfterEvict)
  /\ \A l \in LoadId : WF_vars(StartupInfo(l)) /\ WF_vars(FetchAnswer(l))

Spec == Init /\ [][Next]_vars /\ Fairness
-----------------------------------------------------------------------------
Load ==
  [pc : {"idle", "info", "readAll", "readRange", "fetch", "store"},
   gaps : SUBSET (Tick \X Tick), start : Tick, cursor : -1 .. MaxTick,
   left : Nat, skip : BOOLEAN, stale : BOOLEAN, rows : SUBSET Tick,
   limitReached : BOOLEAN]

IdbOp ==
  [op : {"store", "read", "clear", "evictToSize", "evictBefore"},
   rows : SUBSET Tick, by : LoadId \cup {Live}, min : Int]

(* Every variable has its type; the buffer never exceeds its capacity, and a
   load awaits the IndexedDB operation its step says it awaits. *)
TypeOK ==
  /\ now \in Tick /\ db \subseteq 0 .. now
  /\ up \in BOOLEAN /\ conn \in BOOLEAN
  /\ wire \subseteq 0 .. now /\ pend \subseteq 0 .. now /\ idb \subseteq 0 .. now
  /\ buf \subseteq 0 .. now /\ Cardinality(buf) <= MaxSize
  /\ cov \in [pts : SUBSET (0 .. NowMs), live : 0 .. NowMs \cup {NoLive}]
  /\ saved \subseteq 0 .. NowMs
  /\ ops \in Seq(IdbOp) /\ trimTo \in Tick \cup {NoLive}
  /\ loads \in [LoadId -> Load]
  /\ \A l \in LoadId :
       Cardinality({i \in DOMAIN ops : ops[i].by = l}) =
         IF loads[l].pc \in {"readAll", "readRange", "store"} THEN 1 ELSE 0

(* Row r will be in IndexedDB once everything issued so far has completed. *)
StoredOrBeing(r) ==
  \/ r \in idb /\ \A i \in DOMAIN ops : ops[i].op # "clear"
  \/ \E i \in StoresInFlight(ops) :
       r \in ops[i].rows /\ \A j \in i + 1 .. Len(ops) : ops[j].op # "clear"

(* Coverage tells the truth: a telegram of the backend whose millisecond is
   covered, and which will therefore never be fetched again, is in IndexedDB,
   on its way there, or still on its way to the page; or it was just evicted
   and its coverage is about to be trimmed.  A telegram outside these is a
   permanent gap in the monitor (#317, #339). *)
Accounted ==
  \A r \in db : Ms(r) \in cov.pts =>
     \/ StoredOrBeing(r) \/ r \in pend \/ r \in wire
     \/ trimTo # NoLive /\ Ms(r) < trimTo

(* What the code survives: connects, range loads, evictions, failing requests
   and clears in any order.  The other events each break Accounted. *)
Fair == {"connect", "range", "overlap", "evict", "clear", "fetchFails", "noRestore"}

CoveredIsAccounted == env \subseteq Fair => Accounted

(* The coverage that survives a reload only claims telegrams that survive it
   too: what localStorage says is covered, IndexedDB holds. *)
SavedIsStored == \A r \in db : Ms(r) \in saved => r \in idb

(* That holds as long as history loads feed the view, through crashes and
   failing operations, but not for a live stream. *)
SavedIsCached ==
  env \subseteq {"range", "clear", "crash", "noRestore", "idbFails", "fetchFails"}
    => SavedIsStored

(* Whatever fails around it, a history load only claims what it stored: when
   one of its steps covers a new millisecond, every telegram the backend has
   there is in IndexedDB at that moment (openspec async-buffer-gaps). *)
LoadClaimsWhatItStored ==
  [][\A l \in LoadId : FetchAnswer(l) \/ ChunkStoreDone(l) =>
       \A r \in db : Ms(r) \in cov'.pts \ cov.pts => r \in idb']_vars

(* A load that clear() invalidated shows nothing any more: the cleared view
   refills from live telegrams and later loads only (#339). *)
StaleLoadShowsNothing ==
  [][\A l \in LoadId : loads[l].stale /\ loads'[l] # loads[l] => buf' \subseteq buf]_vars

(* While the page stays connected it catches up: a telegram of the backend no
   older than the oldest covered instant is eventually on screen. *)
CatchesUp ==
  \A r \in Tick :
    (conn /\ r \in db /\ (\E p \in cov.pts : p <= Ms(r))) ~> (r \in buf \/ ~conn)

(* A live telegram does not stay in memory only: it reaches IndexedDB. *)
LiveReachesCache == \A r \in Tick : r \in pend ~> r \in idb

(* A history load neither claims what it did not store nor shows anything once
   a clear has made it stale (useTelegramCache.ts:231-352). *)
LoadsAreHonest == LoadClaimsWhatItStored /\ StaleLoadShowsNothing
=============================================================================
