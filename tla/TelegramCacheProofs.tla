------------------------ MODULE TelegramCacheProofs ------------------------
(***************************************************************************)
(* Machine-checked proofs about TelegramCache, for any number of telegrams,*)
(* loads and queued operations of the cache, and any size of the buffer,   *)
(* of a chunk and of a batch.  They are for a backend whose timestamps are *)
(* whole milliseconds (WholeMs), as in the runs: a finer one can put a     *)
(* telegram behind a disconnect, but into a millisecond that is covered.   *)
(*                                                                         *)
(* Three invariants are carried side by side.  Base holds in every         *)
(* environment: types, and that a load never reaches into the future nor   *)
(* has more than one operation of the cache under way.  FairInv is about   *)
(* environments that lose nothing: a covered row is accounted for          *)
(* (Account), which takes that a store behind the last queued clear will   *)
(* happen (Safe), that the stream already owns what it will cover with its *)
(* next flush (Streamed), and that no chunk is stored before a clear       *)
(* (InOrder).  CalmInv is about history alone: what a crash leaves in      *)
(* localStorage is in IndexedDB, because a queued clear has already        *)
(* forgotten the coverage (Forgotten).                                     *)
(***************************************************************************)
EXTENDS TelegramCache, FiniteSetTheorems, WellFoundedInduction, TLAPS

(* A timestamp is a whole millisecond: the resolution of the page. *)
WholeMs == TicksPerMs = 1

(* Coverage of what has happened by t. *)
CoversTo(t) == [pts : SUBSET (0 .. t), live : 0 .. t \cup {NoLive}]

(* The types of the variables, relative to the clock. *)
Typed ==
  /\ now \in Tick /\ db \subseteq 0 .. now
  /\ up \in BOOLEAN /\ conn \in BOOLEAN
  /\ wire \subseteq 0 .. now /\ pend \subseteq 0 .. now /\ idb \subseteq 0 .. now
  /\ buf \subseteq 0 .. now
  /\ cov \in CoversTo(now)
  /\ saved \subseteq 0 .. now
  /\ ops \in Seq(IdbOp) /\ trimTo \in 0 .. now \cup {NoLive}
  /\ loads \in [LoadId -> Load]

(* The rows of a chunk are all of d there is in what storing it will cover. *)
Claimed(ld) == (IF ld.limitReached THEN Least(ld.rows) ELSE ld.start) .. ld.cursor

KnowsAll(ld, d) ==
  /\ ld.rows # {} /\ ld.rows \subseteq ld.start .. ld.cursor
  /\ \A r \in d : r \in Claimed(ld) => r \in ld.rows

(* At time t, a load asks for nothing that has not happened yet. *)
Fits(ld, t, d) ==
  /\ ld.cursor <= t /\ ld.rows \subseteq 0 .. t
  /\ \A g \in ld.gaps : g[1] <= g[2] /\ g[2] <= t
  /\ ld.pc \in {"fetch", "readRange"} => ld.start <= ld.cursor
  /\ ld.pc = "fetch" => ld.left # 0
  /\ ld.pc = "store" => KnowsAll(ld, d) /\ Cardinality(ld.rows) <= ld.left

LoadsFit(ld, t, d) == ld \in [LoadId -> Load] /\ \A l \in LoadId : Fits(ld[l], t, d)

(* What waits in the queue q for one of the loads ld is what that load waits
   for, once; and nothing is to be evicted that the backend keeps at time t. *)
Waiting(ld) == ld.pc \in {"readAll", "readRange", "store"}

Serves(o, ld) ==
  \/ o.op = "read" /\ ld.pc \in {"readAll", "readRange"}
  \/ o.op = "store" /\ ld.pc = "store" /\ o.rows = ld.rows

OpRight(o, ld, t) ==
  /\ o.rows \subseteq 0 .. t
  /\ o.op = "evictBefore" => o.min <= t - Retention
  /\ IF o.by = Live THEN o.op # "read" ELSE Serves(o, ld[o.by])

QueueRight(q, ld, t) ==
  /\ \A i \in DOMAIN q : OpRight(q[i], ld, t)
  /\ \A i, j \in DOMAIN q : q[i].by = q[j].by /\ q[i].by # Live => i = j

(* The backend keeps what is in its retention window. *)
Retained == \A r \in db : r >= now - Retention

Base == Typed /\ Retained /\ LoadsFit(loads, now, db) /\ QueueRight(ops, loads, now)
-----------------------------------------------------------------------------
Cleared(q) == \E i \in DOMAIN q : q[i].op = "clear"

(* Row r is in the cache s, or will be, once the queue q has completed. *)
Safe(r, q, s) ==
  \/ r \in s /\ ~Cleared(q)
  \/ \E i \in DOMAIN q : /\ q[i].op = "store" /\ r \in q[i].rows
                         /\ \A j \in i + 1 .. Len(q) : q[j].op # "clear"

(* Nothing a stale load could still store is left behind a clear. *)
NoStaleStore == \A l \in LoadId : loads[l].stale => loads[l].pc # "store"

(* The socket delivers as long as the page is connected, at once. *)
Linked ==
  /\ up = conn /\ wire \subseteq {now} \cap db
  /\ wire # {} => conn
  /\ ~conn => cov.live = NoLive

(* What has this moment's timestamp is the backend's. *)
Recent ==
  /\ now \in pend \cup buf \cup idb => now \in db
  /\ now \in wire \cap buf => Safe(now, ops, idb)

(* A queue q before the cache s, at time t, with d in the backend and a cut of
   the cache reported in c: what has this moment's timestamp is the backend's and
   newer than every clear that waits; no clear waits behind a chunk that is
   being stored; and the cache is cut to size once at a time. *)
InOrder(q, s, t, d, c) ==
  /\ \A i \in DOMAIN q :
       /\ t \in q[i].rows => t \in d
       /\ q[i].op = "clear" => t \notin s /\ \A j \in 1 .. i - 1 : t \notin q[j].rows
       /\ q[i].op = "store" /\ q[i].by # Live => \A j \in i + 1 .. Len(q) : q[j].op # "clear"
       /\ q[i].op = "evictToSize" => c = NoLive
  /\ \A i, j \in DOMAIN q : q[i].op = "evictToSize" /\ q[j].op = "evictToSize" => i = j

(* A row is in the cache, on its way there or to the page, or about to be
   uncovered. *)
Account(r) ==
  Safe(r, ops, idb) \/ r \in pend \/ r \in wire \/ (trimTo # NoLive /\ r < trimTo)

(* That includes what the stream will cover next. *)
Streamed ==
  conn => \A r \in db :
    r = now \/ (cov.live # NoLive /\ r >= cov.live) => Account(r)

Covered == \A r \in db : r \in cov.pts => Account(r)

FairInv ==
  /\ Linked /\ NoStaleStore /\ Recent /\ InOrder(ops, idb, now, db, trimTo)
  /\ Streamed /\ Covered
-----------------------------------------------------------------------------
Calm == {"range", "clear", "crash", "noRestore", "idbFails", "fetchFails"}

(* Nothing comes but from the history. *)
Offline ==
  /\ ~conn /\ ~up /\ wire = {} /\ pend = {} /\ trimTo = NoLive
  /\ \A i \in DOMAIN ops : ops[i].op # "evictToSize" /\ (ops[i].op = "store" => ops[i].by # Live)

(* Behind a clear nothing is known, and no load goes on but one that will read
   what it leaves. *)
Forgotten(q) ==
  \A i \in DOMAIN q : q[i].op = "clear" =>
    /\ cov.pts = {} /\ saved = {}
    /\ \A l \in LoadId :
         \/ loads[l].pc = "idle" \/ loads[l].stale
         \/ loads[l].pc = "readRange" /\ \A j \in 1 .. i : q[j].by # l

CalmInv ==
  /\ Offline /\ NoStaleStore /\ Forgotten(ops)
  /\ \A r \in db : r \in cov.pts \cup saved => r \in idb

IInv == /\ Base
        /\ env \subseteq Fair => FairInv
        /\ env \subseteq Calm => CalmInv
-----------------------------------------------------------------------------
(* A set of naturals that has a member has a least one. *)
LEMMA LeastNatural ==
  ASSUME NEW S \in SUBSET Nat, S # {}
  PROVE  Least(S) \in S /\ \A y \in S : Least(S) <= y
<1> DEFINE R == OpToRel(<, Nat)
<1>1. IsWellFoundedOn(R, Nat)
  BY NatLessThanWellFounded
<1>2. PICK x \in S : \A y \in S : <<y, x>> \notin R
  <2> HIDE DEF R
  <2> QED BY <1>1, WFMin
<1>3. \A y \in S : x <= y
  <2> SUFFICES ASSUME NEW y \in S, ~(x <= y) PROVE FALSE
    OBVIOUS
  <2>1. y < x
    OBVIOUS
  <2> QED BY <2>1, <1>2 DEF OpToRel
<1> QED BY <1>3 DEF Least

LEMMA LeastOfTwo ==
  ASSUME NEW a \in Nat, NEW b \in Nat
  PROVE  /\ Least({a, b}) \in Nat /\ Least({a, b}) <= a /\ Least({a, b}) <= b
         /\ Least({a, b}) \in {a, b}
<1>1. {a, b} \in SUBSET Nat /\ {a, b} # {} /\ a \in {a, b} /\ b \in {a, b}
  OBVIOUS
<1> QED BY <1>1, LeastNatural

(* The greatest of a bounded set. *)
LEMMA GreatestExists ==
  ASSUME NEW m \in Nat, NEW S \in SUBSET (0 .. m), S # {}
  PROVE  \E x \in S : \A y \in S : y <= x
<1> DEFINE R == {m - y : y \in S}
<1>1. R \in SUBSET Nat /\ R # {}
  <2>1. \A y \in S : m - y \in Nat
    OBVIOUS
  <2> QED BY <2>1
<1>2. Least(R) \in R /\ \A d \in R : Least(R) <= d
  <2> HIDE DEF R
  <2> QED BY <1>1, LeastNatural
<1>3. PICK x \in S : Least(R) = m - x
  BY <1>2
<1>4. \A y \in S : m - x <= m - y
  BY <1>2, <1>3
<1> QED BY <1>4

LEMMA MsIs ==
  ASSUME WholeMs, NEW t \in Int
  PROVE  Ms(t) = t
BY DEF WholeMs, Ms

LEMMA OldestIs ==
  ASSUME WholeMs, NEW S \in SUBSET Nat
  PROVE  OldestMs(S) = Least(S) /\ {Ms(r) : r \in S} = S
<1>1. \A r \in S : Ms(r) = r
  BY MsIs
<1>2. {Ms(r) : r \in S} = S
  BY <1>1
<1> QED BY <1>2 DEF OldestMs

LEMMA Finite ==
  ASSUME NEW m \in Nat, NEW S \in SUBSET (0 .. m)
  PROVE  IsFiniteSet(S) /\ Cardinality(S) \in Nat
<1>1. IsFiniteSet(0 .. m)
  BY FS_Interval
<1>2. IsFiniteSet(S)
  BY <1>1, FS_Subset
<1> QED BY <1>2, FS_CardinalityType

(* What the n newest of S are. *)
LEMMA NewestAre ==
  ASSUME NEW m \in Nat, NEW S \in SUBSET (0 .. m), NEW n \in Nat, NEW T \in Newest(S, n, 1)
  PROVE  /\ T \subseteq S /\ Cardinality(T) \in Nat /\ Cardinality(T) <= n
         /\ Cardinality(S) <= n => T = S
         /\ S # {} /\ n # 0 => T # {}
         /\ \A q \in S \ T : \A r \in T : q < r
         /\ T # {} => Least(T) \in T /\ \A q \in S \ T : q < Least(T)
<1>1. T \subseteq S /\ Cardinality(T) = Least({n, Cardinality(S)})
      /\ \A r \in T, q \in S \ T : q \div 1 <= r \div 1
  BY DEF Newest
<1>2. IsFiniteSet(S) /\ Cardinality(S) \in Nat
  BY Finite
<1>3. Cardinality(T) \in Nat /\ Cardinality(T) <= n /\ Cardinality(T) \in {n, Cardinality(S)}
      /\ Cardinality(T) <= Cardinality(S)
  BY <1>1, <1>2, LeastOfTwo
<1>4. Cardinality(S) <= n => T = S
  <2>1. Cardinality(S) <= n => Cardinality(S) = Cardinality(T)
    BY <1>2, <1>3
  <2> QED BY <1>1, <1>2, <2>1, FS_Subset
<1>5. S # {} /\ n # 0 => T # {}
  BY <1>2, <1>3, FS_EmptySet
<1>6. \A q \in S \ T : \A r \in T : q < r
  BY <1>1
<1>7. T # {} => Least(T) \in T
  <2>1. T \in SUBSET Nat
    BY <1>1
  <2> QED BY <2>1, LeastNatural
<1> QED BY <1>1, <1>3, <1>4, <1>5, <1>6, <1>7
-----------------------------------------------------------------------------
LEMMA IdleLoadFits ==
  ASSUME now \in Tick
  PROVE  /\ IdleLoad \in Load /\ Fits(IdleLoad, now, db)
         /\ IdleLoad.pc = "idle" /\ ~IdleLoad.stale /\ IdleLoad.gaps = {}
<1>1. 0 \in Tick /\ 0 \in -1 .. MaxTick /\ 0 \in Nat
  BY BoundsAssumption DEF Tick
<1>2. IdleLoad \in Load
  BY <1>1 DEF IdleLoad, Load
<1>3. IdleLoad.pc = "idle" /\ IdleLoad.stale = FALSE /\ IdleLoad.gaps = {} /\ IdleLoad.rows = {}
      /\ IdleLoad.cursor = 0
  BY DEF IdleLoad
<1>4. Fits(IdleLoad, now, db)
  <2> HIDE DEF IdleLoad
  <2> QED BY <1>3 DEF Fits, Tick
<1> QED BY <1>2, <1>3, <1>4

(* The gaps of a load lie between natural numbers up to now. *)
InPast(gaps) == \A g \in gaps : g[1] <= g[2] /\ g[2] <= now

(* What a load goes on as when it does not store at once: it is finished or
   asks for what has a place in the past. *)
GoesOn(nx) == nx \in Load /\ Fits(nx, now, db) /\ nx.pc \in {"idle", "fetch"}

LEMMA NextGapFits ==
  ASSUME now \in Tick, NEW ld \in Load, InPast(ld.gaps), NEW b
  PROVE  GoesOn(NextGap(ld, b)) /\ ~NextGap(ld, b).stale
<1> DEFINE nx == NextGap(ld, b)
<1>1. CASE nx = IdleLoad
  BY <1>1, IdleLoadFits DEF GoesOn
<1>2. CASE nx # IdleLoad
  <2> DEFINE latest(x) == \A y \in ld.gaps : y[1] <= x[1]
             g == CHOOSE x \in ld.gaps : latest(x)
  <2>1. ld.gaps # {} /\ ld.left # 0 /\ ~ld.stale
        /\ nx = [ld EXCEPT !.pc = "fetch", !.start = g[1], !.cursor = g[2],
                           !.gaps = ld.gaps \ {g}, !.rows = {}]
    BY <1>2 DEF NextGap, Invalidated
  <2>2. \E x \in ld.gaps : latest(x)
    <3> DEFINE S == {y[1] : y \in ld.gaps}
    <3>1. S \in SUBSET (0 .. MaxTick) /\ S # {}
      BY <2>1 DEF Load, Tick
    <3>2. PICK n \in S : \A k \in S : k <= n
      <4> HIDE DEF S
      <4> QED BY <3>1, GreatestExists, BoundsAssumption
    <3> QED BY <3>2
  <2>3. g \in ld.gaps
    <3> HIDE DEF latest
    <3> QED BY <2>2
  <2> HIDE DEF g, nx
  <2>4. g[1] \in Tick /\ g[2] \in Tick /\ g[1] <= g[2] /\ g[2] <= now
    BY <2>3 DEF Load, InPast
  <2>5. nx.pc = "fetch" /\ nx.start = g[1] /\ nx.cursor = g[2] /\ nx.gaps = ld.gaps \ {g} /\ nx.rows = {}
        /\ nx.left = ld.left /\ nx.stale = ld.stale
    BY <2>1 DEF Load
  <2>6. g[2] \in -1 .. MaxTick /\ {} \in SUBSET Tick
    BY <2>4 DEF Tick
  <2>7. nx \in Load
    <3>1. ld.gaps \ {g} \in SUBSET (Tick \X Tick)
      BY DEF Load
    <3> QED BY <2>1, <2>4, <2>6, <3>1 DEF Load
  <2>8. Fits(nx, now, db)
    BY <2>1, <2>4, <2>5 DEF Fits, InPast
  <2> QED BY <2>1, <2>5, <2>7, <2>8 DEF GoesOn, nx
<1> QED BY <1>1, <1>2

LEMMA NextRequestFits ==
  ASSUME now \in Tick, NEW ld \in Load, InPast(ld.gaps), ld.cursor <= now, NEW b
  PROVE  GoesOn(NextRequest(ld, b)) /\ (NextRequest(ld, b).stale => ld.stale)
<1> DEFINE nx == NextRequest(ld, b)
<1>1. CASE ld.cursor >= ld.start /\ ld.left > 0 /\ ~BufferFullBreak(ld, ld.cursor, b)
  <2>1. nx = [ld EXCEPT !.pc = "fetch", !.rows = {}]
    BY <1>1 DEF NextRequest
  <2> HIDE DEF nx
  <2>2. nx \in Load
    BY <2>1 DEF Load
  <2>3. nx.pc = "fetch" /\ nx.rows = {} /\ nx.cursor = ld.cursor /\ nx.start = ld.start
        /\ nx.left = ld.left /\ nx.gaps = ld.gaps /\ nx.stale = ld.stale
    BY <2>1 DEF Load
  <2>4. ld.left # 0 /\ ld.start <= ld.cursor
    BY <1>1 DEF Load, Tick
  <2>5. Fits(nx, now, db)
    BY <2>3, <2>4 DEF Fits, InPast
  <2> QED BY <2>2, <2>3, <2>5 DEF GoesOn, nx
<1>2. CASE ~(ld.cursor >= ld.start /\ ld.left > 0 /\ ~BufferFullBreak(ld, ld.cursor, b))
  <2>1. nx = NextGap(ld, b)
    BY <1>2 DEF NextRequest
  <2> QED BY <2>1, NextGapFits
<1> QED BY <1>1, <1>2

LEMMA GapsInPast ==
  ASSUME now \in Tick, NEW c, NEW from \in 0 .. now, NEW to \in 0 .. now
  PROVE  Gaps(c, from, to) \in SUBSET (Tick \X Tick) /\ InPast(Gaps(c, from, to))
<1> SUFFICES ASSUME NEW g \in Gaps(c, from, to)
             PROVE  g \in Tick \X Tick /\ g[1] <= g[2] /\ g[2] <= now
  BY DEF InPast
<1>1. g \in (from .. to) \X (from .. to) /\ g[1] <= g[2]
  BY DEF Gaps, Missing
<1>2. \A p \in from .. to : p \in Tick /\ p <= now
  BY BoundsAssumption DEF Tick
<1> QED BY <1>1, <1>2

LEMMA FillGapsFits ==
  ASSUME now \in Tick, NEW c, NEW b, NEW from \in 0 .. now, NEW to \in 0 .. now,
         NEW budget \in Nat, NEW skip \in BOOLEAN
  PROVE  GoesOn(FillGaps(c, b, from, to, budget, skip)) /\ ~FillGaps(c, b, from, to, budget, skip).stale
<1> DEFINE gs == Gaps(c, from, to)
           ld == [IdleLoad EXCEPT !.gaps = gs, !.left = budget, !.skip = skip]
<1>1. gs \in SUBSET (Tick \X Tick) /\ InPast(gs)
  BY GapsInPast
<1>2. IdleLoad \in Load
  BY IdleLoadFits
<1>3. FillGaps(c, b, from, to, budget, skip) = NextGap(ld, b)
  BY DEF FillGaps
<1> HIDE DEF gs
<1>4. ld \in Load /\ ld.gaps = gs
  <2> HIDE DEF IdleLoad
  <2> QED BY <1>1, <1>2 DEF Load
<1> HIDE DEF ld
<1> QED BY <1>1, <1>3, <1>4, NextGapFits
-----------------------------------------------------------------------------
(* The queue of IndexedDB operations. *)
LEMMA Appended ==
  ASSUME NEW q \in Seq(IdbOp), NEW o \in IdbOp
  PROVE  /\ Append(q, o) \in Seq(IdbOp) /\ Len(q) \in Nat /\ DOMAIN q = 1 .. Len(q)
         /\ Len(Append(q, o)) = Len(q) + 1 /\ DOMAIN Append(q, o) = 1 .. Len(q) + 1
         /\ \A i \in 1 .. Len(q) : Append(q, o)[i] = q[i]
         /\ Append(q, o)[Len(q) + 1] = o
OBVIOUS

LEMMA OpFields ==
  ASSUME NEW q \in Seq(IdbOp), NEW i \in DOMAIN q
  PROVE  /\ q[i] \in IdbOp /\ q[i].by \in LoadId \cup {Live} /\ q[i].min \in Int /\ q[i].rows \in SUBSET Tick
         /\ q[i].op \in {"store", "read", "clear", "evictToSize", "evictBefore"}
<1>1. q[i] \in IdbOp
  OBVIOUS
<1> QED BY <1>1 DEF IdbOp

LEMMA Taken ==
  ASSUME NEW q \in Seq(IdbOp), q # <<>>
  PROVE  /\ Tail(q) \in Seq(IdbOp) /\ Len(q) \in Nat /\ DOMAIN q = 1 .. Len(q) /\ Len(q) >= 1
         /\ Len(Tail(q)) = Len(q) - 1 /\ DOMAIN Tail(q) = 1 .. Len(q) - 1
         /\ \A i \in 1 .. Len(q) - 1 : Tail(q)[i] = q[i + 1]
         /\ Head(q) = q[1] /\ Head(q) \in IdbOp
OBVIOUS

LEMMA AppendedTwice ==
  ASSUME NEW q \in Seq(IdbOp), NEW o \in IdbOp, NEW p \in IdbOp
  PROVE  q \o <<o, p>> = Append(Append(q, o), p)
OBVIOUS

(* An operation that no load waits for. *)
LEMMA QueuesOther ==
  ASSUME NEW q \in Seq(IdbOp), NEW o \in IdbOp, NEW ld, NEW t, QueueRight(q, ld, t),
         OpRight(o, ld, t), o.by = Live
  PROVE  QueueRight(Append(q, o), ld, t)
<1> DEFINE p == Append(q, o)
<1>1. /\ Len(q) \in Nat /\ DOMAIN q = 1 .. Len(q) /\ DOMAIN p = 1 .. Len(q) + 1
      /\ \A i \in 1 .. Len(q) : p[i] = q[i]
      /\ p[Len(q) + 1] = o
  BY Appended
<1> HIDE DEF p
<1> SUFFICES QueueRight(p, ld, t)
  BY DEF p
<1>2. \A i \in DOMAIN p : OpRight(p[i], ld, t)
  BY <1>1 DEF QueueRight
<1>3. \A i, j \in DOMAIN p : p[i].by = p[j].by /\ p[i].by # Live => i = j
  BY <1>1 DEF QueueRight
<1> QED BY <1>2, <1>3 DEF QueueRight

(* A load that did not wait goes on as ld[l] says, and that is to wait for o. *)
LEMMA QueuesOwn ==
  ASSUME NEW q \in Seq(IdbOp), NEW o \in IdbOp, NEW old, NEW ld, NEW t, QueueRight(q, old, t),
         NEW l \in LoadId, ~Waiting(old[l]), \A k \in LoadId \ {l} : ld[k] = old[k],
         OpRight(o, ld, t), o.by = l
  PROVE  QueueRight(Append(q, o), ld, t)
<1> DEFINE p == Append(q, o)
<1>1. /\ Len(q) \in Nat /\ DOMAIN q = 1 .. Len(q) /\ DOMAIN p = 1 .. Len(q) + 1
      /\ \A i \in 1 .. Len(q) : p[i] = q[i]
      /\ p[Len(q) + 1] = o
  BY Appended
<1>2. \A i \in DOMAIN q : q[i].by \in LoadId \cup {Live}
  BY OpFields
<1>3. \A i \in DOMAIN q : q[i].by # l
  BY <1>2 DEF QueueRight, OpRight, Serves, Waiting, LoadId, Live
<1> HIDE DEF p
<1> SUFFICES QueueRight(p, ld, t)
  BY DEF p
<1>4. \A i \in DOMAIN q : OpRight(q[i], ld, t)
  BY <1>2, <1>3 DEF QueueRight, OpRight
<1>5. \A i \in DOMAIN p : OpRight(p[i], ld, t)
  BY <1>1, <1>4
<1>6. \A i, j \in DOMAIN p : p[i].by = p[j].by /\ p[i].by # Live => i = j
  BY <1>1, <1>3 DEF QueueRight
<1> QED BY <1>5, <1>6 DEF QueueRight

(* The oldest operation completes: nobody waits for it, or l has. *)
LEMMA CompletesOther ==
  ASSUME NEW q \in Seq(IdbOp), NEW ld, NEW t, QueueRight(q, ld, t), q # <<>>
  PROVE  QueueRight(Tail(q), ld, t)
<1> DEFINE p == Tail(q)
<1>1. /\ Len(q) \in Nat /\ DOMAIN q = 1 .. Len(q) /\ DOMAIN p = 1 .. Len(q) - 1
      /\ \A i \in 1 .. Len(q) - 1 : p[i] = q[i + 1]
  BY Taken
<1> HIDE DEF p
<1> SUFFICES QueueRight(p, ld, t)
  BY DEF p
<1>2. \A i \in DOMAIN p : i + 1 \in DOMAIN q /\ p[i] = q[i + 1]
  BY <1>1
<1>3. \A i \in DOMAIN p : OpRight(p[i], ld, t)
  BY <1>2 DEF QueueRight
<1>4. \A i, j \in DOMAIN p : p[i].by = p[j].by /\ p[i].by # Live => i = j
  <2> TAKE i, j \in DOMAIN p
  <2>1. q[i + 1].by = q[j + 1].by /\ q[i + 1].by # Live => i + 1 = j + 1
    BY <1>2 DEF QueueRight
  <2> QED BY <2>1, <1>1, <1>2
<1> QED BY <1>3, <1>4 DEF QueueRight

LEMMA CompletesOwn ==
  ASSUME NEW q \in Seq(IdbOp), NEW old, NEW ld, NEW t, QueueRight(q, old, t), q # <<>>,
         NEW l \in LoadId, Head(q).by = l, \A k \in LoadId \ {l} : ld[k] = old[k]
  PROVE  QueueRight(Tail(q), ld, t)
<1> DEFINE p == Tail(q)
<1>1. /\ Len(q) \in Nat /\ DOMAIN q = 1 .. Len(q) /\ DOMAIN p = 1 .. Len(q) - 1 /\ Len(q) >= 1
      /\ \A i \in 1 .. Len(q) - 1 : p[i] = q[i + 1]
      /\ q[1].by = l
  BY Taken
<1>2. QueueRight(p, old, t)
  BY CompletesOther
<1> HIDE DEF p
<1> SUFFICES QueueRight(p, ld, t)
  BY DEF p
<1>3. \A i \in DOMAIN p : i + 1 \in DOMAIN q /\ p[i] = q[i + 1] /\ i + 1 # 1 /\ 1 \in DOMAIN q
  BY <1>1
<1>4. \A i \in DOMAIN p : p[i].by # l
  <2> TAKE i \in DOMAIN p
  <2>1. q[i + 1].by = q[1].by /\ q[i + 1].by # Live => i + 1 = 1
    BY <1>3 DEF QueueRight
  <2>2. l # Live
    BY DEF LoadId, Live
  <2> QED BY <1>1, <1>3, <2>1, <2>2
<1>5. \A i \in DOMAIN p : p[i].by \in LoadId \cup {Live}
  BY <1>3, OpFields
<1>6. \A i \in DOMAIN p : OpRight(p[i], ld, t)
  BY <1>2, <1>4, <1>5 DEF QueueRight, OpRight
<1> QED BY <1>2, <1>6 DEF QueueRight

(* A load that nothing waits for goes on. *)
LEMMA QueueStays ==
  ASSUME NEW q \in Seq(IdbOp), NEW old, NEW ld, NEW t, QueueRight(q, old, t),
         NEW l \in LoadId, ~Waiting(old[l]), \A k \in LoadId \ {l} : ld[k] = old[k]
  PROVE  QueueRight(q, ld, t)
<1>1. \A i \in DOMAIN q : q[i].by \in LoadId \cup {Live}
  BY OpFields
<1>2. \A i \in DOMAIN q : q[i].by # l
  BY <1>1 DEF QueueRight, OpRight, Serves, Waiting, LoadId, Live
<1>3. \A i \in DOMAIN q : OpRight(q[i], ld, t)
  BY <1>1, <1>2 DEF QueueRight, OpRight
<1> QED BY <1>3 DEF QueueRight

(* The loads still wait for the same, and time passes. *)
LEMMA QueueKeeps ==
  ASSUME NEW q \in Seq(IdbOp), NEW old, NEW ld, NEW t \in Nat, NEW u \in Nat, t <= u,
         QueueRight(q, old, t),
         \A l \in LoadId : ld[l].pc = old[l].pc /\ ld[l].rows = old[l].rows
  PROVE  QueueRight(q, ld, u)
<1>1. \A i \in DOMAIN q : q[i].by \in LoadId \cup {Live} /\ q[i].min \in Int
  BY OpFields
<1>2. \A i \in DOMAIN q : OpRight(q[i], ld, u)
  BY <1>1, BoundsAssumption DEF QueueRight, OpRight, Serves
<1> QED BY <1>2 DEF QueueRight
-----------------------------------------------------------------------------
(* The coverage operations. *)
LEMMA AddCovers ==
  ASSUME NEW t \in Nat, NEW c \in CoversTo(t), NEW s \in Nat, NEW e \in Int, e <= t
  PROVE  /\ Add(c, s, e) \in CoversTo(t)
         /\ Add(c, s, e).pts = c.pts \cup (s .. e) /\ Add(c, s, e).live = c.live
<1>1. Add(c, s, e) = [c EXCEPT !.pts = c.pts \cup (s .. e)]
  BY DEF Add
<1>2. c.pts \cup (s .. e) \in SUBSET (0 .. t)
  BY DEF CoversTo
<1> QED BY <1>1, <1>2 DEF CoversTo

LEMMA ExtendCovers ==
  ASSUME NEW t \in Nat, NEW c \in CoversTo(t), NEW s \in 0 .. t
  PROVE  /\ ExtendLive(c, s) \in CoversTo(t) /\ ExtendLive(c, s).live = s
         /\ \A p \in ExtendLive(c, s).pts :
              \/ p \in c.pts \/ p = s
              \/ c.live # NoLive /\ c.live <= p
         /\ s \in ExtendLive(c, s).pts \/ (c.live # NoLive /\ s < c.live)
         /\ c.pts \subseteq ExtendLive(c, s).pts
<1> DEFINE from == IF c.live = NoLive THEN s ELSE c.live
           ps == c.pts \cup (from .. s)
<1>1. ExtendLive(c, s) = [pts |-> ps, live |-> s]
  BY DEF ExtendLive
<1>2. from \in 0 .. t /\ c.pts \in SUBSET (0 .. t)
  BY DEF CoversTo
<1>3. ps \in SUBSET (0 .. t)
  BY <1>2
<1>4. \A p \in from .. s : p = s \/ (c.live # NoLive /\ c.live <= p)
  OBVIOUS
<1>5. s \in from .. s \/ (c.live # NoLive /\ s < c.live)
  BY <1>2
<1> HIDE DEF from
<1>6. ExtendLive(c, s) \in CoversTo(t)
  BY <1>1, <1>3 DEF CoversTo
<1> QED BY <1>1, <1>4, <1>5, <1>6

LEMMA TrimCovers ==
  ASSUME NEW t \in Nat, NEW c \in CoversTo(t), NEW m \in Int, m <= t
  PROVE  /\ Trim(c, m) \in CoversTo(t)
         /\ Trim(c, m).pts = {p \in c.pts : p >= m}
         /\ Trim(c, m).live = NoLive <=> c.live = NoLive
         /\ c.live # NoLive => Trim(c, m).live >= m /\ Trim(c, m).live >= c.live
<1> DEFINE ps == {p \in c.pts : p >= m}
           lv == IF c.live # NoLive /\ c.live < m THEN m ELSE c.live
<1>1. Trim(c, m) = [pts |-> ps, live |-> lv]
  BY DEF Trim
<1>2. c.pts \in SUBSET (0 .. t) /\ c.live \in 0 .. t \cup {NoLive}
  BY DEF CoversTo
<1>3. ps \in SUBSET (0 .. t)
  BY <1>2
<1>4. lv \in 0 .. t \cup {NoLive}
  BY <1>2
<1>5. lv = NoLive <=> c.live = NoLive
  BY NoLiveAssumption
<1>6. c.live # NoLive => lv >= m /\ lv >= c.live
  BY <1>2
<1> HIDE DEF ps, lv
<1>7. Trim(c, m) \in CoversTo(t)
  BY <1>1, <1>3, <1>4 DEF CoversTo
<1> QED BY <1>1, <1>5, <1>6, <1>7 DEF ps

LEMMA OtherCovers ==
  ASSUME NEW t \in Nat, NEW c \in CoversTo(t)
  PROVE  /\ CloseLive(c) \in CoversTo(t) /\ CloseLive(c).pts = c.pts /\ CloseLive(c).live = NoLive
         /\ Empty \in CoversTo(t) /\ Empty.pts = {} /\ Empty.live = NoLive
         /\ \A u \in Nat : t <= u => c \in CoversTo(u)
         /\ c.pts \in SUBSET (0 .. t) /\ c.live \in 0 .. t \cup {NoLive}
<1>1. CloseLive(c) \in CoversTo(t) /\ CloseLive(c).pts = c.pts /\ CloseLive(c).live = NoLive
  BY DEF CloseLive, CoversTo
<1>2. Empty \in CoversTo(t) /\ Empty.pts = {} /\ Empty.live = NoLive
  BY DEF Empty, CoversTo
<1>3. ASSUME NEW u \in Nat, t <= u PROVE c \in CoversTo(u)
  <2>1. \A p \in 0 .. t : p \in 0 .. u
    BY <1>3
  <2>2. SUBSET (0 .. t) \subseteq SUBSET (0 .. u) /\ 0 .. t \cup {NoLive} \subseteq 0 .. u \cup {NoLive}
    BY <2>1
  <2> QED BY <2>2 DEF CoversTo
<1>4. c.pts \in SUBSET (0 .. t) /\ c.live \in 0 .. t \cup {NoLive}
  BY DEF CoversTo
<1> QED BY <1>1, <1>2, <1>3, <1>4

LEMMA RestoredCovers ==
  ASSUME NEW t \in Nat, NEW p \in SUBSET (0 .. t)
  PROVE  /\ RestoredCoverage(p) \in CoversTo(t) /\ RestoredCoverage(p).live = NoLive
         /\ RestoredCoverage(p).pts \subseteq p
<1> DEFINE ps == IF Restore THEN p ELSE {}
<1>1. RestoredCoverage(p) = [pts |-> ps, live |-> NoLive]
  BY DEF RestoredCoverage, Empty
<1>2. ps \in SUBSET (0 .. t) /\ ps \subseteq p
  OBVIOUS
<1> HIDE DEF ps
<1> QED BY <1>1, <1>2 DEF CoversTo

LEMMA Saves ==
  ASSUME NEW c, NEW q
  PROVE  SaveCoverage(c, q) = c.pts \/ SaveCoverage(c, q) = saved
BY DEF SaveCoverage

LEMMA SavesPast ==
  ASSUME NEW t \in Nat, saved \subseteq 0 .. t, NEW c \in CoversTo(t), NEW q
  PROVE  SaveCoverage(c, q) \subseteq 0 .. t
<1>1. c.pts \subseteq 0 .. t
  BY OtherCovers
<1> QED BY <1>1 DEF SaveCoverage

LEMMA Shows ==
  ASSUME NEW new, NEW b \in BufferWith(new)
  PROVE  b \subseteq buf \cup new
BY DEF BufferWith, Newest

LEMMA MountedFits ==
  ASSUME now \in Tick
  PROVE  /\ MountedLoads \in [LoadId -> Load]
         /\ \A l \in LoadId : /\ Fits(MountedLoads[l], now, db) /\ ~MountedLoads[l].stale
                              /\ MountedLoads[l].pc \in {"info", "idle"}
<1>1. IdleLoad \in Load /\ Fits(IdleLoad, now, db) /\ ~IdleLoad.stale
  BY IdleLoadFits
<1> DEFINE mounted(pc) == [IdleLoad EXCEPT !.pc = pc]
<1>2. \A pc \in {"info", "idle"} :
         /\ mounted(pc) \in Load /\ mounted(pc).pc = pc /\ mounted(pc).stale = IdleLoad.stale
         /\ mounted(pc).gaps = IdleLoad.gaps /\ mounted(pc).rows = IdleLoad.rows
         /\ mounted(pc).cursor = IdleLoad.cursor
  <2> HIDE DEF IdleLoad
  <2> QED BY <1>1 DEF Load
<1>3. \A l \in LoadId : \E pc \in {"info", "idle"} : MountedLoads[l] = mounted(pc)
  BY DEF MountedLoads
<1> HIDE DEF mounted
<1>4. \A pc \in {"info", "idle"} : Fits(mounted(pc), now, db)
  BY <1>1, <1>2 DEF Fits
<1>5. MountedLoads = [l \in LoadId |-> MountedLoads[l]]
  BY DEF MountedLoads
<1>6. \A l \in LoadId : MountedLoads[l] \in Load
  BY <1>2, <1>3
<1>7. MountedLoads \in [LoadId -> Load]
  BY <1>5, <1>6
<1> QED BY <1>1, <1>2, <1>3, <1>4, <1>7

LEMMA InitBase == Init => Base
<1> SUFFICES ASSUME Init PROVE Base
  OBVIOUS
<1>1. now = 0 /\ 0 \in Tick /\ 0 \in Nat /\ 0 \in 0 .. now
  BY BoundsAssumption DEF Init, Tick
<1>2. db \subseteq 0 .. now /\ wire \subseteq 0 .. now /\ pend \subseteq 0 .. now /\ idb \subseteq 0 .. now
      /\ buf \subseteq 0 .. now /\ saved \subseteq 0 .. now
  BY <1>1 DEF Init
<1>3. cov \in CoversTo(now)
  BY <1>1, RestoredCovers DEF Init
<1>4. loads \in [LoadId -> Load] /\ LoadsFit(loads, now, db)
  BY <1>1, MountedFits DEF Init, LoadsFit
<1>5. ops \in Seq(IdbOp) /\ QueueRight(ops, loads, now)
  BY DEF Init, QueueRight
<1>6. Retained
  BY <1>1, BoundsAssumption DEF Init, Retained
<1>7. up \in BOOLEAN /\ conn \in BOOLEAN /\ trimTo \in 0 .. now \cup {NoLive}
  BY DEF Init
<1>8. Typed
  BY <1>1, <1>2, <1>3, <1>4, <1>5, <1>7 DEF Typed, CoversTo
<1> QED BY <1>4, <1>5, <1>6, <1>8 DEF Base
-----------------------------------------------------------------------------
(* One load goes on as x. *)
LEMMA LoadBecomes ==
  ASSUME NEW t, NEW d, LoadsFit(loads, t, d), NEW l \in LoadId, NEW x \in Load, Fits(x, t, d)
  PROVE  LET next == [loads EXCEPT ![l] = x] IN
           LoadsFit(next, t, d) /\ next[l] = x /\ \A k \in LoadId \ {l} : next[k] = loads[k]
<1> DEFINE next == [loads EXCEPT ![l] = x]
<1>1. next \in [LoadId -> Load] /\ next[l] = x /\ \A k \in LoadId \ {l} : next[k] = loads[k]
  BY DEF LoadsFit
<1> HIDE DEF next
<1>2. \A k \in LoadId : Fits(next[k], t, d)
  BY <1>1 DEF LoadsFit
<1> QED BY <1>1, <1>2 DEF LoadsFit, next

LEMMA FreeIs ==
  ASSUME MayLoad
  PROVE  FreeLoad \in LoadId /\ loads[FreeLoad].pc = "idle"
<1>1. 1 \in LoadId
  BY BoundsAssumption DEF LoadId
<1>2. Idle # {} /\ Idle \in SUBSET Nat
  BY <1>1 DEF MayLoad, Idle, LoadId
<1>3. FreeLoad \in Idle
  BY <1>2, LeastNatural DEF FreeLoad
<1> QED BY <1>3 DEF Idle

LEMMA Clock ==
  ASSUME WholeMs, Typed
  PROVE  /\ now \in Nat /\ now \in Int /\ NowMs = now /\ now \in 0 .. now /\ now <= MaxTick
         /\ \A S \in SUBSET (0 .. now) : S \in SUBSET Nat /\ S \in SUBSET Tick /\ OldestMs(S) = Least(S)
         /\ \A S \in SUBSET (0 .. now) : S # {} => Least(S) \in S /\ \A y \in S : Least(S) <= y
<1>1. now \in Nat /\ now \in Int /\ now <= MaxTick /\ now \in 0 .. now
  BY BoundsAssumption DEF Typed, Tick
<1>2. NowMs = now
  BY <1>1, MsIs DEF NowMs
<1>3. ASSUME NEW S \in SUBSET (0 .. now) PROVE S \in SUBSET Nat /\ S \in SUBSET Tick
  BY <1>1, BoundsAssumption DEF Tick
<1>4. ASSUME NEW S \in SUBSET (0 .. now) PROVE OldestMs(S) = Least(S)
  BY <1>3, OldestIs
<1>5. ASSUME NEW S \in SUBSET (0 .. now), S # {} PROVE Least(S) \in S /\ \A y \in S : Least(S) <= y
  BY <1>3, <1>5, LeastNatural
<1> QED BY <1>1, <1>2, <1>3, <1>4, <1>5

(* A row that has come since the last tick is newer than all that is known. *)
LEMMA FitsLater ==
  ASSUME NEW t \in Nat, NEW d, NEW e, NEW ld \in Load, Fits(ld, t, d),
         \A r \in e : r \in d \/ r = t + 1
  PROVE  Fits(ld, t + 1, e)
<1>1. ld.cursor \in Int /\ ld.start \in Nat /\ ld.rows \in SUBSET Nat /\ ld.gaps \in SUBSET (Nat \X Nat)
  BY DEF Load, Tick
<1>2. \A r \in Claimed(ld) : r <= ld.cursor
  <2>1. ld.pc = "store" /\ ld.limitReached => Least(ld.rows) \in Int
    <3>1. ld.pc = "store" => ld.rows # {}
      BY DEF Fits, KnowsAll
    <3> QED BY <1>1, <3>1, LeastNatural
  <2> QED BY <1>1, <2>1 DEF Claimed
<1>3. ld.pc = "store" => KnowsAll(ld, e)
  <2> HAVE ld.pc = "store"
  <2>1. KnowsAll(ld, d) /\ ld.cursor <= t
    BY DEF Fits
  <2>2. \A r \in e : r \in Claimed(ld) => r \in d
    BY <1>1, <1>2, <2>1
  <2> QED BY <2>1, <2>2 DEF KnowsAll
<1>4. ld.cursor <= t + 1 /\ ld.rows \subseteq 0 .. t + 1
      /\ \A g \in ld.gaps : g[1] <= g[2] /\ g[2] <= t + 1
  BY <1>1 DEF Fits
<1> QED BY <1>3, <1>4 DEF Fits

LEMMA AdvanceBase ==
  ASSUME WholeMs, Base, Advance
  PROVE  Base'
<1> USE DEF Base
<1>1. /\ now \in Nat /\ now' = now + 1 /\ now' \in Tick
      /\ UNCHANGED <<env, up, conn, buf, pend, cov, saved, idb, ops, trimTo, loads>>
  BY BoundsAssumption DEF Advance, Typed, Tick
<1>2. PICK tel \in SUBSET {now + 1} :
        /\ db' = {r \in db \cup tel : Ms(r) >= Ms(now + 1) - Retention}
        /\ wire' = IF up THEN wire \cup tel ELSE wire
  BY DEF Advance
<1>3. db \cup tel \in SUBSET Int
  BY <1>1 DEF Typed
<1>4. db' = {r \in db \cup tel : r >= now' - Retention}
  <2>1. \A r \in db \cup tel : Ms(r) = r
    BY <1>3, MsIs
  <2>2. Ms(now + 1) = now'
    BY <1>1, MsIs
  <2> QED BY <1>2, <2>1, <2>2
<1>5. \A r \in db' : r \in db \/ r = now + 1
  BY <1>4
<1>6. \A p \in 0 .. now : p \in 0 .. now'
  BY <1>1
<1>7. cov' \in CoversTo(now') /\ trimTo' \in 0 .. now' \cup {NoLive}
  BY <1>1, <1>6, OtherCovers DEF Typed
<1>8. db' \subseteq 0 .. now'
  <2>1. now + 1 \in 0 .. now'
    BY <1>1
  <2>2. db \subseteq 0 .. now
    BY DEF Typed
  <2> QED BY <1>5, <1>6, <2>1, <2>2
<1>9. wire' \subseteq 0 .. now'
  BY <1>1, <1>2, <1>6 DEF Typed
<1>10. Typed'
  BY <1>1, <1>6, <1>7, <1>8, <1>9 DEF Typed
<1>11. Retained'
  BY <1>4 DEF Retained
<1>12. LoadsFit(loads, now, db)'
  <2>1. \A l \in LoadId : Fits(loads[l], now + 1, db')
    BY <1>1, <1>5, FitsLater DEF LoadsFit
  <2> QED BY <1>1, <2>1 DEF LoadsFit
<1>13. QueueRight(ops, loads, now)'
  <2>1. QueueRight(ops, loads, now')
    BY <1>1, QueueKeeps DEF Typed
  <2> QED BY <1>1, <2>1
<1> QED BY <1>10, <1>11, <1>12, <1>13

(* A batch of rows is written for nobody. *)
LEMMA StoresLive ==
  ASSUME Typed, NEW q \in Seq(IdbOp), QueueRight(q, loads, now), NEW rows \in SUBSET (0 .. now)
  PROVE  /\ Append(q, StoreOp(rows, Live)) \in Seq(IdbOp)
         /\ QueueRight(Append(q, StoreOp(rows, Live)), loads, now)
         /\ StoreOp(rows, Live) \in IdbOp
<1> DEFINE o == StoreOp(rows, Live)
<1>1. rows \in SUBSET Tick
  BY BoundsAssumption DEF Typed, Tick
<1>2. o \in IdbOp /\ o.op = "store" /\ o.by = Live /\ o.rows = rows
  BY <1>1 DEF StoreOp, IdbOp
<1> HIDE DEF o
<1>3. OpRight(o, loads, now)
  BY <1>2 DEF OpRight
<1>4. QueueRight(Append(q, o), loads, now) /\ Append(q, o) \in Seq(IdbOp)
  BY <1>2, <1>3, QueuesOther
<1> QED BY <1>2, <1>4 DEF o

(* Maintenance is done for nobody either. *)
LEMMA Maintains ==
  ASSUME WholeMs, Typed, NEW q \in Seq(IdbOp), QueueRight(q, loads, now),
         NEW o \in {ClearOp, EvictSizeOp, EvictBeforeOp(now - Retention)}
  PROVE  /\ o \in IdbOp /\ Append(q, o) \in Seq(IdbOp) /\ QueueRight(Append(q, o), loads, now)
         /\ OpRight(o, loads, now) /\ o.rows = {} /\ o.by = Live /\ o.op # "store" /\ o.op # "read"
<1>1. now - Retention \in Int /\ 0 \in Int /\ {} \in SUBSET Tick
  BY Clock, BoundsAssumption
<1>2. /\ ClearOp \in IdbOp /\ ClearOp.op = "clear" /\ ClearOp.by = Live /\ ClearOp.rows = {}
      /\ EvictSizeOp \in IdbOp /\ EvictSizeOp.op = "evictToSize" /\ EvictSizeOp.by = Live /\ EvictSizeOp.rows = {}
      /\ EvictBeforeOp(now - Retention) \in IdbOp /\ EvictBeforeOp(now - Retention).op = "evictBefore"
      /\ EvictBeforeOp(now - Retention).by = Live /\ EvictBeforeOp(now - Retention).rows = {}
      /\ EvictBeforeOp(now - Retention).min = now - Retention
  BY <1>1 DEF ClearOp, EvictSizeOp, EvictBeforeOp, IdbOp
<1>3. o \in IdbOp /\ o.by = Live /\ o.rows = {} /\ o.op \in {"clear", "evictToSize", "evictBefore"}
      /\ (o.op = "evictBefore" => o.min = now - Retention)
  BY <1>2
<1> HIDE DEF ClearOp, EvictSizeOp, EvictBeforeOp
<1>4. OpRight(o, loads, now)
  BY <1>1, <1>3 DEF OpRight
<1> QED BY <1>3, <1>4, QueuesOther

LEMMA AddLiveBase ==
  ASSUME WholeMs, Base, AddLive
  PROVE  Base'
<1> USE DEF Base
<1>1. UNCHANGED <<env, now, db, up, conn, saved, idb, trimTo, loads>> /\ wire # {}
  BY DEF AddLive
<1> DEFINE r == Least(wire)
<1>2. r \in wire /\ r \in 0 .. now
  BY <1>1, Clock DEF Typed
<1>3. wire' = wire \ {r}
      /\ \/ r \in buf /\ UNCHANGED <<buf, cov, pend, ops>>
         \/ /\ buf' \in BufferWith({r}) /\ cov' = ExtendLive(cov, Ms(r))
            /\ \/ pend' = {} /\ ops' = Append(ops, StoreOp(pend \cup {r}, Live))
               \/ pend' = pend \cup {r} /\ UNCHANGED ops
  BY DEF AddLive
<1>4. Ms(r) = r
  BY <1>2, MsIs
<1> HIDE DEF r
<1>5. now \in Nat
  BY Clock
<1>6. cov' \in CoversTo(now)
  <2>1. r \in 0 .. now /\ cov \in CoversTo(now)
    BY <1>2 DEF Typed
  <2>2. ExtendLive(cov, r) \in CoversTo(now)
    BY <1>5, <2>1, ExtendCovers
  <2> QED BY <1>3, <1>4, <2>1, <2>2
<1>7. buf' \subseteq 0 .. now
  <2>1. buf \subseteq 0 .. now /\ r \in 0 .. now
    BY <1>2 DEF Typed
  <2>2. buf' = buf \/ buf' \in BufferWith({r})
    BY <1>3
  <2>3. buf' \subseteq buf \cup {r}
    BY <2>2, Shows
  <2> QED BY <2>1, <2>3
<1>8. ops' \in Seq(IdbOp) /\ QueueRight(ops', loads, now)
  <2>1. pend \cup {r} \in SUBSET (0 .. now)
    BY <1>2 DEF Typed
  <2> QED BY <1>3, <2>1, StoresLive DEF Typed
<1>9. pend' \subseteq 0 .. now /\ wire' \subseteq 0 .. now
  BY <1>2, <1>3 DEF Typed
<1>10. Typed'
  BY <1>1, <1>6, <1>7, <1>8, <1>9 DEF Typed
<1> QED BY <1>1, <1>8, <1>10 DEF Retained

LEMMA FlushTickBase ==
  ASSUME WholeMs, Base, NEW evict \in BOOLEAN, FlushTick(evict)
  PROVE  Base'
<1> USE DEF Base
<1> DEFINE flushed == IF pend = {} THEN ops ELSE Append(ops, StoreOp(pend, Live))
<1>1. /\ UNCHANGED <<env, now, db, up, wire, conn, buf, idb, trimTo, loads>>
      /\ pend' = {} /\ cov' = IF conn THEN ExtendLive(cov, NowMs) ELSE cov
      /\ ops' = IF evict THEN Append(flushed, EvictSizeOp) ELSE flushed
      /\ saved' = SaveCoverage(cov', flushed)
  BY DEF FlushTick
<1>2. now \in Nat /\ NowMs = now /\ now \in 0 .. now
  BY Clock
<1>3. cov' \in CoversTo(now)
  BY <1>1, <1>2, ExtendCovers DEF Typed
<1>4. flushed \in Seq(IdbOp) /\ QueueRight(flushed, loads, now)
  BY StoresLive DEF Typed
<1> HIDE DEF flushed
<1>5. ops' \in Seq(IdbOp) /\ QueueRight(ops', loads, now)
  BY <1>1, <1>4, Maintains
<1>6. saved' \subseteq 0 .. now
  BY <1>1, <1>2, <1>3, SavesPast DEF Typed
<1>7. Typed'
  BY <1>1, <1>3, <1>5, <1>6 DEF Typed
<1> QED BY <1>1, <1>5, <1>7 DEF Retained

LEMMA TrimBase ==
  ASSUME WholeMs, Base, TrimAfterEvict
  PROVE  Base'
<1> USE DEF Base
<1>1. /\ UNCHANGED <<env, now, db, up, wire, conn, buf, pend, idb, ops, loads>>
      /\ trimTo # NoLive /\ cov' = Trim(cov, trimTo) /\ saved' = SaveCoverage(cov', ops)
      /\ trimTo' = NoLive
  BY DEF TrimAfterEvict
<1>2. now \in Nat /\ trimTo \in Int /\ trimTo <= now
  BY <1>1, Clock DEF Typed
<1>3. cov' \in CoversTo(now)
  BY <1>1, <1>2, TrimCovers DEF Typed
<1>4. saved' \subseteq 0 .. now
  BY <1>1, <1>2, <1>3, SavesPast DEF Typed
<1>5. Typed'
  BY <1>1, <1>3, <1>4 DEF Typed
<1> QED BY <1>1, <1>5 DEF Retained

(* A load that nothing waits for goes on. *)
LEMMA GoesOnBase ==
  ASSUME Base, NEW l \in LoadId, ~Waiting(loads[l]), NEW x \in Load, Fits(x, now, db)
  PROVE  LET next == [loads EXCEPT ![l] = x] IN
           /\ LoadsFit(next, now, db) /\ QueueRight(ops, next, now)
           /\ next[l] = x /\ \A k \in LoadId \ {l} : next[k] = loads[k]
<1> USE DEF Base
<1> DEFINE next == [loads EXCEPT ![l] = x]
<1>1. LoadsFit(next, now, db) /\ next[l] = x /\ \A k \in LoadId \ {l} : next[k] = loads[k]
  BY LoadBecomes
<1> HIDE DEF next
<1>2. QueueRight(ops, next, now)
  BY <1>1, QueueStays DEF Typed
<1> QED BY <1>1, <1>2 DEF next

LEMMA ProceedSaves ==
  ASSUME Base, now \in Nat, NEW l, NEW next, NEW c \in CoversTo(now), NEW q, Proceed(l, next, c, q)
  PROVE  /\ loads' = [loads EXCEPT ![l] = next] /\ saved' \subseteq 0 .. now
         /\ saved' \in {saved, c.pts}
<1>1. loads' = [loads EXCEPT ![l] = next] /\ saved' \in {saved, c.pts}
  BY Saves DEF Proceed
<1>2. c.pts \subseteq 0 .. now /\ saved \subseteq 0 .. now
  BY OtherCovers DEF Base, Typed
<1> QED BY <1>1, <1>2

LEMMA ConnectDoes ==
  ASSUME WholeMs, Base, Connect
  PROVE  /\ cov' = ExtendLive(cov, now) /\ cov' \in CoversTo(now)
         /\ \E x : GoesOn(x) /\ ~x.stale /\ Proceed(FreeLoad, x, cov', ops)
         /\ FreeLoad \in LoadId /\ loads[FreeLoad].pc = "idle"
         /\ conn' = TRUE /\ up' = TRUE /\ ~conn /\ (now \notin db \/ "sameMs" \in env) /\ "connect" \in env
         /\ UNCHANGED <<env, now, db, wire, buf, pend, idb, ops, trimTo>>
<1> USE DEF Base
<1>1. now \in Nat /\ NowMs = now /\ now \in 0 .. now /\ now \in Tick
  BY Clock DEF Typed
<1>2. cov' = ExtendLive(cov, now) /\ FreeLoad \in LoadId /\ loads[FreeLoad].pc = "idle"
  BY <1>1, FreeIs DEF Connect
<1>3. cov' \in CoversTo(now) /\ cov'.pts \subseteq 0 .. now /\ cov'.pts # {}
  <2>1. cov' \in CoversTo(now)
    BY <1>1, <1>2, ExtendCovers DEF Typed
  <2>2. now \in cov'.pts \/ (cov.live # NoLive /\ now < cov.live)
    BY <1>1, <1>2, ExtendCovers DEF Typed
  <2>3. cov.live \in 0 .. now \cup {NoLive}
    BY <1>1, OtherCovers DEF Typed
  <2> QED BY <1>1, <2>1, <2>2, <2>3, OtherCovers
<1> DEFINE from == Least(cov'.pts)
           x == FillGaps(cov', buf, from, NowMs, MaxSize, FALSE)
<1>4. from \in 0 .. now
  BY <1>3, Clock
<1>5. GoesOn(x) /\ ~x.stale
  <2>1. MaxSize \in Nat
    BY SizesAssumption
  <2> QED BY <1>1, <1>4, <2>1, FillGapsFits
<1>6. Proceed(FreeLoad, x, cov', ops)
  BY DEF Connect
<1>7. now \notin db \/ "sameMs" \in env
  <2>1. \A r \in db : Ms(r) = r
    BY MsIs DEF Typed
  <2> QED BY <1>1, <2>1 DEF Connect, QuietMs
<1> QED BY <1>2, <1>3, <1>5, <1>6, <1>7 DEF Connect

LEMMA ConnectBase ==
  ASSUME WholeMs, Base, Connect
  PROVE  Base'
<1>1. /\ cov' \in CoversTo(now) /\ FreeLoad \in LoadId /\ loads[FreeLoad].pc = "idle"
      /\ conn' = TRUE /\ up' = TRUE
      /\ UNCHANGED <<env, now, db, wire, buf, pend, idb, ops, trimTo>>
  BY ConnectDoes
<1>2. PICK x : GoesOn(x) /\ Proceed(FreeLoad, x, cov', ops)
  BY ConnectDoes
<1>3. now \in Nat
  BY Clock DEF Base
<1>4. loads' = [loads EXCEPT ![FreeLoad] = x] /\ saved' \subseteq 0 .. now
  BY <1>1, <1>2, <1>3, ProceedSaves
<1>5. LoadsFit(loads', now, db) /\ QueueRight(ops, loads', now)
  BY <1>1, <1>2, <1>4, GoesOnBase DEF GoesOn, Waiting
<1>6. Typed'
  BY <1>1, <1>4, <1>5 DEF Base, Typed, LoadsFit
<1> QED BY <1>1, <1>5, <1>6 DEF Base, Retained

LEMMA DisconnectBase ==
  ASSUME WholeMs, Base, Disconnect \/ LinkDies
  PROVE  Base'
<1> USE DEF Base
<1>1. now \in Nat /\ NowMs = now /\ now \in 0 .. now
  BY Clock
<1>2. /\ UNCHANGED <<now, db, buf, pend, idb, ops, trimTo, loads>>
      /\ conn' \in BOOLEAN /\ up' \in BOOLEAN /\ wire' = {}
  BY DEF Disconnect, LinkDies, Typed
<1>3. cov' \in CoversTo(now) /\ saved' \subseteq 0 .. now
  <2>1. CASE Disconnect
    <3>1. ExtendLive(cov, now) \in CoversTo(now)
      BY <1>1, ExtendCovers DEF Typed
    <3>2. cov' = CloseLive(ExtendLive(cov, now)) /\ saved' = SaveCoverage(cov', ops)
      BY <1>1, <2>1 DEF Disconnect
    <3>3. cov' \in CoversTo(now)
      BY <1>1, <3>1, <3>2, OtherCovers
    <3> QED BY <1>1, <3>2, <3>3, SavesPast DEF Typed
  <2>2. CASE LinkDies
    BY <2>2 DEF LinkDies, Typed
  <2> QED BY <2>1, <2>2
<1>4. Typed'
  BY <1>2, <1>3 DEF Typed
<1> QED BY <1>2, <1>4 DEF Retained

LEMMA StartupInfoBase ==
  ASSUME WholeMs, Base, NEW l \in LoadId, StartupInfo(l)
  PROVE  /\ Base'
         /\ \E x \in Load : loads' = [loads EXCEPT ![l] = x] /\ x.pc = "readAll" /\ x.stale = loads[l].stale
         /\ ReadOp(l).by = l /\ ReadOp(l).op = "read" /\ ReadOp(l).rows = {} /\ ReadOp(l) \in IdbOp
<1> USE DEF Base
<1>1. /\ UNCHANGED <<env, now, db, up, wire, conn, buf, pend, saved, idb, trimTo>>
      /\ loads[l].pc = "info" /\ loads' = [loads EXCEPT ![l].pc = "readAll"]
  BY DEF StartupInfo
<1>2. now \in Nat /\ NowMs = now /\ now - Retention \in Int /\ now - Retention <= now
  BY Clock, BoundsAssumption
<1>3. loads[l] \in Load /\ Fits(loads[l], now, db) /\ loads \in [LoadId -> Load]
  BY DEF LoadsFit
<1> DEFINE x == [loads[l] EXCEPT !.pc = "readAll"]
<1>4. /\ x \in Load /\ x.pc = "readAll" /\ x.rows = loads[l].rows /\ x.gaps = loads[l].gaps
      /\ x.cursor = loads[l].cursor /\ x.stale = loads[l].stale
  BY <1>3 DEF Load
<1>5. loads' = [loads EXCEPT ![l] = x]
  BY <1>1, <1>3
<1> HIDE DEF x
<1>6. Fits(x, now, db)
  BY <1>3, <1>4 DEF Fits
<1>7. LoadsFit(loads', now, db) /\ loads'[l] = x /\ \A k \in LoadId \ {l} : loads'[k] = loads[k]
  <2>1. ~Waiting(loads[l])
    BY <1>1 DEF Waiting
  <2> QED BY <2>1, <1>4, <1>5, <1>6, GoesOnBase
<1>8. ReadOp(l).by = l /\ ReadOp(l).op = "read" /\ ReadOp(l).rows = {} /\ ReadOp(l) \in IdbOp
  BY DEF ReadOp, IdbOp
<1> DEFINE q == Append(ops, ReadOp(l))
<1>9. q \in Seq(IdbOp) /\ QueueRight(q, loads', now)
  <2>1. OpRight(ReadOp(l), loads', now)
    BY <1>4, <1>7, <1>8 DEF OpRight, Serves, LoadId, Live
  <2> HIDE DEF ReadOp
  <2> QED BY <1>1, <1>7, <1>8, <2>1, QueuesOwn, Appended DEF Typed, Waiting
<1>10. cov' \in CoversTo(now) /\ ops' \in Seq(IdbOp) /\ QueueRight(ops', loads', now)
  <2>1. CASE /\ cov' = Trim(cov, NowMs - Retention)
             /\ ops' = ops \o <<ReadOp(l), EvictBeforeOp(NowMs - Retention)>>
    <3> DEFINE o == EvictBeforeOp(now - Retention)
    <3>1. cov' \in CoversTo(now)
      BY <1>2, <2>1, TrimCovers DEF Typed
    <3>2. o \in IdbOp /\ OpRight(o, loads, now) /\ o.by = Live
      BY Maintains DEF Typed
    <3>3. OpRight(o, loads', now)
      BY <3>2 DEF OpRight
    <3> HIDE DEF o
    <3>4. ops' = Append(q, o)
      <4> HIDE DEF ReadOp
      <4> QED BY <1>2, <1>8, <2>1, <3>2, AppendedTwice DEF o, Typed
    <3> HIDE DEF q
    <3>5. ops' \in Seq(IdbOp) /\ QueueRight(ops', loads', now)
      BY <1>9, <3>2, <3>3, <3>4, QueuesOther, Appended
    <3> QED BY <3>1, <3>5
  <2>2. CASE ops' = Append(ops, ReadOp(l)) /\ UNCHANGED cov
    BY <1>9, <2>2 DEF Typed
  <2> QED BY <2>1, <2>2 DEF StartupInfo
<1>11. Typed'
  BY <1>1, <1>7, <1>10 DEF Typed, LoadsFit
<1>12. Base'
  BY <1>1, <1>7, <1>10, <1>11 DEF Retained
<1> QED BY <1>4, <1>5, <1>8, <1>12

(* What the answer to a history request does. *)
FetchIgnored(l) ==
  /\ loads[l].stale /\ loads' = [loads EXCEPT ![l] = IdleLoad]
  /\ UNCHANGED <<buf, cov, ops, saved>>

FetchEmpty(l) ==
  /\ ~loads[l].stale /\ UNCHANGED <<buf, ops>>
  /\ \A r \in db : r \notin loads[l].start .. loads[l].cursor
  /\ cov' = Add(cov, loads[l].start, loads[l].cursor)
  /\ \E x : GoesOn(x) /\ ~x.stale /\ Proceed(l, x, cov', ops)

FetchShown(l) ==
  /\ ~loads[l].stale /\ UNCHANGED <<cov, saved>>
  /\ \E fetched \in SUBSET db, x \in Load :
       /\ fetched # {} /\ buf' \in BufferWith(fetched)
       /\ ops' = Append(ops, StoreOp(fetched, l))
       /\ loads' = [loads EXCEPT ![l] = x] /\ Fits(x, now, db)
       /\ x.pc = "store" /\ x.rows = fetched /\ ~x.stale

LEMMA FetchDoes ==
  ASSUME WholeMs, Base, NEW l \in LoadId, FetchAnswer(l)
  PROVE  /\ FetchIgnored(l) \/ FetchEmpty(l) \/ FetchShown(l)
         /\ UNCHANGED <<env, now, db, up, wire, conn, pend, idb, trimTo>>
         /\ loads[l].pc = "fetch" /\ loads[l].start \in Nat /\ loads[l].cursor \in Int
         /\ loads[l].cursor <= now
<1> USE DEF Base
<1> DEFINE ld    == loads[l]
           match == {r \in db : r >= ld.start * TicksPerMs /\ r <= ld.cursor * TicksPerMs}
           limit == Least({Chunk, ld.left})
<1>1. /\ ld \in Load /\ Fits(ld, now, db) /\ ld.pc = "fetch" /\ loads \in [LoadId -> Load]
      /\ UNCHANGED <<env, now, db, up, wire, conn, pend, idb, trimTo>>
  BY DEF LoadsFit, FetchAnswer
<1>2. /\ ld.start \in Nat /\ ld.start \in Tick /\ ld.cursor \in Int /\ ld.left \in Nat /\ ld.left # 0
      /\ ld.start <= ld.cursor /\ ld.cursor <= now /\ ld.stale \in BOOLEAN
      /\ InPast(ld.gaps) /\ ld.cursor \in -1 .. MaxTick
  BY <1>1 DEF Load, Tick, Fits, InPast
<1>3. db \subseteq 0 .. now /\ now \in Nat /\ now \in Tick
  BY Clock DEF Typed
<1>4. match \subseteq db /\ \A r \in db : r \in match <=> r \in ld.start .. ld.cursor
  <2> DEFINE from == ld.start
             to   == ld.cursor
  <2>1. from \in Nat /\ to \in Int /\ match = {r \in db : r >= from * TicksPerMs /\ r <= to * TicksPerMs}
    BY <1>2
  <2>2. \A r \in db : r \in Nat
    BY <1>3
  <2> HIDE DEF match, from, to
  <2>3. from * TicksPerMs = from /\ to * TicksPerMs = to
    BY <2>1 DEF WholeMs
  <2>4. match = {r \in db : r >= from /\ r <= to}
    BY <2>1, <2>3
  <2>5. match \subseteq db /\ \A r \in db : r \in match <=> r \in from .. to
    BY <2>1, <2>2, <2>4
  <2> QED BY <2>5 DEF from, to
<1>5. limit \in Nat /\ limit # 0 /\ limit <= ld.left
  BY <1>2, LeastOfTwo, SizesAssumption
<1> HIDE DEF match, limit
<1>6. CASE Invalidated(ld)
  <2>1. Proceed(l, IdleLoad, cov, ops) /\ UNCHANGED <<buf, cov, ops>>
    BY <1>6 DEF FetchAnswer
  <2>2. IdleLoad.pc = "idle"
    BY DEF IdleLoad
  <2> QED BY <1>1, <1>2, <1>6, <2>1, <2>2 DEF Proceed, FetchIgnored, Invalidated
<1>7. CASE ~Invalidated(ld) /\ match = {}
  <2>1. cov' = Add(cov, ld.start, ld.cursor) /\ Proceed(l, NextGap(ld, buf), cov', ops) /\ UNCHANGED <<buf, ops>>
    BY <1>7 DEF FetchAnswer, match
  <2>2. GoesOn(NextGap(ld, buf)) /\ ~NextGap(ld, buf).stale
    BY <1>1, <1>2, <1>3, NextGapFits
  <2>3. \A r \in db : r \notin ld.start .. ld.cursor
    BY <1>4, <1>7
  <2> QED BY <1>1, <1>2, <1>7, <2>1, <2>2, <2>3 DEF FetchEmpty, Invalidated
<1>8. CASE ~Invalidated(ld) /\ match # {}
  <2>1. PICK fetched \in Newest(match, limit, 1) : \E more \in BOOLEAN :
           /\ Cardinality(match) > limit => more
           /\ buf' \in BufferWith(fetched)
           /\ ops' = Append(ops, StoreOp(fetched, l))
           /\ loads' = [loads EXCEPT ![l].pc = "store", ![l].rows = fetched, ![l].limitReached = more]
           /\ UNCHANGED <<cov, saved>>
    BY <1>8 DEF FetchAnswer, match, limit
  <2>2. PICK more \in BOOLEAN :
           /\ Cardinality(match) > limit => more
           /\ buf' \in BufferWith(fetched)
           /\ ops' = Append(ops, StoreOp(fetched, l))
           /\ loads' = [loads EXCEPT ![l].pc = "store", ![l].rows = fetched, ![l].limitReached = more]
           /\ UNCHANGED <<cov, saved>>
    BY <2>1
  <2> DEFINE x == [ld EXCEPT !.pc = "store", !.rows = fetched, !.limitReached = more]
  <2>3. loads' = [loads EXCEPT ![l] = x]
    BY <1>1, <2>2
  <2>4. match \in SUBSET (0 .. now)
    BY <1>3, <1>4
  <2>5. /\ fetched \subseteq match /\ Cardinality(fetched) \in Nat /\ Cardinality(fetched) <= limit
        /\ Cardinality(match) <= limit => fetched = match
        /\ fetched # {} /\ Least(fetched) \in fetched /\ \A q \in match \ fetched : q < Least(fetched)
    BY <1>3, <1>5, <1>8, <2>4, NewestAre
  <2>6. fetched \in SUBSET Tick /\ fetched \subseteq 0 .. now /\ fetched \subseteq db
        /\ fetched \subseteq ld.start .. ld.cursor
    BY <1>3, <1>4, <2>4, <2>5, Clock
  <2>7. /\ x \in Load /\ x.pc = "store" /\ x.rows = fetched /\ x.limitReached = more
        /\ x.start = ld.start /\ x.cursor = ld.cursor /\ x.gaps = ld.gaps /\ x.left = ld.left
        /\ x.stale = ld.stale
    BY <1>1, <2>6 DEF Load
  <2> HIDE DEF x
  <2>8. KnowsAll(x, db)
    <3>1. ASSUME NEW r \in db, r \in Claimed(x) PROVE r \in fetched
      <4>1. CASE more
        <5>1. r >= Least(fetched) /\ r <= ld.cursor /\ Least(fetched) \in ld.start .. ld.cursor
          <6>1. Claimed(x) = Least(fetched) .. ld.cursor
            BY <2>7, <4>1 DEF Claimed
          <6>2. Least(fetched) \in ld.start .. ld.cursor
            BY <2>5, <2>6
          <6> QED BY <1>2, <3>1, <6>1, <6>2
        <5>2. r \in match
          BY <1>2, <1>3, <1>4, <5>1
        <5> QED BY <1>3, <2>5, <2>6, <5>1, <5>2
      <4>2. CASE ~more
        <5>1. fetched = match
          <6>1. IsFiniteSet(match) /\ Cardinality(match) \in Nat
            BY <1>3, <2>4, Finite
          <6> QED BY <1>5, <2>2, <2>5, <4>2, <6>1
        <5> QED BY <1>4, <2>7, <3>1, <4>2, <5>1 DEF Claimed
      <4> QED BY <4>1, <4>2
    <3> QED BY <2>5, <2>6, <2>7, <3>1 DEF KnowsAll
  <2>9. Cardinality(x.rows) <= x.left
    BY <1>2, <1>5, <2>5, <2>7
  <2>10. Fits(x, now, db)
    BY <1>2, <2>6, <2>7, <2>8, <2>9 DEF Fits, InPast
  <2>11. ~ld.stale
    BY <1>8 DEF Invalidated
  <2>12. FetchShown(l)
    BY <2>2, <2>3, <2>5, <2>6, <2>7, <2>10, <2>11 DEF FetchShown
  <2> QED BY <1>1, <1>2, <2>12
<1> QED BY <1>6, <1>7, <1>8

LEMMA FetchBase ==
  ASSUME WholeMs, Base, NEW l \in LoadId, FetchAnswer(l)
  PROVE  Base'
<1> USE DEF Base
<1>1. /\ UNCHANGED <<env, now, db, up, wire, conn, pend, idb, trimTo>>
      /\ loads[l].pc = "fetch" /\ loads[l].start \in Nat /\ loads[l].cursor \in Int
      /\ loads[l].cursor <= now
      /\ FetchIgnored(l) \/ FetchEmpty(l) \/ FetchShown(l)
  BY FetchDoes
<1>2. now \in Nat /\ now \in Tick /\ db \subseteq 0 .. now
  BY Clock DEF Typed
<1>3. ~Waiting(loads[l])
  BY <1>1 DEF Waiting
<1>4. CASE FetchIgnored(l)
  <2>1. loads' = [loads EXCEPT ![l] = IdleLoad] /\ UNCHANGED <<buf, cov, ops, saved>>
    BY <1>4 DEF FetchIgnored
  <2>2. LoadsFit(loads', now, db) /\ QueueRight(ops, loads', now)
    BY <1>2, <1>3, <2>1, IdleLoadFits, GoesOnBase
  <2>3. Typed'
    BY <1>1, <2>1, <2>2 DEF Typed, LoadsFit
  <2> QED BY <1>1, <2>1, <2>2, <2>3 DEF Retained
<1>5. CASE FetchEmpty(l)
  <2>1. PICK x : GoesOn(x) /\ Proceed(l, x, cov', ops)
    BY <1>5 DEF FetchEmpty
  <2>2. cov' \in CoversTo(now) /\ UNCHANGED <<buf, ops>>
    BY <1>1, <1>2, <1>5, AddCovers DEF FetchEmpty, Typed
  <2>3. loads' = [loads EXCEPT ![l] = x] /\ saved' \subseteq 0 .. now
    BY <1>2, <2>1, <2>2, ProceedSaves
  <2>4. LoadsFit(loads', now, db) /\ QueueRight(ops, loads', now)
    BY <1>3, <2>1, <2>3, GoesOnBase DEF GoesOn
  <2>5. Typed'
    BY <1>1, <2>2, <2>3, <2>4 DEF Typed, LoadsFit
  <2> QED BY <1>1, <2>2, <2>4, <2>5 DEF Retained
<1>6. CASE FetchShown(l)
  <2>1. PICK fetched \in SUBSET db : \E x \in Load :
           /\ buf' \in BufferWith(fetched)
           /\ ops' = Append(ops, StoreOp(fetched, l))
           /\ loads' = [loads EXCEPT ![l] = x] /\ Fits(x, now, db)
           /\ x.pc = "store" /\ x.rows = fetched
    BY <1>6 DEF FetchShown
  <2>2. PICK x \in Load :
           /\ buf' \in BufferWith(fetched)
           /\ ops' = Append(ops, StoreOp(fetched, l))
           /\ loads' = [loads EXCEPT ![l] = x] /\ Fits(x, now, db)
           /\ x.pc = "store" /\ x.rows = fetched
    BY <2>1
  <2>3. LoadsFit(loads', now, db) /\ loads'[l] = x /\ \A k \in LoadId \ {l} : loads'[k] = loads[k]
    <3>1. x \in Load /\ Fits(x, now, db)
      BY <2>2
    <3> DEFINE next == [loads EXCEPT ![l] = x]
    <3>2. /\ LoadsFit(next, now, db)
          /\ next[l] = x /\ \A k \in LoadId \ {l} : next[k] = loads[k]
      BY <1>3, <3>1, GoesOnBase
    <3>3. loads' = next
      BY <2>2
    <3> HIDE DEF next
    <3> QED BY <3>2, <3>3
  <2> DEFINE o == StoreOp(fetched, l)
  <2>4. fetched \in SUBSET Tick /\ fetched \subseteq 0 .. now
    BY <1>2, Clock
  <2>5. o \in IdbOp /\ o.op = "store" /\ o.by = l /\ o.rows = fetched
    BY <2>4 DEF StoreOp, IdbOp
  <2> HIDE DEF o
  <2>6. OpRight(o, loads', now)
    BY <2>2, <2>3, <2>4, <2>5 DEF OpRight, Serves, LoadId, Live
  <2>7. ops' = Append(ops, o)
    BY <2>2 DEF o
  <2>8. ops' \in Seq(IdbOp) /\ QueueRight(ops', loads', now)
    BY <1>3, <2>3, <2>5, <2>6, <2>7, QueuesOwn, Appended DEF Typed
  <2>9. buf' \subseteq 0 .. now
    BY <2>2, <2>4, Shows DEF Typed
  <2>10. UNCHANGED <<cov, saved>>
    BY <1>6 DEF FetchShown
  <2>11. Typed'
    BY <1>1, <2>3, <2>8, <2>9, <2>10 DEF Typed, LoadsFit
  <2> QED BY <1>1, <2>3, <2>8, <2>11 DEF Retained
<1> QED BY <1>1, <1>4, <1>5, <1>6

LEMMA FetchFailsBase ==
  ASSUME WholeMs, Base, NEW l \in LoadId, FetchFails(l)
  PROVE  Base'
<1> USE DEF Base
<1>1. /\ UNCHANGED <<env, now, db, up, wire, conn, buf, pend, cov, saved, idb, ops, trimTo>>
      /\ loads[l].pc = "fetch" /\ loads' = [loads EXCEPT ![l] = IdleLoad]
  BY DEF FetchFails
<1>2. LoadsFit(loads', now, db) /\ QueueRight(ops, loads', now)
  BY <1>1, IdleLoadFits, GoesOnBase DEF Waiting, Typed
<1>3. Typed'
  BY <1>1, <1>2 DEF Typed, LoadsFit
<1> QED BY <1>1, <1>2, <1>3 DEF Retained

LEMMA LoadRangeDoes ==
  ASSUME WholeMs, Base, NEW s \in Tick, NEW e \in Tick, LoadRange(s, e)
  PROVE  /\ Base' /\ FreeLoad \in LoadId /\ loads[FreeLoad].pc = "idle"
         /\ \E x \in Load : /\ loads' = [loads EXCEPT ![FreeLoad] = x] /\ x.pc = "readRange" /\ ~x.stale
                            /\ x.cursor = e /\ x.start = s
         /\ ops' = Append(ops, ReadOp(FreeLoad))
         /\ ReadOp(FreeLoad) \in IdbOp /\ ReadOp(FreeLoad).by = FreeLoad
         /\ ReadOp(FreeLoad).op = "read" /\ ReadOp(FreeLoad).rows = {}
         /\ UNCHANGED <<env, now, db, up, wire, conn, buf, pend, cov, saved, idb, trimTo>>
<1> USE DEF Base
<1> DEFINE l == FreeLoad
           x == [IdleLoad EXCEPT !.pc = "readRange", !.start = s, !.cursor = e]
<1>1. /\ UNCHANGED <<env, now, db, up, wire, conn, buf, pend, cov, saved, idb, trimTo>>
      /\ loads' = [loads EXCEPT ![l] = x] /\ ops' = Append(ops, ReadOp(l))
      /\ s <= e /\ e <= NowMs /\ l \in LoadId /\ loads[l].pc = "idle"
  BY FreeIs DEF LoadRange
<1>2. NowMs = now /\ now \in Tick /\ now \in Nat
  BY Clock DEF Typed
<1>3. IdleLoad \in Load /\ Fits(IdleLoad, now, db) /\ IdleLoad.gaps = {} /\ ~IdleLoad.stale
  BY <1>2, IdleLoadFits
<1>4. e \in -1 .. MaxTick
  BY DEF Tick
<1>5. /\ x \in Load /\ x.pc = "readRange" /\ x.start = s /\ x.cursor = e /\ x.gaps = {}
      /\ x.rows = IdleLoad.rows /\ ~x.stale
  <2> HIDE DEF IdleLoad
  <2> QED BY <1>3, <1>4 DEF Load
<1> HIDE DEF x, l
<1>6. Fits(x, now, db)
  BY <1>1, <1>2, <1>3, <1>5 DEF Fits
<1>7. LoadsFit(loads', now, db) /\ loads'[l] = x /\ \A k \in LoadId \ {l} : loads'[k] = loads[k]
  <2>1. ~Waiting(loads[l])
    BY <1>1 DEF Waiting
  <2> DEFINE next == [loads EXCEPT ![l] = x]
  <2>2. l \in LoadId /\ loads' = next
    BY <1>1
  <2>3. /\ LoadsFit(next, now, db)
        /\ next[l] = x /\ \A k \in LoadId \ {l} : next[k] = loads[k]
    BY <1>5, <1>6, <2>1, <2>2, GoesOnBase
  <2> HIDE DEF next
  <2> QED BY <2>2, <2>3
<1>8. ReadOp(l).by = l /\ ReadOp(l).op = "read" /\ ReadOp(l).rows = {} /\ ReadOp(l) \in IdbOp
  BY <1>1 DEF ReadOp, IdbOp
<1>9. ops' \in Seq(IdbOp) /\ QueueRight(ops', loads', now)
  <2>1. OpRight(ReadOp(l), loads', now)
    BY <1>1, <1>5, <1>7, <1>8 DEF OpRight, Serves, LoadId, Live
  <2>2. ~Waiting(loads[l])
    BY <1>1 DEF Waiting
  <2> HIDE DEF ReadOp
  <2> QED BY <1>1, <1>7, <1>8, <2>1, <2>2, QueuesOwn, Appended DEF Typed
<1>10. Typed'
  BY <1>1, <1>7, <1>9 DEF Typed, LoadsFit
<1>11. Base'
  BY <1>1, <1>7, <1>9, <1>10 DEF Retained
<1> QED BY <1>1, <1>5, <1>8, <1>11 DEF l

LEMMA ClearDoes ==
  ASSUME WholeMs, Base, Clear
  PROVE  /\ Base'
         /\ \A l \in LoadId :
              /\ loads'[l].pc = loads[l].pc /\ loads'[l].rows = loads[l].rows
              /\ loads[l].pc # "idle" => loads'[l].stale
              /\ loads[l].pc = "idle" => loads'[l] = loads[l]
         /\ ops' = Append(ops, ClearOp) /\ ClearOp \in IdbOp
         /\ ClearOp.op = "clear" /\ ClearOp.rows = {} /\ ClearOp.by = Live
         /\ buf' = {} /\ pend' = {} /\ cov'.pts = {} /\ cov'.live = NoLive
         /\ saved' = SaveCoverage(Empty, ops) /\ Empty.pts = {}
         /\ UNCHANGED <<env, now, db, up, wire, conn, idb, trimTo>>
         /\ "clear" \in env /\ (now \notin db \/ "sameMs" \in env)
         /\ "clearMidStore" \in env \/ \A l \in LoadId : loads[l].pc # "store"
<1> USE DEF Base
<1>1. /\ UNCHANGED <<env, now, db, up, wire, conn, idb, trimTo>>
      /\ loads' = [l \in LoadId |-> IF l \in Idle THEN loads[l] ELSE [loads[l] EXCEPT !.stale = TRUE]]
      /\ buf' = {} /\ pend' = {} /\ cov' = Empty
      /\ saved' = SaveCoverage(Empty, ops) /\ ops' = Append(ops, ClearOp)
      /\ "clear" \in env
      /\ "clearMidStore" \in env \/ \A l \in LoadId : loads[l].pc # "store"
  BY DEF Clear
<1>2. now \in Nat /\ now \in Tick /\ NowMs = now /\ loads \in [LoadId -> Load]
  BY Clock DEF Typed
<1>3. ASSUME NEW l \in LoadId
      PROVE  /\ loads'[l] \in Load /\ Fits(loads'[l], now, db)
             /\ loads'[l].pc = loads[l].pc /\ loads'[l].rows = loads[l].rows
             /\ loads[l].pc # "idle" => loads'[l].stale
             /\ loads[l].pc = "idle" => loads'[l] = loads[l]
  <2>1. loads[l] \in Load /\ Fits(loads[l], now, db)
    BY DEF LoadsFit
  <2>2. CASE loads[l].pc = "idle"
    BY <1>1, <2>1, <2>2 DEF Idle
  <2>3. CASE loads[l].pc # "idle"
    <3> DEFINE x == [loads[l] EXCEPT !.stale = TRUE]
    <3>1. loads'[l] = x
      BY <1>1, <2>3 DEF Idle
    <3>2. /\ x \in Load /\ x.stale /\ x.pc = loads[l].pc /\ x.rows = loads[l].rows /\ x.gaps = loads[l].gaps
          /\ x.start = loads[l].start /\ x.cursor = loads[l].cursor /\ x.left = loads[l].left
          /\ x.limitReached = loads[l].limitReached
      BY <2>1 DEF Load
    <3> HIDE DEF x
    <3>3. Fits(x, now, db)
      BY <2>1, <3>2 DEF Fits, KnowsAll, Claimed
    <3> QED BY <2>3, <3>1, <3>2, <3>3
  <2> QED BY <2>2, <2>3
<1>4. LoadsFit(loads', now, db)
  <2>1. loads' = [l \in LoadId |-> loads'[l]]
    BY <1>1
  <2>2. loads' \in [LoadId -> Load]
    BY <1>3, <2>1
  <2> QED BY <1>3, <2>2 DEF LoadsFit
<1>5. QueueRight(ops, loads', now)
  BY <1>2, <1>3, QueueKeeps DEF Typed
<1>6. ClearOp \in IdbOp /\ ClearOp.op = "clear" /\ ClearOp.rows = {} /\ ClearOp.by = Live
  BY DEF ClearOp, IdbOp
<1>7. ops' \in Seq(IdbOp) /\ QueueRight(ops', loads', now)
  <2>1. OpRight(ClearOp, loads', now)
    BY <1>6 DEF OpRight
  <2> HIDE DEF ClearOp
  <2> QED BY <1>1, <1>5, <1>6, <2>1, QueuesOther, Appended DEF Typed
<1>8. cov' \in CoversTo(now) /\ cov'.pts = {} /\ cov'.live = NoLive /\ Empty \in CoversTo(now) /\ Empty.pts = {}
  BY <1>1, <1>2, OtherCovers DEF Typed
<1>9. saved' \subseteq 0 .. now
  BY <1>1, <1>2, <1>8, SavesPast DEF Typed
<1>10. now \notin db \/ "sameMs" \in env
  <2>1. \A r \in db : Ms(r) = r
    BY MsIs DEF Typed
  <2> QED BY <1>2, <2>1 DEF Clear, QuietMs
<1>11. Typed'
  BY <1>1, <1>4, <1>7, <1>8, <1>9 DEF Typed, LoadsFit
<1>12. Base'
  BY <1>1, <1>4, <1>7, <1>11 DEF Retained
<1> QED BY <1>1, <1>3, <1>6, <1>8, <1>10, <1>12

(* The completed operations: the queue without its head. *)
LEMMA HeadIs ==
  ASSUME Base, ops # <<>>
  PROVE  /\ Head(ops) \in IdbOp /\ Head(ops) = ops[1] /\ 1 \in DOMAIN ops /\ Head(ops).rows \subseteq 0 .. now
         /\ Tail(ops) \in Seq(IdbOp) /\ QueueRight(Tail(ops), loads, now)
         /\ \A l \in LoadId : Head(ops).by = l => Serves(Head(ops), loads[l])
         /\ Head(ops).by = Live => Head(ops).op # "read"
         /\ Head(ops).op = "evictBefore" => Head(ops).min <= now - Retention
<1>1. /\ Tail(ops) \in Seq(IdbOp) /\ Head(ops) = ops[1] /\ Head(ops) \in IdbOp /\ DOMAIN ops = 1 .. Len(ops)
      /\ Len(ops) >= 1 /\ Len(ops) \in Nat
  BY Taken DEF Base, Typed
<1>2. 1 \in DOMAIN ops
  BY <1>1
<1>3. OpRight(ops[1], loads, now)
  BY <1>2 DEF Base, QueueRight
<1>4. QueueRight(Tail(ops), loads, now)
  BY CompletesOther DEF Base, Typed
<1>5. \A l \in LoadId : l # Live
  BY DEF LoadId, Live
<1> QED BY <1>1, <1>2, <1>3, <1>4, <1>5 DEF OpRight

LEMMA MaintenanceBase ==
  ASSUME WholeMs, Base, LiveStoreDone \/ CacheCleared \/ EvictedBefore \/ EvictedToSize
  PROVE  Base'
<1> USE DEF Base
<1>1. /\ UNCHANGED <<env, now, db, up, wire, conn, buf, pend, cov, loads>>
      /\ ops # <<>> /\ ops' = Tail(ops)
  BY DEF LiveStoreDone, CacheCleared, EvictedBefore, EvictedToSize
<1>2. now \in Nat /\ idb \subseteq 0 .. now /\ saved \subseteq 0 .. now /\ cov \in CoversTo(now)
      /\ trimTo \in 0 .. now \cup {NoLive}
  BY Clock DEF Typed
<1>3. idb' \subseteq 0 .. now /\ saved' \subseteq 0 .. now /\ trimTo' \in 0 .. now \cup {NoLive}
  <2>1. CASE LiveStoreDone
    <3>1. UNCHANGED trimTo /\ idb' \subseteq idb \cup Head(ops).rows
          /\ (saved' = saved \/ saved' = SaveCoverage(cov, ops'))
      BY <2>1 DEF LiveStoreDone
    <3> QED BY <1>1, <1>2, <3>1, HeadIs, SavesPast
  <2>2. CASE CacheCleared \/ EvictedBefore
    BY <1>2, <2>2 DEF CacheCleared, EvictedBefore
  <2>3. CASE EvictedToSize
    <3>1. UNCHANGED saved
          /\ \/ /\ Cardinality(idb) > MaxCache
                /\ idb' \in Newest(idb, MaxCache, TicksPerMs) /\ trimTo' = OldestMs(idb')
             \/ UNCHANGED <<idb, trimTo>>
      BY <2>3 DEF EvictedToSize
    <3>2. CASE Cardinality(idb) > MaxCache /\ idb' \in Newest(idb, MaxCache, TicksPerMs) /\ trimTo' = OldestMs(idb')
      <4>1. MaxCache \in Nat /\ MaxCache # 0 /\ Cardinality(idb) \in Nat
        BY <1>2, SizesAssumption, Finite
      <4>2. idb' \subseteq idb /\ (idb' # {} \/ idb = {})
        BY <1>2, <3>2, <4>1, NewestAre DEF WholeMs
      <4>3. idb # {}
        BY <3>2, <4>1, FS_EmptySet
      <4>4. OldestMs(idb') \in idb'
        <5>1. idb' \in SUBSET (0 .. now) /\ idb' # {}
          BY <1>2, <4>2, <4>3
        <5> QED BY <5>1, Clock
      <4> QED BY <1>2, <3>1, <3>2, <4>2, <4>4
    <3> QED BY <1>2, <3>1, <3>2
  <2> QED BY <1>1, <2>1, <2>2, <2>3
<1>4. ops' \in Seq(IdbOp) /\ QueueRight(ops', loads, now)
  BY <1>1, HeadIs
<1>5. Typed'
  BY <1>1, <1>3, <1>4 DEF Typed
<1> QED BY <1>1, <1>4, <1>5 DEF Retained

(* What a stored chunk covers. *)
LEMMA ChunkCovers ==
  ASSUME WholeMs, Base, NEW l \in LoadId, loads[l].pc = "store", NEW ok \in BOOLEAN
  PROVE  LET c == ChunkCovered(cov, loads[l], ok) IN
           /\ c \in CoversTo(now) /\ c.live = cov.live
           /\ \A p \in c.pts : p \in cov.pts \/ (ok /\ p \in Claimed(loads[l]))
<1> DEFINE ld == loads[l]
           c == ChunkCovered(cov, ld, ok)
           first == Least(ld.rows)
<1>1. ld \in Load /\ Fits(ld, now, db) /\ KnowsAll(ld, db)
  BY DEF Base, LoadsFit, Fits
<1>2. now \in Nat /\ cov \in CoversTo(now)
  BY Clock DEF Base, Typed
<1>3. ld.rows \subseteq 0 .. now /\ ld.rows # {} /\ ld.cursor \in Int /\ ld.cursor <= now /\ ld.start \in Nat
      /\ ld.rows \subseteq ld.start .. ld.cursor
  BY <1>1 DEF Load, Fits, KnowsAll, Tick
<1>4. OldestMs(ld.rows) = first /\ first \in ld.rows
  BY <1>3, Clock DEF Base
<1>5. first \in Nat /\ first >= ld.start
  BY <1>2, <1>3, <1>4
<1> DEFINE from == ld.start
           to   == ld.cursor
<1>6. /\ from \in Nat /\ to \in Int /\ to <= now
      /\ Claimed(ld) = IF ld.limitReached THEN first .. to ELSE from .. to
  BY <1>3 DEF Claimed
<1>7. c = IF ok THEN IF ld.limitReached THEN Add(cov, first, to) ELSE Add(Add(cov, first, to), from, to)
          ELSE cov
  BY <1>4 DEF ChunkCovered
<1> HIDE DEF first, c, from, to
<1> DEFINE a == Add(cov, first, to)
<1>8. a \in CoversTo(now) /\ a.live = cov.live /\ a.pts = cov.pts \cup (first .. to)
  BY <1>2, <1>5, <1>6, AddCovers
<1> HIDE DEF a
<1> DEFINE b == Add(a, from, to)
<1>9. b \in CoversTo(now) /\ b.live = a.live /\ b.pts = a.pts \cup (from .. to)
  BY <1>2, <1>6, <1>8, AddCovers
<1> HIDE DEF b
<1>10. c = IF ok THEN IF ld.limitReached THEN a ELSE b ELSE cov
  BY <1>7 DEF a, b
<1>11. \A p \in first .. to : p \in from .. to
  BY <1>5, <1>6 DEF from
<1>12. /\ c \in CoversTo(now) /\ c.live = cov.live
       /\ \A p \in c.pts : p \in cov.pts \/ (ok /\ p \in Claimed(ld))
  <2>1. CASE ~ok
    BY <1>2, <1>10, <2>1
  <2>2. CASE ok /\ ld.limitReached
    BY <1>6, <1>8, <1>10, <2>2
  <2>3. CASE ok /\ ~ld.limitReached
    BY <1>6, <1>8, <1>9, <1>10, <1>11, <2>3
  <2> QED BY <2>1, <2>2, <2>3
<1> QED BY <1>12 DEF c

LEMMA ChunkDoes ==
  ASSUME WholeMs, Base, NEW l \in LoadId, ChunkStoreDone(l)
  PROVE  /\ Base'
         /\ loads[l].pc = "store" /\ Head(ops).rows = loads[l].rows /\ KnowsAll(loads[l], db)
         /\ ops # <<>> /\ ops' = Tail(ops) /\ Head(ops).op = "store" /\ Head(ops).by = l
         /\ \E ok \in Outcomes : /\ idb' = IF ok THEN idb \cup loads[l].rows ELSE idb
                                 /\ cov' = ChunkCovered(cov, loads[l], ok)
         /\ saved' \in {saved, SaveCoverage(cov', ops')}
         /\ \E x \in Load : /\ loads' = [loads EXCEPT ![l] = x] /\ (x.stale => loads[l].stale)
                            /\ x.pc \in {"idle", "fetch"}
         /\ UNCHANGED <<env, now, db, up, wire, conn, buf, pend, trimTo>>
<1> USE DEF Base
<1> DEFINE ld   == loads[l]
           paid == [ld EXCEPT !.left = @ - Cardinality(ld.rows)]
           x == IF ld.limitReached
                THEN NextRequest([paid EXCEPT !.cursor = NextCursor(ld)], buf)
                ELSE NextGap(paid, buf)
<1>1. /\ UNCHANGED <<env, now, db, up, wire, conn, buf, pend, trimTo>>
      /\ ops # <<>> /\ ops' = Tail(ops) /\ Head(ops).op = "store" /\ Head(ops).by = l
      /\ \E ok \in Outcomes : /\ idb' = IF ok THEN idb \cup ld.rows ELSE idb
                              /\ cov' = ChunkCovered(cov, ld, ok)
      /\ Proceed(l, x, cov', ops')
  BY DEF ChunkStoreDone
<1>2. ld.pc = "store" /\ Head(ops).rows = ld.rows
  BY <1>1, HeadIs DEF Serves
<1>3. ld \in Load /\ Fits(ld, now, db) /\ KnowsAll(ld, db) /\ InPast(ld.gaps)
  BY <1>2 DEF LoadsFit, Fits, InPast
<1>4. now \in Nat /\ now \in Tick /\ cov \in CoversTo(now) /\ saved \subseteq 0 .. now /\ idb \subseteq 0 .. now
  BY Clock DEF Typed
<1>5. ld.rows \subseteq 0 .. now /\ ld.rows # {} /\ ld.cursor \in Int /\ ld.cursor <= now /\ ld.start \in Nat
      /\ ld.rows \subseteq ld.start .. ld.cursor /\ ld.left \in Nat /\ Cardinality(ld.rows) <= ld.left
      /\ ld.cursor \in -1 .. MaxTick
  BY <1>2, <1>3 DEF Load, Fits, KnowsAll, Tick
<1>6. ld.left - Cardinality(ld.rows) \in Nat
  <2>1. Cardinality(ld.rows) \in Nat
    BY <1>4, <1>5, Finite
  <2> QED BY <1>5, <2>1
<1>7. paid \in Load /\ paid.gaps = ld.gaps /\ paid.cursor = ld.cursor /\ paid.stale = ld.stale
  BY <1>3, <1>6 DEF Load
<1> DEFINE next == [paid EXCEPT !.cursor = NextCursor(ld)]
<1>8. NextCursor(ld) \in -1 .. MaxTick /\ NextCursor(ld) <= now
  <2>1. OldestMs(ld.rows) \in ld.rows
    BY <1>5, Clock
  <2>2. OldestMs(ld.rows) \in 0 .. now /\ ld.cursor >= 0
    BY <1>5, <2>1
  <2>3. OldestMs(ld.rows) \in -1 .. MaxTick /\ ld.cursor - 1 \in -1 .. MaxTick
    BY <1>4, <1>5, <2>2, BoundsAssumption DEF Tick
  <2> QED BY <1>4, <1>5, <2>2, <2>3 DEF NextCursor
<1> HIDE DEF paid
<1>9. next \in Load /\ next.gaps = ld.gaps /\ next.cursor = NextCursor(ld) /\ next.stale = ld.stale
  BY <1>7, <1>8 DEF Load
<1> HIDE DEF next
<1>10. GoesOn(x) /\ (x.stale => ld.stale)
  <2>1. GoesOn(NextRequest(next, buf)) /\ (NextRequest(next, buf).stale => next.stale)
    BY <1>3, <1>4, <1>8, <1>9, NextRequestFits
  <2>2. GoesOn(NextGap(paid, buf)) /\ ~NextGap(paid, buf).stale
    BY <1>3, <1>4, <1>7, NextGapFits
  <2> QED BY <1>9, <2>1, <2>2 DEF next
<1> HIDE DEF x
<1>11. cov' \in CoversTo(now)
  BY <1>1, <1>2, ChunkCovers DEF Outcomes
<1>12. loads' = [loads EXCEPT ![l] = x] /\ saved' \in {saved, SaveCoverage(cov', ops')}
  BY <1>1 DEF Proceed
<1>13. saved' \subseteq 0 .. now
  BY <1>4, <1>11, <1>12, SavesPast
<1>14. LoadsFit(loads', now, db) /\ \A k \in LoadId \ {l} : loads'[k] = loads[k]
  <2> DEFINE after == [loads EXCEPT ![l] = x]
  <2>1. x \in Load /\ Fits(x, now, db)
    BY <1>10 DEF GoesOn
  <2>2. LoadsFit(after, now, db) /\ \A k \in LoadId \ {l} : after[k] = loads[k]
    BY <2>1, LoadBecomes
  <2> HIDE DEF after
  <2> QED BY <1>12, <2>2 DEF after
<1>15. ops' \in Seq(IdbOp) /\ QueueRight(ops', loads', now)
  BY <1>1, <1>14, HeadIs, CompletesOwn DEF Typed
<1>16. Typed'
  <2>1. idb' \subseteq 0 .. now
    BY <1>1, <1>4, <1>5
  <2> QED BY <1>1, <1>11, <1>13, <1>14, <1>15, <2>1 DEF Typed, LoadsFit
<1>17. Base'
  BY <1>1, <1>14, <1>15, <1>16 DEF Retained
<1> QED BY <1>1, <1>2, <1>3, <1>10, <1>12, <1>17 DEF GoesOn

LEMMA ReadDoes ==
  ASSUME WholeMs, Base, NEW l \in LoadId, CacheRead(l)
  PROVE  /\ loads[l].pc \in {"readAll", "readRange"}
         /\ ops # <<>> /\ ops' = Tail(ops) /\ Head(ops).op = "read" /\ Head(ops).by = l
         /\ UNCHANGED <<env, now, db, up, wire, conn, pend, cov, idb, trimTo>>
         /\ \/ loads[l].stale /\ loads' = [loads EXCEPT ![l] = IdleLoad] /\ UNCHANGED <<buf, saved>>
            \/ /\ ~loads[l].stale
               /\ \E S \in SUBSET idb : buf' \in BufferWith(S)
               /\ \E x : GoesOn(x) /\ ~x.stale /\ loads' = [loads EXCEPT ![l] = x]
               /\ saved' \in {saved, SaveCoverage(cov, ops')}
<1> USE DEF Base
<1> DEFINE ld == loads[l]
<1>1. /\ ops # <<>> /\ ops' = Tail(ops) /\ Head(ops).op = "read" /\ Head(ops).by = l
      /\ UNCHANGED <<env, now, db, up, wire, conn, pend, cov, idb, trimTo>>
  BY DEF CacheRead
<1>2. ld.pc \in {"readAll", "readRange"}
  BY <1>1, HeadIs DEF Serves
<1>3. ld \in Load /\ Fits(ld, now, db) /\ ld.stale \in BOOLEAN
  BY DEF LoadsFit, Load
<1>4. now \in Nat /\ now \in Tick /\ cov \in CoversTo(now) /\ idb \subseteq 0 .. now /\ NowMs = now /\ now \in 0 .. now
  BY Clock DEF Typed
<1>5. CASE Invalidated(ld)
  <2>1. loads' = [loads EXCEPT ![l] = IdleLoad] /\ UNCHANGED <<buf, saved>>
    BY <1>5 DEF CacheRead
  <2> QED BY <1>1, <1>2, <1>5, <2>1 DEF Invalidated
<1>6. CASE ~Invalidated(ld) /\ ld.pc = "readRange"
  <2>1. PICK S \in SUBSET idb : buf' \in BufferWith(S)
    BY <1>6 DEF CacheRead
  <2> DEFINE x == FillGaps(cov, buf', ld.start, ld.cursor, MaxSize, TRUE)
  <2>2. Proceed(l, x, cov, ops')
    BY <1>6 DEF CacheRead
  <2>3. ld.start \in 0 .. now /\ ld.cursor \in 0 .. now
    BY <1>3, <1>4, <1>6 DEF Fits, Load, Tick
  <2>4. MaxSize \in Nat
    BY SizesAssumption
  <2>5. GoesOn(x) /\ ~x.stale
    BY <1>4, <2>3, <2>4, FillGapsFits
  <2> HIDE DEF x
  <2>6. loads' = [loads EXCEPT ![l] = x] /\ saved' \in {saved, SaveCoverage(cov, ops')}
    BY <2>2 DEF Proceed
  <2> QED BY <1>1, <1>2, <1>6, <2>1, <2>5, <2>6 DEF Invalidated
<1>7. CASE ~Invalidated(ld) /\ ld.pc = "readAll"
  <2> DEFINE budget == Least({InitialLimit, MaxSize})
             known(cached) == cov.pts \cup {Ms(r) : r \in cached}
             x(cached) == FillGaps(cov, buf', Least(known(cached)), NowMs, budget, FALSE)
  <2>1. PICK cached \in SUBSET idb :
          \E slice \in Newest(cached, budget, TicksPerMs) :
             /\ buf' \in BufferWith(slice)
             /\ IF known(cached) = {}
                THEN loads' = [loads EXCEPT ![l] = IdleLoad] /\ UNCHANGED saved
                ELSE Proceed(l, x(cached), cov, ops')
    BY <1>7 DEF CacheRead
  <2>2. PICK slice \in SUBSET cached : buf' \in BufferWith(slice)
    BY <2>1 DEF Newest
  <2>3. IF known(cached) = {}
        THEN loads' = [loads EXCEPT ![l] = IdleLoad] /\ UNCHANGED saved
        ELSE Proceed(l, x(cached), cov, ops')
    BY <2>1
  <2>4. known(cached) \in SUBSET (0 .. now)
    <3>1. cached \in SUBSET Nat
      BY <1>4
    <3>2. {Ms(r) : r \in cached} = cached
      BY <3>1, OldestIs
    <3>3. cov.pts \in SUBSET (0 .. now)
      BY <1>4, OtherCovers
    <3> QED BY <1>4, <3>2, <3>3
  <2>5. budget \in Nat
    BY LeastOfTwo, SizesAssumption
  <2> HIDE DEF known, budget
  <2>6. CASE known(cached) = {}
    BY <1>1, <1>2, <1>4, <1>7, <2>2, <2>3, <2>6, IdleLoadFits DEF Invalidated, GoesOn
  <2>7. CASE known(cached) # {}
    <3>1. Least(known(cached)) \in 0 .. now
      BY <2>4, <2>7, Clock
    <3>2. GoesOn(x(cached)) /\ ~x(cached).stale
      BY <1>4, <2>5, <3>1, FillGapsFits
    <3> HIDE DEF x
    <3>3. loads' = [loads EXCEPT ![l] = x(cached)] /\ saved' \in {saved, SaveCoverage(cov, ops')}
      BY <2>3, <2>7 DEF Proceed
    <3> QED BY <1>1, <1>2, <1>7, <2>2, <3>2, <3>3 DEF Invalidated
  <2> QED BY <2>6, <2>7
<1> QED BY <1>2, <1>5, <1>6, <1>7

LEMMA ReadBase ==
  ASSUME WholeMs, Base, NEW l \in LoadId, CacheRead(l)
  PROVE  Base'
<1> USE DEF Base
<1>1. /\ ops # <<>> /\ ops' = Tail(ops) /\ Head(ops).by = l
      /\ UNCHANGED <<env, now, db, up, wire, conn, pend, cov, idb, trimTo>>
  BY ReadDoes
<1>2. now \in Nat /\ now \in Tick /\ cov \in CoversTo(now) /\ saved \subseteq 0 .. now /\ idb \subseteq 0 .. now
      /\ buf \subseteq 0 .. now
  BY Clock DEF Typed
<1>3. PICK x \in Load : Fits(x, now, db) /\ loads' = [loads EXCEPT ![l] = x]
  <2>1. \E x : GoesOn(x) /\ loads' = [loads EXCEPT ![l] = x]
    BY <1>2, ReadDoes, IdleLoadFits DEF GoesOn
  <2> QED BY <2>1 DEF GoesOn
<1>4. buf' \subseteq 0 .. now
  <2>1. UNCHANGED buf \/ \E S \in SUBSET idb : buf' \in BufferWith(S)
    BY ReadDoes
  <2> QED BY <1>2, <2>1, Shows
<1>5. saved' \subseteq 0 .. now
  <2>1. saved' = saved \/ saved' = SaveCoverage(cov, ops')
    BY ReadDoes
  <2> QED BY <1>2, <2>1, SavesPast
<1> DEFINE after == [loads EXCEPT ![l] = x]
<1>6. LoadsFit(after, now, db) /\ \A k \in LoadId \ {l} : after[k] = loads[k]
  <2>1. x \in Load /\ Fits(x, now, db)
    BY <1>3
  <2> QED BY <2>1, LoadBecomes
<1>7. loads' = after
  BY <1>3
<1> HIDE DEF after
<1>8. ops' \in Seq(IdbOp) /\ QueueRight(ops', loads', now)
  BY <1>1, <1>6, <1>7, HeadIs, CompletesOwn DEF Typed
<1>9. Typed'
  BY <1>1, <1>4, <1>5, <1>6, <1>7, <1>8 DEF Typed, LoadsFit
<1> QED BY <1>1, <1>6, <1>7, <1>8, <1>9 DEF Retained

LEMMA CrashBase ==
  ASSUME WholeMs, Base, Crash
  PROVE  Base'
<1> USE DEF Base
<1>1. /\ conn' = FALSE /\ up' = FALSE /\ wire' = {} /\ buf' = {} /\ pend' = {}
      /\ cov' = RestoredCoverage(saved) /\ ops' = <<>> /\ trimTo' = NoLive /\ loads' = MountedLoads
      /\ UNCHANGED <<env, now, db, saved, idb>>
  BY DEF Crash
<1>2. now \in Nat /\ now \in Tick /\ saved \in SUBSET (0 .. now)
  BY Clock DEF Typed
<1>3. cov' \in CoversTo(now)
  BY <1>1, <1>2, RestoredCovers
<1>4. LoadsFit(loads', now, db)
  BY <1>1, <1>2, MountedFits DEF LoadsFit
<1>5. ops' \in Seq(IdbOp) /\ QueueRight(ops', loads', now)
  BY <1>1 DEF QueueRight
<1>6. Typed'
  BY <1>1, <1>2, <1>3, <1>4, <1>5 DEF Typed, LoadsFit
<1> QED BY <1>1, <1>4, <1>5, <1>6 DEF Retained

LEMMA BaseStep ==
  ASSUME WholeMs, Base, [Next]_vars
  PROVE  Base'
<1>1. CASE Next
  <2>1. CASE Advance \/ AddLive \/ TrimAfterEvict \/ Connect \/ Disconnect \/ LinkDies
    BY <2>1, AdvanceBase, AddLiveBase, TrimBase, ConnectBase, DisconnectBase
  <2>2. CASE \E evict \in BOOLEAN : FlushTick(evict)
    BY <2>2, FlushTickBase
  <2>3. CASE \E l \in LoadId : StartupInfo(l) \/ FetchAnswer(l) \/ FetchFails(l)
    BY <2>3, StartupInfoBase, FetchBase, FetchFailsBase
  <2>4. CASE \E s, e \in Tick : LoadRange(s, e)
    BY <2>4, LoadRangeDoes
  <2>5. CASE Clear \/ Crash
    BY <2>5, ClearDoes, CrashBase
  <2>6. CASE IdbStep
    BY <2>6, MaintenanceBase, ChunkDoes, ReadBase DEF IdbStep
  <2> QED BY <1>1, <2>1, <2>2, <2>3, <2>4, <2>5, <2>6 DEF Next
<1>2. CASE UNCHANGED vars
  BY <1>2 DEF vars, Base, Typed, Retained
<1> QED BY <1>1, <1>2
-----------------------------------------------------------------------------
(* What a queue still promises after an operation has been issued. *)
LEMMA SafeIssued ==
  ASSUME NEW q \in Seq(IdbOp), NEW o \in IdbOp, o.op # "clear", NEW r, NEW s
  PROVE  /\ Safe(r, q, s) => Safe(r, Append(q, o), s)
         /\ o.op = "store" /\ r \in o.rows => Safe(r, Append(q, o), s)
<1> DEFINE p == Append(q, o)
<1>1. /\ Len(q) \in Nat /\ DOMAIN q = 1 .. Len(q) /\ DOMAIN p = 1 .. Len(q) + 1 /\ Len(p) = Len(q) + 1
      /\ \A i \in 1 .. Len(q) : p[i] = q[i]
      /\ p[Len(q) + 1] = o
  BY Appended
<1> HIDE DEF p
<1>2. Cleared(p) <=> Cleared(q)
  BY <1>1 DEF Cleared
<1>3. ASSUME NEW i \in DOMAIN q, q[i].op = "store", r \in q[i].rows,
             \A j \in i + 1 .. Len(q) : q[j].op # "clear"
      PROVE  Safe(r, p, s)
  <2>1. i \in DOMAIN p /\ p[i].op = "store" /\ r \in p[i].rows
    BY <1>1, <1>3
  <2>2. \A j \in i + 1 .. Len(p) : p[j].op # "clear"
    BY <1>1, <1>3
  <2> QED BY <2>1, <2>2 DEF Safe
<1>4. Safe(r, q, s) => Safe(r, p, s)
  BY <1>2, <1>3 DEF Safe
<1>5. o.op = "store" /\ r \in o.rows => Safe(r, p, s)
  <2> HAVE o.op = "store" /\ r \in o.rows
  <2>1. Len(q) + 1 \in DOMAIN p /\ p[Len(q) + 1].op = "store" /\ r \in p[Len(q) + 1].rows
        /\ \A j \in Len(q) + 1 + 1 .. Len(p) : p[j].op # "clear"
    BY <1>1
  <2> QED BY <2>1 DEF Safe
<1> QED BY <1>4, <1>5 DEF p

(* What it promises after its oldest operation has completed. *)
LEMMA SafeCompleted ==
  ASSUME NEW q \in Seq(IdbOp), q # <<>>, NEW r, NEW s, NEW u, Safe(r, q, s),
         Head(q).op # "clear" /\ r \in s => r \in u,
         Head(q).op = "store" /\ r \in Head(q).rows => r \in u
  PROVE  Safe(r, Tail(q), u)
<1> DEFINE p == Tail(q)
<1>1. /\ Len(q) \in Nat /\ DOMAIN q = 1 .. Len(q) /\ DOMAIN p = 1 .. Len(q) - 1 /\ Len(p) = Len(q) - 1
      /\ \A i \in 1 .. Len(q) - 1 : p[i] = q[i + 1]
      /\ Head(q) = q[1] /\ Len(q) >= 1
  BY Taken
<1> HIDE DEF p
<1>2. Cleared(p) => Cleared(q)
  BY <1>1 DEF Cleared
<1>3. CASE r \in s /\ ~Cleared(q)
  <2>1. Head(q).op # "clear"
    BY <1>1, <1>3 DEF Cleared
  <2> QED BY <1>2, <1>3, <2>1 DEF Safe, p
<1>4. ASSUME NEW i \in DOMAIN q, q[i].op = "store", r \in q[i].rows,
             \A j \in i + 1 .. Len(q) : q[j].op # "clear"
      PROVE  Safe(r, p, u)
  <2>1. CASE i = 1
    <3>1. ~Cleared(p)
      BY <1>1, <1>4, <2>1 DEF Cleared
    <3> QED BY <1>1, <1>4, <2>1, <3>1 DEF Safe
  <2>2. CASE i # 1
    <3>1. i - 1 \in DOMAIN p /\ p[i - 1].op = "store" /\ r \in p[i - 1].rows
      BY <1>1, <1>4, <2>2
    <3>2. \A j \in (i - 1) + 1 .. Len(p) : p[j].op # "clear"
      BY <1>1, <1>4, <2>2
    <3> QED BY <3>1, <3>2 DEF Safe
  <2> QED BY <2>1, <2>2
<1> QED BY <1>3, <1>4 DEF Safe, p

LEMMA InOrderIssued ==
  ASSUME NEW q \in Seq(IdbOp), NEW o \in IdbOp, NEW s, NEW t, NEW d, NEW c, InOrder(q, s, t, d, c),
         t \in o.rows => t \in d,
         o.op = "clear" => t \notin d /\ t \notin s /\ (\A i \in DOMAIN q : q[i].op = "store" => q[i].by = Live)
                           /\ o.by = Live,
         o.op = "evictToSize" => c = NoLive /\ \A i \in DOMAIN q : q[i].op # "evictToSize"
  PROVE  InOrder(Append(q, o), s, t, d, c)
<1> DEFINE p == Append(q, o)
           n == Len(q)
<1>1. /\ n \in Nat /\ DOMAIN q = 1 .. n /\ DOMAIN p = 1 .. n + 1 /\ Len(p) = n + 1
      /\ \A i \in 1 .. n : p[i] = q[i]
      /\ p[n + 1] = o
  BY Appended
<1> HIDE DEF p, n
<1>2. \A i \in DOMAIN p : t \in p[i].rows => t \in d
  BY <1>1 DEF InOrder
<1>3. ASSUME NEW i \in DOMAIN p, p[i].op = "clear"
      PROVE  t \notin s /\ \A j \in 1 .. i - 1 : t \notin p[j].rows
  <2>1. CASE i = n + 1
    <3>1. t \notin d /\ t \notin s
      BY <1>1, <1>3, <2>1
    <3> QED BY <1>1, <1>2, <2>1, <3>1
  <2>2. CASE i # n + 1
    BY <1>1, <1>3, <2>2 DEF InOrder
  <2> QED BY <2>1, <2>2
<1>4. ASSUME NEW i \in DOMAIN p, p[i].op = "store" /\ p[i].by # Live
      PROVE  \A j \in i + 1 .. Len(p) : p[j].op # "clear"
  <2>1. CASE i = n + 1
    BY <1>1, <2>1
  <2>2. CASE i # n + 1
    <3>1. i \in 1 .. n /\ o.op # "clear" /\ q[i].op = "store" /\ q[i].by # Live
      BY <1>1, <1>4, <2>2
    <3>2. \A j \in i + 1 .. n : q[j].op # "clear"
      BY <1>1, <3>1 DEF InOrder, n
    <3> QED BY <1>1, <3>1, <3>2
  <2> QED BY <2>1, <2>2
<1>5. \A i \in DOMAIN p : p[i].op = "evictToSize" => c = NoLive
  BY <1>1 DEF InOrder
<1>6. \A i, j \in DOMAIN p : p[i].op = "evictToSize" /\ p[j].op = "evictToSize" => i = j
  BY <1>1 DEF InOrder
<1> QED BY <1>2, <1>3, <1>4, <1>5, <1>6 DEF InOrder, p

LEMMA InOrderCompleted ==
  ASSUME NEW q \in Seq(IdbOp), q # <<>>, NEW s, NEW t, NEW d, NEW c, InOrder(q, s, t, d, c),
         NEW u, NEW e, t \in u => t \in s \/ t \in Head(q).rows,
         e # c => Head(q).op = "evictToSize"
  PROVE  InOrder(Tail(q), u, t, d, e)
<1> DEFINE p == Tail(q)
           n == Len(q)
<1>1. /\ n \in Nat /\ DOMAIN q = 1 .. n /\ DOMAIN p = 1 .. n - 1 /\ Len(p) = n - 1
      /\ \A i \in 1 .. n - 1 : p[i] = q[i + 1]
      /\ Head(q) = q[1] /\ n >= 1
  BY Taken
<1> HIDE DEF p, n
<1>2. \A i \in DOMAIN p : i + 1 \in DOMAIN q /\ p[i] = q[i + 1] /\ i + 1 # 1 /\ 1 \in DOMAIN q
  BY <1>1
<1>3. \A i \in DOMAIN p : t \in p[i].rows => t \in d
  BY <1>2 DEF InOrder
<1>4. ASSUME NEW i \in DOMAIN p, p[i].op = "clear"
      PROVE  t \notin u /\ \A j \in 1 .. i - 1 : t \notin p[j].rows
  <2>1. t \notin s /\ \A j \in 1 .. i : t \notin q[j].rows
    <3>1. t \notin s /\ \A j \in 1 .. (i + 1) - 1 : t \notin q[j].rows
      BY <1>2, <1>4 DEF InOrder
    <3> QED BY <1>1, <3>1
  <2>2. t \notin q[1].rows
    BY <1>1, <2>1
  <2>3. \A j \in 1 .. i - 1 : p[j] = q[j + 1] /\ j + 1 \in 1 .. i
    BY <1>1
  <2> QED BY <1>1, <2>1, <2>2, <2>3
<1>5. ASSUME NEW i \in DOMAIN p, p[i].op = "store" /\ p[i].by # Live
      PROVE  \A j \in i + 1 .. Len(p) : p[j].op # "clear"
  <2>1. \A j \in (i + 1) + 1 .. Len(q) : q[j].op # "clear"
    BY <1>2, <1>5 DEF InOrder
  <2>2. \A j \in i + 1 .. Len(p) : p[j] = q[j + 1] /\ j + 1 \in (i + 1) + 1 .. Len(q)
    BY <1>1 DEF n
  <2> QED BY <2>1, <2>2
<1>6. \A i \in DOMAIN p : p[i].op = "evictToSize" => e = NoLive
  BY <1>1, <1>2 DEF InOrder
<1>7. \A i, j \in DOMAIN p : p[i].op = "evictToSize" /\ p[j].op = "evictToSize" => i = j
  <2> TAKE i, j \in DOMAIN p
  <2>1. q[i + 1].op = "evictToSize" /\ q[j + 1].op = "evictToSize" => i + 1 = j + 1
    BY <1>2 DEF InOrder
  <2> QED BY <1>1, <1>2, <2>1
<1> QED BY <1>3, <1>4, <1>5, <1>6, <1>7 DEF InOrder, p
-----------------------------------------------------------------------------
(* CoveredIsAccounted: what a fair environment does. *)
LEMMA FairEvents ==
  ASSUME env \subseteq Fair
  PROVE  /\ "halfOpen" \notin env /\ "sameMs" \notin env /\ "clearMidStore" \notin env
         /\ "crash" \notin env /\ "idbFails" \notin env
         /\ PromptLink => wire = {}
         /\ Outcomes = {TRUE}
<1>1. /\ "halfOpen" \notin env /\ "sameMs" \notin env /\ "clearMidStore" \notin env
      /\ "crash" \notin env /\ "idbFails" \notin env
  BY DEF Fair
<1> QED BY <1>1 DEF PromptLink, Outcomes

(* The stream reaches up to this moment. *)
LEMMA Extends ==
  ASSUME Streamed, Covered, UNCHANGED <<now, db>>, conn, now \in Nat, db \subseteq 0 .. now,
         cov \in CoversTo(now),
         \A r \in db : Account(r) => Account(r)',
         cov'.pts = ExtendLive(cov, now).pts, cov'.live \in {now, NoLive}
  PROVE  Streamed' /\ Covered'
<1>1. now \in 0 .. now
  OBVIOUS
<1>2. \A p \in cov'.pts : p \in cov.pts \/ p = now \/ (cov.live # NoLive /\ cov.live <= p)
  BY <1>1, ExtendCovers
<1>3. cov.live # NoLive => cov.live \in 0 .. now
  BY OtherCovers
<1>4. Covered'
  <2>1. ASSUME NEW r \in db, r \in cov'.pts PROVE Account(r)'
    <3>1. r \in Nat
      OBVIOUS
    <3>2. Account(r)
      BY <1>2, <1>3, <2>1, <3>1 DEF Streamed, Covered
    <3> QED BY <3>2
  <2> QED BY <2>1 DEF Covered
<1>5. Streamed'
  <2>1. ASSUME NEW r \in db, r = now \/ (cov'.live # NoLive /\ r >= cov'.live) PROVE Account(r)'
    <3>1. r = now
      BY <2>1
    <3>2. Account(r)
      BY <3>1 DEF Streamed
    <3> QED BY <3>2
  <2> QED BY <2>1 DEF Streamed
<1> QED BY <1>4, <1>5

(* The stream stays, and what is newly covered is accounted for. *)
LEMMA Narrows ==
  ASSUME Streamed, Covered, UNCHANGED <<now, db, conn>>, now \in Nat, db \subseteq 0 .. now,
         cov \in CoversTo(now), cov' \in CoversTo(now),
         \A r \in db : Account(r) => Account(r)',
         \A r \in db : r \in cov'.pts => r \in cov.pts \/ Account(r)',
         cov'.live # NoLive => cov.live # NoLive /\ cov'.live >= cov.live
  PROVE  Streamed' /\ Covered'
<1>1. cov.live # NoLive => cov.live \in 0 .. now
  BY OtherCovers
<1>2. cov'.live # NoLive => cov'.live \in 0 .. now
  BY OtherCovers
<1>3. Covered'
  BY DEF Covered
<1>4. Streamed'
  <2>1. ASSUME conn, NEW r \in db, r = now \/ (cov'.live # NoLive /\ r >= cov'.live) PROVE Account(r)'
    <3>1. r \in Nat
      OBVIOUS
    <3>2. r = now \/ (cov.live # NoLive /\ r >= cov.live)
      BY <1>1, <1>2, <2>1, <3>1
    <3>3. Account(r)
      BY <2>1, <3>2 DEF Streamed
    <3> QED BY <3>3
  <2> QED BY <2>1 DEF Streamed
<1> QED BY <1>3, <1>4

LEMMA FairInit ==
  ASSUME Init
  PROVE  FairInv
<1>1. /\ conn = FALSE /\ up = FALSE /\ wire = {} /\ buf = {} /\ pend = {} /\ idb = {}
      /\ ops = <<>> /\ trimTo = NoLive /\ now = 0 /\ cov = RestoredCoverage({}) /\ loads = MountedLoads
  BY DEF Init
<1>2. cov.live = NoLive /\ cov.pts = {} /\ now \in Tick
  BY <1>1, RestoredCovers, BoundsAssumption DEF Tick
<1>3. NoStaleStore
  BY <1>1, <1>2, MountedFits DEF NoStaleStore
<1>4. InOrder(ops, idb, now, db, trimTo)
  BY <1>1 DEF InOrder
<1>5. Linked /\ Recent /\ Streamed /\ Covered
  BY <1>1, <1>2 DEF Linked, Recent, Streamed, Covered
<1> QED BY <1>3, <1>4, <1>5 DEF FairInv

LEMMA AdvanceFair ==
  ASSUME WholeMs, Base, FairInv, env \subseteq Fair, Advance
  PROVE  FairInv'
<1>1. /\ now \in Nat /\ now' = now + 1 /\ wire = {}
      /\ UNCHANGED <<env, up, conn, buf, pend, cov, saved, idb, ops, trimTo, loads>>
  BY Clock, FairEvents DEF Advance, Base
<1>2. PICK tel \in SUBSET {now + 1} :
        /\ db' = {r \in db \cup tel : Ms(r) >= Ms(now + 1) - Retention}
        /\ wire' = IF up THEN wire \cup tel ELSE wire
  BY DEF Advance
<1>3. db \subseteq 0 .. now /\ buf \subseteq 0 .. now /\ pend \subseteq 0 .. now /\ idb \subseteq 0 .. now
      /\ cov.pts \subseteq 0 .. now /\ now + 1 \notin 0 .. now
  <2>1. db \subseteq 0 .. now /\ buf \subseteq 0 .. now /\ pend \subseteq 0 .. now /\ idb \subseteq 0 .. now
        /\ cov \in CoversTo(now)
    BY DEF Base, Typed
  <2>2. cov.pts \in SUBSET (0 .. now)
    BY <1>1, <2>1, OtherCovers
  <2>3. now + 1 \notin 0 .. now
    BY <1>1
  <2> QED BY <2>1, <2>2, <2>3
<1>4. \A r \in db' : r \in db \/ (r = now + 1 /\ r \in tel)
  BY <1>2
<1>5. tel \subseteq db'
  <2>1. Ms(now + 1) = now + 1
    BY <1>1, MsIs
  <2> QED BY <1>1, <1>2, <2>1, BoundsAssumption
<1>6. \A r \in db : Account(r) => Account(r)'
  BY <1>1 DEF Account
<1>7. Linked'
  BY <1>1, <1>2, <1>5 DEF FairInv, Linked
<1>8. NoStaleStore'
  BY <1>1 DEF FairInv, NoStaleStore
<1>9. Recent'
  BY <1>1, <1>3 DEF Recent
<1>10. InOrder(ops, idb, now, db, trimTo)'
  <2>1. \A i \in DOMAIN ops : ops[i].rows \subseteq 0 .. now
    BY DEF Base, QueueRight, OpRight
  <2>2. DOMAIN ops = 1 .. Len(ops) /\ Len(ops) \in Nat
    BY DEF Base, Typed
  <2>3. \A i \in DOMAIN ops : now + 1 \notin ops[i].rows
    BY <1>3, <2>1
  <2>4. \A i \in DOMAIN ops : \A j \in 1 .. i - 1 : now + 1 \notin ops[j].rows
    BY <2>2, <2>3
  <2>5. InOrder(ops, idb, now + 1, db', trimTo)
    BY <1>3, <2>3, <2>4 DEF FairInv, InOrder
  <2> QED BY <1>1, <2>5
<1>11. Streamed'
  <2>1. ASSUME conn, NEW r \in db', r = now + 1 \/ (cov.live # NoLive /\ r >= cov.live) PROVE Account(r)'
    <3>1. CASE r \in db
      <4>1. r # now + 1
        BY <1>3, <3>1
      <4>2. Account(r)
        BY <2>1, <3>1, <4>1 DEF FairInv, Streamed
      <4> QED BY <1>6, <3>1, <4>2
    <3>2. CASE r \in tel
      <4>1. r \in wire'
        BY <1>2, <2>1, <3>2 DEF FairInv, Linked
      <4> QED BY <4>1 DEF Account
    <3> QED BY <1>4, <3>1, <3>2
  <2> QED BY <1>1, <2>1 DEF Streamed
<1>12. Covered'
  <2>1. ASSUME NEW r \in db', r \in cov.pts PROVE Account(r)'
    <3>1. r \in db
      BY <1>3, <1>4, <2>1
    <3> QED BY <1>6, <2>1, <3>1 DEF FairInv, Covered
  <2> QED BY <1>1, <2>1 DEF Covered
<1> QED BY <1>7, <1>8, <1>9, <1>10, <1>11, <1>12 DEF FairInv

(* A batch of what is pending is on its way to the cache. *)
LEMMA FlushAccounts ==
  ASSUME Typed, NEW rows \in SUBSET (0 .. now), NEW r
  PROVE  /\ Safe(r, ops, idb) => Safe(r, Append(ops, StoreOp(rows, Live)), idb)
         /\ r \in rows => Safe(r, Append(ops, StoreOp(rows, Live)), idb)
<1> DEFINE o == StoreOp(rows, Live)
<1>1. rows \in SUBSET Tick
  BY BoundsAssumption DEF Typed, Tick
<1>2. o \in IdbOp /\ o.op = "store" /\ o.rows = rows
  BY <1>1 DEF StoreOp, IdbOp
<1> HIDE DEF o
<1>3. ops \in Seq(IdbOp) /\ o.op # "clear"
  BY <1>2 DEF Typed
<1> QED BY <1>2, <1>3, SafeIssued DEF o

LEMMA FlushOrder ==
  ASSUME Typed, NEW rows \in SUBSET (0 .. now), NEW d, NEW c, InOrder(ops, idb, now, d, c),
         now \in rows => now \in d
  PROVE  InOrder(Append(ops, StoreOp(rows, Live)), idb, now, d, c)
<1> DEFINE o == StoreOp(rows, Live)
<1>1. rows \in SUBSET Tick
  BY BoundsAssumption DEF Typed, Tick
<1>2. o \in IdbOp /\ o.op = "store" /\ o.rows = rows
  BY <1>1 DEF StoreOp, IdbOp
<1> HIDE DEF o
<1>3. ops \in Seq(IdbOp) /\ o.op # "clear" /\ o.op # "evictToSize"
  BY <1>2 DEF Typed
<1> QED BY <1>2, <1>3, InOrderIssued DEF o

LEMMA AddLiveFair ==
  ASSUME WholeMs, Base, FairInv, env \subseteq Fair, AddLive
  PROVE  FairInv'
<1>1. UNCHANGED <<env, now, db, up, conn, saved, idb, trimTo, loads>> /\ wire # {}
  BY DEF AddLive
<1> DEFINE r == Least(wire)
<1>2. /\ r \in wire /\ r = now /\ wire = {now} /\ now \in db /\ conn /\ now \in Nat /\ db \subseteq 0 .. now
      /\ now \in 0 .. now
  <2>1. Typed /\ wire \subseteq 0 .. now /\ db \subseteq 0 .. now
    BY DEF Base, Typed
  <2>2. now \in Nat /\ now \in 0 .. now /\ r \in wire
    <3> HIDE DEF r
    <3>1. Least(wire) \in wire /\ now \in Nat /\ now \in 0 .. now
      BY <1>1, <2>1, Clock
    <3> QED BY <3>1 DEF r
  <2> HIDE DEF r
  <2>3. wire \subseteq {now} \cap db /\ conn
    BY <1>1 DEF FairInv, Linked
  <2> QED BY <2>1, <2>2, <2>3
<1>3. wire' = wire \ {r}
      /\ \/ r \in buf /\ UNCHANGED <<buf, cov, pend, ops>>
         \/ /\ buf' \in BufferWith({r}) /\ cov' = ExtendLive(cov, Ms(r))
            /\ \/ pend' = {} /\ ops' = Append(ops, StoreOp(pend \cup {r}, Live))
               \/ pend' = pend \cup {r} /\ UNCHANGED ops
  BY DEF AddLive
<1>4. Ms(r) = now
  BY <1>2, MsIs
<1> HIDE DEF r
<1>5. wire' = {}
  BY <1>2, <1>3
<1>6. NoStaleStore'
  BY <1>1 DEF FairInv, NoStaleStore
<1>7. cov \in CoversTo(now) /\ pend \cup {now} \in SUBSET (0 .. now) /\ pend \subseteq 0 .. now
  BY <1>2 DEF Base, Typed
<1>8. CASE now \in buf /\ UNCHANGED <<buf, cov, pend, ops>>
  <2>1. \A q \in db : Account(q) => Account(q)'
    <3> SUFFICES ASSUME NEW q \in db, Account(q) PROVE Account(q)'
      OBVIOUS
    <3>1. q \in wire => Safe(q, ops, idb)
      BY <1>2, <1>8 DEF FairInv, Recent
    <3> QED BY <1>1, <1>8, <3>1 DEF Account
  <2>2. Streamed' /\ Covered'
    <3>1. cov.live # NoLive => cov.live \in Nat
      BY <1>7, OtherCovers
    <3> QED BY <1>1, <1>2, <1>7, <1>8, <2>1, <3>1, Narrows DEF FairInv
  <2>3. Linked' /\ Recent'
    BY <1>1, <1>2, <1>5, <1>8 DEF FairInv, Linked, Recent
  <2> QED BY <1>1, <1>6, <1>8, <2>2, <2>3 DEF FairInv
<1>9. CASE /\ buf' \in BufferWith({r}) /\ cov' = ExtendLive(cov, Ms(r))
           /\ \/ pend' = {} /\ ops' = Append(ops, StoreOp(pend \cup {r}, Live))
              \/ pend' = pend \cup {r} /\ UNCHANGED ops
  <2>1. \A q \in db : Account(q) => Account(q)'
    <3> SUFFICES ASSUME NEW q \in db, Account(q) PROVE Account(q)'
      OBVIOUS
    <3>1. CASE pend' = {} /\ ops' = Append(ops, StoreOp(pend \cup {r}, Live))
      BY <1>1, <1>2, <1>7, <3>1, FlushAccounts DEF Account, Base
    <3>2. CASE pend' = pend \cup {r} /\ UNCHANGED ops
      BY <1>1, <1>2, <3>2 DEF Account
    <3> QED BY <1>9, <3>1, <3>2
  <2>2. cov'.pts = ExtendLive(cov, now).pts /\ cov'.live \in {now, NoLive}
    BY <1>2, <1>4, <1>7, <1>9, ExtendCovers
  <2>3. Streamed' /\ Covered'
    BY <1>1, <1>2, <1>7, <2>1, <2>2, Extends DEF FairInv
  <2>4. Linked' /\ Recent'
    BY <1>1, <1>2, <1>5 DEF FairInv, Linked, Recent
  <2>5. InOrder(ops, idb, now, db, trimTo)'
    <3>1. InOrder(ops', idb, now, db, trimTo)
      BY <1>2, <1>7, <1>9, FlushOrder DEF FairInv, Base
    <3> QED BY <1>1, <3>1
  <2> QED BY <1>6, <2>3, <2>4, <2>5 DEF FairInv
<1> QED BY <1>2, <1>3, <1>8, <1>9

LEMMA StaleStays ==
  ASSUME Typed, NoStaleStore, NEW l \in LoadId, NEW x, loads' = [loads EXCEPT ![l] = x],
         x.stale => x.pc # "store"
  PROVE  NoStaleStore'
<1>1. loads'[l] = x /\ \A k \in LoadId \ {l} : loads'[k] = loads[k]
  BY DEF Typed
<1> QED BY <1>1 DEF NoStaleStore

(* The clock, the backend, the socket and the cache stand still. *)
LEMMA Quietly ==
  ASSUME WholeMs, Base, Base', FairInv, NoStaleStore',
         UNCHANGED <<now, db, up, wire, conn, pend, idb, trimTo>>,
         \A r \in db : Safe(r, ops, idb) => Safe(r, ops', idb),
         InOrder(ops', idb, now, db, trimTo),
         \A r \in db : r \in cov'.pts => r \in cov.pts,
         cov'.live # NoLive => cov.live # NoLive /\ cov'.live >= cov.live,
         now \in buf' => now \in buf \/ (now \in db /\ (now \in wire => Safe(now, ops', idb)))
  PROVE  FairInv'
<1>1. now \in Nat /\ db \subseteq 0 .. now /\ cov \in CoversTo(now) /\ cov' \in CoversTo(now)
  <2>1. now \in Nat
    BY Clock DEF Base
  <2> QED BY <2>1 DEF Base, Typed
<1>2. \A r \in db : Account(r) => Account(r)'
  BY DEF Account
<1>3. Streamed' /\ Covered'
  BY <1>1, <1>2, Narrows DEF FairInv
<1>4. Linked'
  BY DEF FairInv, Linked
<1>5. Recent'
  <2>1. now \in wire => now \in db
    BY DEF FairInv, Linked
  <2> QED BY <2>1 DEF FairInv, Recent
<1>6. InOrder(ops, idb, now, db, trimTo)'
  <2> HIDE DEF InOrder
  <2> QED OBVIOUS
<1> QED BY <1>3, <1>4, <1>5, <1>6 DEF FairInv

LEMMA Issues ==
  ASSUME WholeMs, Base, FairInv, NEW o \in IdbOp, o.op \notin {"clear", "evictToSize"},
         now \in o.rows => now \in db
  PROVE  /\ \A r \in db : Safe(r, ops, idb) => Safe(r, Append(ops, o), idb)
         /\ o.op = "store" => \A r \in o.rows : Safe(r, Append(ops, o), idb)
         /\ InOrder(Append(ops, o), idb, now, db, trimTo)
<1>1. ops \in Seq(IdbOp) /\ o.op # "clear" /\ o.op # "evictToSize"
  BY DEF Base, Typed
<1>2. InOrder(Append(ops, o), idb, now, db, trimTo)
  BY <1>1, InOrderIssued DEF FairInv
<1> QED BY <1>1, <1>2, SafeIssued

LEMMA FlushTickFair ==
  ASSUME WholeMs, Base, FairInv, env \subseteq Fair, NEW evict \in BOOLEAN, FlushTick(evict)
  PROVE  FairInv'
<1> DEFINE flushed == IF pend = {} THEN ops ELSE Append(ops, StoreOp(pend, Live))
<1>1. /\ UNCHANGED <<env, now, db, up, wire, conn, buf, idb, trimTo, loads>>
      /\ pend' = {} /\ cov' = IF conn THEN ExtendLive(cov, NowMs) ELSE cov
      /\ ops' = IF evict THEN Append(flushed, EvictSizeOp) ELSE flushed
      /\ evict => trimTo = NoLive /\ \A i \in DOMAIN ops : ops[i].op # "evictToSize"
  BY DEF FlushTick
<1>2. wire = {}
  BY FairEvents DEF FlushTick
<1>3. /\ now \in Nat /\ NowMs = now /\ now \in 0 .. now /\ db \subseteq 0 .. now /\ cov \in CoversTo(now)
      /\ pend \in SUBSET (0 .. now) /\ ops \in Seq(IdbOp) /\ Typed
  <2>1. now \in Nat /\ NowMs = now /\ now \in 0 .. now
    BY Clock DEF Base
  <2> QED BY <2>1 DEF Base, Typed
<1>4. now \in pend => now \in db
  BY DEF FairInv, Recent
<1>5. /\ flushed \in Seq(IdbOp) /\ InOrder(flushed, idb, now, db, trimTo)
      /\ \A r \in db : Safe(r, ops, idb) \/ r \in pend => Safe(r, flushed, idb)
      /\ evict => \A i \in DOMAIN flushed : flushed[i].op # "evictToSize"
  <2>1. CASE pend = {}
    BY <1>1, <1>3, <2>1 DEF FairInv
  <2>2. CASE pend # {}
    <3> DEFINE o == StoreOp(pend, Live)
               p == Append(ops, o)
    <3>1. o \in IdbOp /\ o.op = "store"
      <4>1. pend \in SUBSET Tick
        BY <1>3, Clock
      <4> QED BY <4>1 DEF StoreOp, IdbOp
    <3> HIDE DEF o
    <3>2. flushed = p
      BY <2>2 DEF o
    <3>3. p \in Seq(IdbOp) /\ DOMAIN ops = 1 .. Len(ops) /\ DOMAIN p = 1 .. Len(ops) + 1 /\ Len(ops) \in Nat
          /\ (\A i \in 1 .. Len(ops) : p[i] = ops[i]) /\ p[Len(ops) + 1] = o
      BY <1>3, <3>1, Appended
    <3> HIDE DEF p, flushed
    <3>4. evict => \A i \in DOMAIN p : p[i].op # "evictToSize"
      BY <1>1, <3>1, <3>3
    <3>5. \A r \in db : Safe(r, ops, idb) \/ r \in pend => Safe(r, p, idb)
      BY <1>3, FlushAccounts DEF p, o
    <3>6. InOrder(p, idb, now, db, trimTo)
      BY <1>3, <1>4, FlushOrder DEF p, o, FairInv
    <3> QED BY <3>2, <3>3, <3>4, <3>5, <3>6
  <2> QED BY <2>1, <2>2
<1> HIDE DEF flushed
<1>6. /\ InOrder(ops', idb, now, db, trimTo)
      /\ \A r \in db : Safe(r, flushed, idb) => Safe(r, ops', idb)
  <2>1. CASE ~evict
    BY <1>1, <1>5, <2>1
  <2>2. CASE evict
    <3> DEFINE o == EvictSizeOp
    <3>1. o \in IdbOp /\ o.op = "evictToSize" /\ o.op # "clear" /\ now \notin o.rows
      BY DEF EvictSizeOp, IdbOp
    <3>2. ops' = Append(flushed, o)
      BY <1>1, <2>2
    <3> HIDE DEF o
    <3>3. InOrder(Append(flushed, o), idb, now, db, trimTo)
      BY <1>1, <1>5, <2>2, <3>1, InOrderIssued
    <3> QED BY <1>5, <3>1, <3>2, <3>3, SafeIssued
  <2> QED BY <2>1, <2>2
<1>7. \A r \in db : Account(r) => Account(r)'
  BY <1>1, <1>2, <1>5, <1>6 DEF Account
<1>8. Streamed' /\ Covered'
  <2>1. CASE conn
    <3>1. ExtendLive(cov, now).live = now
      BY <1>3, ExtendCovers
    <3>2. cov'.pts = ExtendLive(cov, now).pts /\ cov'.live \in {now, NoLive}
      BY <1>1, <1>3, <2>1, <3>1
    <3> QED BY <1>1, <1>3, <1>7, <2>1, <3>2, Extends DEF FairInv
  <2>2. CASE ~conn
    <3>1. cov' = cov
      BY <1>1, <2>2
    <3>2. cov.live # NoLive => cov.live \in Nat
      BY <1>3, OtherCovers
    <3> QED BY <1>1, <1>3, <1>7, <3>1, <3>2, Narrows DEF FairInv
  <2> QED BY <2>1, <2>2
<1>9. Linked' /\ Recent' /\ NoStaleStore'
  BY <1>1, <1>2 DEF FairInv, Linked, Recent, NoStaleStore
<1>10. InOrder(ops, idb, now, db, trimTo)'
  BY <1>1, <1>6
<1> QED BY <1>8, <1>9, <1>10 DEF FairInv

LEMMA TrimFair ==
  ASSUME WholeMs, Base, FairInv, TrimAfterEvict
  PROVE  FairInv'
<1>1. /\ UNCHANGED <<env, now, db, up, wire, conn, buf, pend, idb, ops, loads>>
      /\ trimTo # NoLive /\ cov' = Trim(cov, trimTo) /\ trimTo' = NoLive
  BY DEF TrimAfterEvict
<1>2. /\ now \in Nat /\ trimTo \in 0 .. now /\ cov \in CoversTo(now) /\ db \subseteq 0 .. now
  <2>1. now \in Nat
    BY Clock DEF Base
  <2> QED BY <1>1, <2>1 DEF Base, Typed
<1>3. /\ cov'.pts = {p \in cov.pts : p >= trimTo} /\ (cov'.live = NoLive <=> cov.live = NoLive)
      /\ cov.live # NoLive => cov'.live >= trimTo /\ cov'.live >= cov.live
      /\ cov' \in CoversTo(now)
  BY <1>1, <1>2, TrimCovers
<1>4. ASSUME NEW r \in db, r >= trimTo, Account(r) PROVE Account(r)'
  <2>1. ~(r < trimTo)
    BY <1>2, <1>4
  <2> QED BY <1>1, <1>4, <2>1 DEF Account
<1>5. Covered'
  <2>1. ASSUME NEW r \in db, r \in cov'.pts PROVE Account(r)'
    BY <1>3, <1>4, <2>1 DEF FairInv, Covered
  <2> QED BY <1>1, <2>1 DEF Covered
<1>6. Streamed'
  <2>1. ASSUME conn, NEW r \in db, r = now \/ (cov'.live # NoLive /\ r >= cov'.live) PROVE Account(r)'
    <3>1. cov.live # NoLive => cov.live \in 0 .. now /\ cov'.live \in 0 .. now
      BY <1>2, <1>3, OtherCovers
    <3>2. r >= trimTo /\ (r = now \/ (cov.live # NoLive /\ r >= cov.live))
      BY <1>2, <1>3, <2>1, <3>1
    <3> QED BY <1>4, <2>1, <3>2 DEF FairInv, Streamed
  <2> QED BY <1>1, <2>1 DEF Streamed
<1>7. InOrder(ops, idb, now, db, trimTo)'
  <2>1. InOrder(ops, idb, now, db, NoLive)
    BY DEF FairInv, InOrder
  <2> QED BY <1>1, <2>1
<1>8. Linked' /\ Recent' /\ NoStaleStore'
  BY <1>1, <1>3 DEF FairInv, Linked, Recent, NoStaleStore
<1> QED BY <1>5, <1>6, <1>7, <1>8 DEF FairInv

LEMMA ConnectFair ==
  ASSUME WholeMs, Base, FairInv, env \subseteq Fair, Connect
  PROVE  FairInv'
<1>1. /\ cov' = ExtendLive(cov, now) /\ FreeLoad \in LoadId /\ conn' = TRUE /\ up' = TRUE /\ ~conn
      /\ UNCHANGED <<env, now, db, wire, buf, pend, idb, ops, trimTo>>
      /\ now \notin db
  BY ConnectDoes, FairEvents
<1>2. PICK x : ~x.stale /\ loads' = [loads EXCEPT ![FreeLoad] = x]
  BY ConnectDoes DEF Proceed
<1>3. NoStaleStore'
  BY <1>1, <1>2, StaleStays DEF FairInv, Base
<1>4. now \in Nat /\ now \in 0 .. now /\ cov \in CoversTo(now) /\ db \subseteq 0 .. now
  <2>1. now \in Nat /\ now \in 0 .. now
    BY Clock DEF Base
  <2> QED BY <2>1 DEF Base, Typed
<1>5. wire = {} /\ cov.live = NoLive
  BY <1>1 DEF FairInv, Linked
<1>6. cov'.live = now /\ \A p \in cov'.pts : p \in cov.pts \/ p = now
  BY <1>1, <1>4, <1>5, ExtendCovers
<1>7. \A r \in db : Account(r) => Account(r)'
  BY <1>1 DEF Account
<1>8. Covered'
  BY <1>1, <1>6, <1>7 DEF FairInv, Covered
<1>9. Streamed'
  <2>1. ASSUME NEW r \in db, r = now \/ r >= now PROVE FALSE
    BY <1>1, <1>4, <2>1
  <2> QED BY <1>1, <1>6, <2>1 DEF Streamed
<1>10. Linked' /\ Recent'
  BY <1>1, <1>5 DEF FairInv, Linked, Recent
<1>11. InOrder(ops, idb, now, db, trimTo)'
  BY <1>1 DEF FairInv
<1> QED BY <1>3, <1>8, <1>9, <1>10, <1>11 DEF FairInv

LEMMA DisconnectFair ==
  ASSUME WholeMs, Base, FairInv, env \subseteq Fair, Disconnect
  PROVE  FairInv'
<1>1. /\ conn /\ conn' = FALSE /\ up' = FALSE /\ wire' = {} /\ cov' = CloseLive(ExtendLive(cov, NowMs))
      /\ UNCHANGED <<env, now, db, buf, pend, idb, ops, trimTo, loads>>
      /\ wire = {}
  BY FairEvents DEF Disconnect
<1>2. now \in Nat /\ NowMs = now /\ now \in 0 .. now /\ cov \in CoversTo(now) /\ db \subseteq 0 .. now
  <2>1. now \in Nat /\ NowMs = now /\ now \in 0 .. now
    BY Clock DEF Base
  <2> QED BY <2>1 DEF Base, Typed
<1>3. cov'.pts = ExtendLive(cov, now).pts /\ cov'.live = NoLive
  <2>1. ExtendLive(cov, now) \in CoversTo(now)
    BY <1>2, ExtendCovers
  <2> QED BY <1>1, <1>2, <2>1, OtherCovers
<1>4. \A r \in db : Account(r) => Account(r)'
  BY <1>1 DEF Account
<1>5. Streamed' /\ Covered'
  BY <1>1, <1>2, <1>3, <1>4, Extends DEF FairInv
<1>6. Linked' /\ Recent' /\ NoStaleStore'
  BY <1>1, <1>3 DEF FairInv, Linked, Recent, NoStaleStore
<1>7. InOrder(ops, idb, now, db, trimTo)'
  BY <1>1 DEF FairInv
<1> QED BY <1>5, <1>6, <1>7 DEF FairInv

LEMMA StartupInfoFair ==
  ASSUME WholeMs, Base, Base', FairInv, NEW l \in LoadId, StartupInfo(l)
  PROVE  FairInv'
<1>1. /\ UNCHANGED <<env, now, db, up, wire, conn, buf, pend, saved, idb, trimTo>>
      /\ \/ /\ cov' = Trim(cov, NowMs - Retention)
            /\ ops' = ops \o <<ReadOp(l), EvictBeforeOp(NowMs - Retention)>>
         \/ ops' = Append(ops, ReadOp(l)) /\ UNCHANGED cov
  BY DEF StartupInfo
<1> DEFINE rd == ReadOp(l)
           q  == Append(ops, rd)
<1>2. rd.by = l /\ rd.op = "read" /\ rd.rows = {} /\ rd \in IdbOp
  BY StartupInfoBase
<1>3. PICK x \in Load : loads' = [loads EXCEPT ![l] = x] /\ x.pc = "readAll"
  BY StartupInfoBase
<1>4. NoStaleStore'
  BY <1>3, StaleStays DEF FairInv, Base
<1>5. now \in Nat /\ NowMs = now /\ cov \in CoversTo(now) /\ now - Retention \in Int /\ now - Retention <= now
      /\ ops \in Seq(IdbOp) /\ Typed
  <2>1. now \in Nat /\ NowMs = now
    BY Clock DEF Base
  <2> QED BY <2>1, BoundsAssumption DEF Base, Typed
<1> HIDE DEF rd
<1>6. /\ \A r \in db : Safe(r, ops, idb) => Safe(r, q, idb)
      /\ InOrder(q, idb, now, db, trimTo) /\ q \in Seq(IdbOp)
  BY <1>2, <1>5, Issues, Appended
<1> HIDE DEF q
<1>7. CASE ops' = q /\ UNCHANGED cov
  <2>1. cov.live # NoLive => cov.live >= cov.live
    <3>1. cov.live # NoLive => cov.live \in Nat
      BY <1>5, OtherCovers
    <3> QED BY <3>1
  <2> QED BY <1>1, <1>4, <1>6, <1>7, <2>1, Quietly
<1>8. CASE /\ cov' = Trim(cov, now - Retention)
           /\ ops' = ops \o <<rd, EvictBeforeOp(now - Retention)>>
  <2> DEFINE o == EvictBeforeOp(now - Retention)
  <2>1. o \in IdbOp /\ o.op = "evictBefore" /\ o.rows = {}
    BY <1>5 DEF EvictBeforeOp, IdbOp
  <2> HIDE DEF o
  <2>2. ops' = Append(q, o)
    BY <1>2, <1>5, <1>8, <2>1, AppendedTwice DEF q, o
  <2>3. \A r : Safe(r, q, idb) => Safe(r, ops', idb)
    BY <1>6, <2>1, <2>2, SafeIssued
  <2>4. InOrder(ops', idb, now, db, trimTo)
    BY <1>6, <2>1, <2>2, InOrderIssued
  <2>5. cov'.pts \subseteq cov.pts /\ (cov'.live # NoLive => cov.live # NoLive /\ cov'.live >= cov.live)
    BY <1>5, <1>8, TrimCovers
  <2> QED BY <1>1, <1>4, <1>6, <2>3, <2>4, <2>5, Quietly
<1> QED BY <1>1, <1>5, <1>7, <1>8 DEF q, rd

LEMMA FetchFair ==
  ASSUME WholeMs, Base, Base', FairInv, NEW l \in LoadId, FetchAnswer(l)
  PROVE  FairInv'
<1>1. /\ UNCHANGED <<env, now, db, up, wire, conn, pend, idb, trimTo>>
      /\ loads[l].start \in Nat /\ loads[l].cursor \in Int /\ loads[l].cursor <= now
      /\ FetchIgnored(l) \/ FetchEmpty(l) \/ FetchShown(l)
  BY FetchDoes
<1>2. now \in Nat /\ cov \in CoversTo(now) /\ db \subseteq 0 .. now /\ Typed
  <2>1. now \in Nat
    BY Clock DEF Base
  <2> QED BY <2>1 DEF Base, Typed
<1>3. cov.live # NoLive => cov.live \in Nat /\ cov.live >= cov.live
  <2>1. cov.live # NoLive => cov.live \in Nat
    BY <1>2, OtherCovers
  <2> QED BY <2>1
<1>4. InOrder(ops, idb, now, db, trimTo)
  BY DEF FairInv
<1>5. CASE FetchIgnored(l)
  <2>1. loads' = [loads EXCEPT ![l] = IdleLoad] /\ UNCHANGED <<buf, cov, ops, saved>>
    BY <1>5 DEF FetchIgnored
  <2>2. ~IdleLoad.stale
    BY DEF IdleLoad
  <2>3. NoStaleStore'
    BY <1>2, <2>1, <2>2, StaleStays DEF FairInv
  <2> QED BY <1>1, <1>3, <1>4, <2>1, <2>3, Quietly
<1>6. CASE FetchEmpty(l)
  <2>1. /\ UNCHANGED <<buf, ops>>
        /\ \A r \in db : r \notin loads[l].start .. loads[l].cursor
        /\ cov' = Add(cov, loads[l].start, loads[l].cursor)
    BY <1>6 DEF FetchEmpty
  <2>2. PICK x : ~x.stale /\ loads' = [loads EXCEPT ![l] = x]
    BY <1>6 DEF FetchEmpty, Proceed
  <2>3. NoStaleStore'
    BY <1>2, <2>2, StaleStays DEF FairInv
  <2>4. cov'.live = cov.live /\ cov'.pts = cov.pts \cup (loads[l].start .. loads[l].cursor)
    <3> DEFINE from == loads[l].start
               to == loads[l].cursor
    <3>1. from \in Nat /\ to \in Int /\ to <= now /\ cov' = Add(cov, from, to)
      BY <1>1, <2>1
    <3> HIDE DEF from, to
    <3>2. cov'.live = cov.live /\ cov'.pts = cov.pts \cup (from .. to)
      BY <1>2, <3>1, AddCovers
    <3> QED BY <3>2 DEF from, to
  <2> QED BY <1>1, <1>3, <1>4, <2>1, <2>3, <2>4, Quietly
<1>7. CASE FetchShown(l)
  <2>1. UNCHANGED <<cov, saved>>
    BY <1>7 DEF FetchShown
  <2>2. PICK fetched \in SUBSET db : \E x \in Load :
           /\ buf' \in BufferWith(fetched) /\ ops' = Append(ops, StoreOp(fetched, l))
           /\ loads' = [loads EXCEPT ![l] = x] /\ ~x.stale
    BY <1>7 DEF FetchShown
  <2>3. PICK x \in Load : loads' = [loads EXCEPT ![l] = x] /\ ~x.stale
    BY <2>2
  <2>4. NoStaleStore'
    BY <1>2, <2>3, StaleStays DEF FairInv
  <2> DEFINE o == StoreOp(fetched, l)
  <2>5. o \in IdbOp /\ o.op = "store" /\ o.rows = fetched
    <3>1. fetched \in SUBSET (0 .. now)
      BY <1>2
    <3>2. fetched \in SUBSET Tick
      BY <1>2, <3>1, Clock
    <3> QED BY <3>2 DEF StoreOp, IdbOp
  <2>6. ops' = Append(ops, o) /\ buf' \in BufferWith(fetched)
    BY <2>2
  <2> HIDE DEF o
  <2>7. /\ \A r \in db : Safe(r, ops, idb) => Safe(r, ops', idb)
        /\ \A r \in fetched : Safe(r, ops', idb)
        /\ InOrder(ops', idb, now, db, trimTo)
    BY <2>5, <2>6, Issues
  <2>8. buf' \subseteq buf \cup fetched
    BY <2>6, Shows
  <2> QED BY <1>1, <1>3, <2>1, <2>4, <2>7, <2>8, Quietly
<1> QED BY <1>1, <1>5, <1>6, <1>7

LEMMA FetchFailsFair ==
  ASSUME WholeMs, Base, Base', FairInv, NEW l \in LoadId, FetchFails(l)
  PROVE  FairInv'
<1>1. /\ UNCHANGED <<env, now, db, up, wire, conn, buf, pend, cov, saved, idb, ops, trimTo>>
      /\ loads' = [loads EXCEPT ![l] = IdleLoad] /\ ~IdleLoad.stale
  BY DEF FetchFails, IdleLoad
<1>2. NoStaleStore'
  BY <1>1, StaleStays DEF FairInv, Base
<1> QED BY <1>1, <1>2 DEF FairInv, Linked, Recent, Streamed, Covered, Account

LEMMA LoadRangeFair ==
  ASSUME WholeMs, Base, Base', FairInv, NEW s \in Tick, NEW e \in Tick, LoadRange(s, e)
  PROVE  FairInv'
<1>1. /\ UNCHANGED <<env, now, db, up, wire, conn, buf, pend, cov, saved, idb, trimTo>>
      /\ FreeLoad \in LoadId /\ ops' = Append(ops, ReadOp(FreeLoad))
      /\ ReadOp(FreeLoad) \in IdbOp /\ ReadOp(FreeLoad).op = "read" /\ ReadOp(FreeLoad).rows = {}
  BY LoadRangeDoes
<1>2. PICK x \in Load : loads' = [loads EXCEPT ![FreeLoad] = x] /\ ~x.stale
  BY LoadRangeDoes
<1>3. NoStaleStore'
  BY <1>1, <1>2, StaleStays DEF FairInv, Base
<1>4. /\ \A r \in db : Safe(r, ops, idb) => Safe(r, ops', idb)
      /\ InOrder(ops', idb, now, db, trimTo)
  BY <1>1, Issues
<1>5. cov.live # NoLive => cov.live >= cov.live
  <2>1. now \in Nat /\ cov \in CoversTo(now)
    <3>1. now \in Nat
      BY Clock DEF Base
    <3> QED BY <3>1 DEF Base, Typed
  <2>2. cov.live # NoLive => cov.live \in Nat
    BY <2>1, OtherCovers
  <2> QED BY <2>2
<1> QED BY <1>1, <1>3, <1>4, <1>5, Quietly

LEMMA ClearFair ==
  ASSUME WholeMs, Base, FairInv, env \subseteq Fair, Clear
  PROVE  FairInv'
<1>1. /\ \A l \in LoadId : loads'[l].pc = loads[l].pc
      /\ ops' = Append(ops, ClearOp) /\ ClearOp \in IdbOp
      /\ ClearOp.op = "clear" /\ ClearOp.rows = {} /\ ClearOp.by = Live
      /\ buf' = {} /\ pend' = {} /\ cov'.pts = {} /\ cov'.live = NoLive
      /\ UNCHANGED <<env, now, db, up, wire, conn, idb, trimTo>>
      /\ now \notin db /\ \A l \in LoadId : loads[l].pc # "store"
  BY ClearDoes, FairEvents
<1>2. wire = {} /\ now \notin idb
  BY <1>1 DEF FairInv, Linked, Recent
<1>3. now \in Nat /\ db \subseteq 0 .. now /\ ops \in Seq(IdbOp)
  <2>1. now \in Nat
    BY Clock DEF Base
  <2> QED BY <2>1 DEF Base, Typed
<1>4. \A i \in DOMAIN ops : ops[i].op = "store" => ops[i].by = Live
  <2>1. SUFFICES ASSUME NEW i \in DOMAIN ops, ops[i].op = "store", ops[i].by # Live PROVE FALSE
    OBVIOUS
  <2>2. ops[i].by \in LoadId
    BY <1>3, <2>1, OpFields
  <2>3. Serves(ops[i], loads[ops[i].by])
    BY <2>1 DEF Base, QueueRight, OpRight
  <2> QED BY <1>1, <2>1, <2>2, <2>3 DEF Serves
<1>5. InOrder(Append(ops, ClearOp), idb, now, db, trimTo)
  <2> HIDE DEF ClearOp
  <2> QED BY <1>1, <1>2, <1>3, <1>4, InOrderIssued DEF FairInv
<1>6. InOrder(ops, idb, now, db, trimTo)'
  BY <1>1, <1>5
<1>7. Linked' /\ Recent' /\ Covered'
  BY <1>1, <1>2 DEF FairInv, Linked, Recent, Covered
<1>8. Streamed'
  BY <1>1 DEF Streamed
<1>9. NoStaleStore'
  BY <1>1 DEF NoStaleStore
<1> QED BY <1>6, <1>7, <1>8, <1>9 DEF FairInv

(* The oldest operation of IndexedDB completes; clock, backend and socket stand
   still. *)
LEMMA Completes ==
  ASSUME WholeMs, Base, Base', FairInv, NoStaleStore', ops # <<>>, ops' = Tail(ops),
         UNCHANGED <<now, db, up, wire, conn, pend>>,
         \A r \in db : Account(r) => Account(r)',
         Safe(now, ops, idb) => Safe(now, ops', idb'),
         now \in idb' => now \in idb \/ now \in Head(ops).rows,
         trimTo' # trimTo => Head(ops).op = "evictToSize",
         \A r \in db : r \in cov'.pts => r \in cov.pts \/ Account(r)',
         cov'.live = cov.live,
         now \in buf' => now \in buf \/ (now \in db /\ (now \in wire => Safe(now, ops', idb')))
  PROVE  FairInv'
<1>1. now \in Nat /\ db \subseteq 0 .. now /\ cov \in CoversTo(now) /\ cov' \in CoversTo(now)
      /\ ops \in Seq(IdbOp)
  <2>1. now \in Nat
    BY Clock DEF Base
  <2> QED BY <2>1 DEF Base, Typed
<1>2. cov.live # NoLive => cov.live \in Nat
  BY <1>1, OtherCovers
<1>3. Streamed' /\ Covered'
  <2>1. cov'.live # NoLive => cov.live # NoLive /\ cov'.live >= cov.live
    BY <1>2
  <2> QED BY <1>1, <2>1, Narrows DEF FairInv
<1>4. Linked'
  BY DEF FairInv, Linked
<1>5. now \in Head(ops).rows => now \in db
  BY <1>1, Taken DEF FairInv, InOrder
<1>6. Recent'
  BY <1>5 DEF FairInv, Recent
<1>7. InOrder(ops, idb, now, db, trimTo)'
  <2>1. InOrder(ops, idb, now, db, trimTo)
    BY DEF FairInv
  <2>2. InOrder(Tail(ops), idb', now, db, trimTo')
    BY <1>1, <2>1, InOrderCompleted
  <2> QED BY <2>2
<1> QED BY <1>3, <1>4, <1>6, <1>7 DEF FairInv

(* The head of the queue is not a clear, and loses nothing the backend has. *)
LEMMA SafeStays ==
  ASSUME Typed, ops # <<>>, ops' = Tail(ops), NEW r, Safe(r, ops, idb),
         Head(ops).op # "clear" /\ r \in idb => r \in idb',
         Head(ops).op = "store" /\ r \in Head(ops).rows => r \in idb'
  PROVE  Safe(r, ops', idb')
<1>1. ops \in Seq(IdbOp)
  BY DEF Typed
<1>2. Safe(r, Tail(ops), idb')
  BY <1>1, SafeCompleted
<1> QED BY <1>2

LEMMA LiveStoreFair ==
  ASSUME WholeMs, Base, Base', FairInv, env \subseteq Fair, LiveStoreDone
  PROVE  FairInv'
<1>1. /\ ops # <<>> /\ ops' = Tail(ops) /\ idb' = idb \cup Head(ops).rows
      /\ UNCHANGED <<env, now, db, up, wire, conn, buf, pend, cov, trimTo, loads>>
  <2>1. PICK ok \in Outcomes : idb' = IF ok THEN idb \cup Head(ops).rows ELSE idb
    BY DEF LiveStoreDone
  <2>2. ok = TRUE
    BY <2>1, FairEvents
  <2> QED BY <2>1, <2>2 DEF LiveStoreDone
<1>2. \A r : Safe(r, ops, idb) => Safe(r, ops', idb')
  BY <1>1, SafeStays DEF Base
<1>3. \A r \in db : Account(r) => Account(r)'
  BY <1>1, <1>2 DEF Account
<1>4. NoStaleStore'
  BY <1>1 DEF FairInv, NoStaleStore
<1> QED BY <1>1, <1>2, <1>3, <1>4, Completes

LEMMA ChunkFair ==
  ASSUME WholeMs, Base, Base', FairInv, env \subseteq Fair, NEW l \in LoadId, ChunkStoreDone(l)
  PROVE  FairInv'
<1>1. /\ ops # <<>> /\ ops' = Tail(ops) /\ Head(ops).op = "store" /\ Head(ops).by = l
      /\ loads[l].pc = "store" /\ Head(ops).rows = loads[l].rows /\ KnowsAll(loads[l], db)
      /\ UNCHANGED <<env, now, db, up, wire, conn, buf, pend, trimTo>>
  BY ChunkDoes
<1>2. idb' = idb \cup loads[l].rows /\ cov' = ChunkCovered(cov, loads[l], TRUE)
  BY ChunkDoes, FairEvents
<1>3. PICK x \in Load : loads' = [loads EXCEPT ![l] = x] /\ x.pc \in {"idle", "fetch"}
  BY ChunkDoes
<1>4. NoStaleStore'
  BY <1>3, StaleStays DEF FairInv, Base
<1>5. \A r : Safe(r, ops, idb) => Safe(r, ops', idb')
  BY <1>1, <1>2, SafeStays DEF Base
<1>6. \A r \in db : Account(r) => Account(r)'
  BY <1>1, <1>5 DEF Account
<1>7. \A r \in loads[l].rows : Safe(r, ops', idb')
  <2> SUFFICES ASSUME NEW r \in loads[l].rows PROVE Safe(r, ops', idb')
    OBVIOUS
  <2>1. ops \in Seq(IdbOp) /\ DOMAIN ops = 1 .. Len(ops) /\ Head(ops) = ops[1] /\ Len(ops) \in Nat /\ Len(ops) >= 1
    BY <1>1, Taken DEF Base, Typed
  <2>2. 1 \in DOMAIN ops /\ ops[1].op = "store" /\ ops[1].by # Live /\ r \in ops[1].rows
    BY <1>1, <2>1 DEF LoadId, Live
  <2>3. \A j \in 1 + 1 .. Len(ops) : ops[j].op # "clear"
    BY <2>2 DEF FairInv, InOrder
  <2>4. Safe(r, ops, idb)
    BY <2>2, <2>3 DEF Safe
  <2> QED BY <1>5, <2>4
<1>8. /\ cov'.live = cov.live
      /\ \A p \in cov'.pts : p \in cov.pts \/ p \in Claimed(loads[l])
  BY <1>1, <1>2, ChunkCovers
<1>9. \A r \in db : r \in cov'.pts => r \in cov.pts \/ Account(r)'
  <2> SUFFICES ASSUME NEW r \in db, r \in cov'.pts, r \notin cov.pts PROVE Account(r)'
    OBVIOUS
  <2>1. r \in loads[l].rows
    BY <1>1, <1>8 DEF KnowsAll
  <2>2. Safe(r, ops', idb')
    BY <1>7, <2>1
  <2> QED BY <2>2 DEF Account
<1> QED BY <1>1, <1>2, <1>4, <1>5, <1>6, <1>8, <1>9, Completes

LEMMA ReadFair ==
  ASSUME WholeMs, Base, Base', FairInv, NEW l \in LoadId, CacheRead(l)
  PROVE  FairInv'
<1>1. /\ ops # <<>> /\ ops' = Tail(ops) /\ Head(ops).op = "read"
      /\ UNCHANGED <<env, now, db, up, wire, conn, pend, cov, idb, trimTo>>
  BY ReadDoes
<1>2. PICK x : ~x.stale /\ loads' = [loads EXCEPT ![l] = x]
  <2>1. ~IdleLoad.stale
    BY DEF IdleLoad
  <2> QED BY <2>1, ReadDoes
<1>3. NoStaleStore'
  BY <1>2, StaleStays DEF FairInv, Base
<1>4. \A r : Safe(r, ops, idb) => Safe(r, ops', idb')
  BY <1>1, SafeStays DEF Base
<1>5. \A r \in db : Account(r) => Account(r)'
  BY <1>1, <1>4 DEF Account
<1>6. buf' \subseteq buf \cup idb
  <2>1. UNCHANGED buf \/ \E S \in SUBSET idb : buf' \in BufferWith(S)
    BY ReadDoes
  <2> QED BY <2>1, Shows
<1>7. now \in idb => now \in db /\ Safe(now, ops', idb')
  <2> HAVE now \in idb
  <2>1. ~Cleared(ops)
    BY DEF FairInv, InOrder, Cleared
  <2>2. Safe(now, ops, idb)
    BY <2>1 DEF Safe
  <2> QED BY <1>4, <2>2 DEF FairInv, Recent
<1> QED BY <1>1, <1>3, <1>4, <1>5, <1>6, <1>7, Completes

LEMMA CacheClearedFair ==
  ASSUME WholeMs, Base, Base', FairInv, env \subseteq Fair, CacheCleared
  PROVE  FairInv'
<1>1. /\ ops # <<>> /\ ops' = Tail(ops) /\ Head(ops).op = "clear" /\ idb' = {}
      /\ UNCHANGED <<env, now, db, up, wire, conn, buf, pend, cov, saved, trimTo, loads>>
  <2>1. PICK ok \in Outcomes : idb' = IF ok THEN {} ELSE idb
    BY DEF CacheCleared
  <2>2. ok = TRUE
    BY <2>1, FairEvents
  <2> QED BY <2>1, <2>2 DEF CacheCleared
<1>2. \A r : Safe(r, ops, idb) => Safe(r, ops', idb')
  BY <1>1, SafeStays DEF Base
<1>3. \A r \in db : Account(r) => Account(r)'
  BY <1>1, <1>2 DEF Account
<1>4. NoStaleStore'
  BY <1>1 DEF FairInv, NoStaleStore
<1> QED BY <1>1, <1>2, <1>3, <1>4, Completes

(* The backend keeps nothing that is evicted for its age. *)
LEMMA EvictsPast ==
  ASSUME WholeMs, Base, EvictedBefore
  PROVE  \A r \in db : r \in idb => r \in idb'
<1>1. /\ ops # <<>> /\ Head(ops).op = "evictBefore"
      /\ idb' = idb \/ idb' = {r \in idb : Ms(r) >= Head(ops).min}
  BY DEF EvictedBefore
<1>2. Head(ops).min \in Int /\ Head(ops).min <= now - Retention
  BY <1>1, HeadIs DEF IdbOp
<1>3. now \in Nat /\ Retention \in Nat /\ db \subseteq 0 .. now
  <2>1. now \in Nat
    BY Clock DEF Base
  <2> QED BY <2>1, BoundsAssumption DEF Base, Typed
<1>4. SUFFICES ASSUME NEW r \in db, r \in idb PROVE r \in idb'
  OBVIOUS
<1>5. r \in Int /\ r >= now - Retention /\ Ms(r) = r
  <2>1. r \in Int
    BY <1>3
  <2> QED BY <2>1, MsIs DEF Base, Retained
<1> QED BY <1>1, <1>2, <1>3, <1>4, <1>5

LEMMA EvictedBeforeFair ==
  ASSUME WholeMs, Base, Base', FairInv, env \subseteq Fair, EvictedBefore
  PROVE  FairInv'
<1>1. /\ ops # <<>> /\ ops' = Tail(ops) /\ Head(ops).op = "evictBefore"
      /\ idb' = {r \in idb : Ms(r) >= Head(ops).min}
      /\ UNCHANGED <<env, now, db, up, wire, conn, buf, pend, cov, saved, trimTo, loads>>
  <2>1. PICK ok \in Outcomes : idb' = IF ok THEN {r \in idb : Ms(r) >= Head(ops).min} ELSE idb
    BY DEF EvictedBefore
  <2>2. ok = TRUE
    BY <2>1, FairEvents
  <2> QED BY <2>1, <2>2 DEF EvictedBefore
<1>4. \A r \in db : r \in idb => r \in idb'
  BY EvictsPast
<1>5. \A r \in db : Safe(r, ops, idb) => Safe(r, ops', idb')
  BY <1>1, <1>4, SafeStays DEF Base
<1>6. \A r \in db : Account(r) => Account(r)'
  BY <1>1, <1>5 DEF Account
<1>7. NoStaleStore'
  BY <1>1 DEF FairInv, NoStaleStore
<1>8. Safe(now, ops, idb) => Safe(now, ops', idb')
  <2>1. now \in idb => now \in idb'
    BY <1>4 DEF FairInv, Recent
  <2> QED BY <1>1, <2>1, SafeStays DEF Base
<1> QED BY <1>1, <1>6, <1>7, <1>8, Completes

LEMMA EvictedToSizeFair ==
  ASSUME WholeMs, Base, Base', FairInv, EvictedToSize
  PROVE  FairInv'
<1>1. /\ ops # <<>> /\ ops' = Tail(ops) /\ Head(ops).op = "evictToSize"
      /\ UNCHANGED <<env, now, db, up, wire, conn, buf, pend, cov, saved, loads>>
      /\ \/ /\ Cardinality(idb) > MaxCache
            /\ idb' \in Newest(idb, MaxCache, TicksPerMs) /\ trimTo' = OldestMs(idb')
         \/ UNCHANGED <<idb, trimTo>>
  BY DEF EvictedToSize
<1>2. now \in Nat /\ idb \in SUBSET (0 .. now) /\ db \subseteq 0 .. now /\ ops \in Seq(IdbOp) /\ Typed
  <2>1. now \in Nat
    BY Clock DEF Base
  <2> QED BY <2>1 DEF Base, Typed
<1>3. trimTo = NoLive
  BY <1>1, <1>2, Taken DEF FairInv, InOrder
<1>4. NoStaleStore'
  BY <1>1 DEF FairInv, NoStaleStore
<1>5. CASE UNCHANGED <<idb, trimTo>>
  <2>1. \A r : Safe(r, ops, idb) => Safe(r, ops', idb')
    BY <1>1, <1>5, SafeStays DEF Base
  <2>2. \A r \in db : Account(r) => Account(r)'
    BY <1>1, <1>5, <2>1 DEF Account
  <2> QED BY <1>1, <1>4, <1>5, <2>1, <2>2, Completes
<1>6. CASE /\ Cardinality(idb) > MaxCache
           /\ idb' \in Newest(idb, MaxCache, TicksPerMs) /\ trimTo' = OldestMs(idb')
  <2>1. MaxCache \in Nat /\ MaxCache # 0 /\ Cardinality(idb) \in Nat
    BY <1>2, SizesAssumption, Finite
  <2>2. idb # {}
    BY <1>6, <2>1, FS_EmptySet
  <2>3. idb' \in Newest(idb, MaxCache, 1)
    BY <1>6 DEF WholeMs
  <2>4. /\ idb' \subseteq idb /\ idb' # {} /\ Least(idb') \in idb'
        /\ \A q \in idb \ idb' : q < Least(idb')
    BY <1>2, <2>1, <2>2, <2>3, NewestAre
  <2>5. trimTo' = Least(idb') /\ Least(idb') \in 0 .. now
    <3>1. idb' \in SUBSET (0 .. now)
      BY <1>2, <2>4
    <3>2. OldestMs(idb') = Least(idb')
      BY <1>2, <3>1, Clock
    <3> QED BY <1>6, <2>4, <3>1, <3>2
  <2>6. trimTo' # NoLive
    BY <2>5, NoLiveAssumption
  <2>7. ASSUME NEW r, Safe(r, ops, idb)
        PROVE  Safe(r, ops', idb') \/ (r \in idb /\ r < trimTo')
    <3>1. CASE r \in idb => r \in idb'
      BY <1>1, <1>2, <2>7, <3>1, SafeStays
    <3>2. CASE r \in idb \ idb'
      BY <2>4, <2>5, <3>2
    <3> QED BY <3>1, <3>2
  <2>8. \A r \in db : Account(r) => Account(r)'
    BY <1>1, <1>3, <2>6, <2>7 DEF Account
  <2>9. Safe(now, ops, idb) => Safe(now, ops', idb')
    <3>1. ~(now < trimTo')
      BY <1>2, <2>5
    <3> QED BY <2>7, <3>1
  <2>10. now \in idb' => now \in idb
    BY <2>4
  <2> QED BY <1>1, <1>4, <2>8, <2>9, <2>10, Completes
<1> QED BY <1>1, <1>5, <1>6

LEMMA FairStep ==
  ASSUME WholeMs, Base, Base', FairInv, env \subseteq Fair, [Next]_vars
  PROVE  FairInv'
<1>1. CASE Next
  <2>1. CASE Advance \/ AddLive \/ TrimAfterEvict \/ Connect \/ Disconnect \/ LinkDies
    <3>1. ~LinkDies
      BY FairEvents DEF LinkDies
    <3> QED BY <2>1, <3>1, AdvanceFair, AddLiveFair, TrimFair, ConnectFair, DisconnectFair
  <2>2. CASE \E evict \in BOOLEAN : FlushTick(evict)
    BY <2>2, FlushTickFair
  <2>3. CASE \E l \in LoadId : StartupInfo(l) \/ FetchAnswer(l) \/ FetchFails(l)
    BY <2>3, StartupInfoFair, FetchFair, FetchFailsFair
  <2>4. CASE \E s, e \in Tick : LoadRange(s, e)
    BY <2>4, LoadRangeFair
  <2>5. CASE Clear \/ Crash
    <3>1. ~Crash
      BY FairEvents DEF Crash
    <3> QED BY <2>5, <3>1, ClearFair
  <2>6. CASE IdbStep
    BY <2>6, LiveStoreFair, ChunkFair, ReadFair, CacheClearedFair, EvictedBeforeFair, EvictedToSizeFair DEF IdbStep
  <2> QED BY <1>1, <2>1, <2>2, <2>3, <2>4, <2>5, <2>6 DEF Next
<1>2. CASE UNCHANGED vars
  <2>1. UNCHANGED <<now, db, up, wire, conn, buf, pend, cov, idb, ops, trimTo, loads>>
    BY <1>2 DEF vars
  <2>2. Linked' /\ NoStaleStore' /\ Recent' /\ Streamed' /\ Covered'
    BY <2>1 DEF FairInv, Linked, NoStaleStore, Recent, Streamed, Covered, Account
  <2>3. InOrder(ops, idb, now, db, trimTo)'
    BY <2>1 DEF FairInv
  <2> QED BY <2>2, <2>3 DEF FairInv
<1> QED BY <1>1, <1>2
-----------------------------------------------------------------------------
(* SavedIsCached: what a calm environment does. *)
LEMMA CalmEvents ==
  ASSUME env \subseteq Calm
  PROVE  /\ "halfOpen" \notin env /\ "sameMs" \notin env /\ "clearMidStore" \notin env
         /\ "connect" \notin env /\ "evict" \notin env
BY DEF Calm

(* A load that goes on unhindered is not followed by a clear. *)
LEMMA Unhindered ==
  ASSUME Base, Forgotten(ops), NEW l \in LoadId, loads[l].pc # "idle", ~loads[l].stale,
         loads[l].pc = "readRange" => ops # <<>> /\ Head(ops).by = l
  PROVE  ~Cleared(ops)
<1>1. SUFFICES ASSUME NEW i \in DOMAIN ops, ops[i].op = "clear" PROVE FALSE
  BY DEF Cleared
<1>2. loads[l].pc = "readRange" /\ \A j \in 1 .. i : ops[j].by # l
  BY <1>1 DEF Forgotten
<1>3. ops # <<>> /\ ops \in Seq(IdbOp) /\ Head(ops).by = l
  BY <1>2 DEF Base, Typed
<1>4. Head(ops) = ops[1] /\ DOMAIN ops = 1 .. Len(ops)
  BY <1>3, Taken
<1>5. 1 \in 1 .. i
  BY <1>1, <1>4
<1> QED BY <1>2, <1>3, <1>4, <1>5

LEMMA ForgottenIssued ==
  ASSUME Base, Forgotten(ops), NEW o \in IdbOp, o.op # "clear", ops' = Append(ops, o),
         NEW l \in LoadId, NEW x, loads' = [loads EXCEPT ![l] = x],
         cov'.pts \subseteq cov.pts, saved' = saved,
         Cleared(ops) => \/ x.stale
                         \/ x.pc = "readRange" /\ \A j \in DOMAIN ops : ops[j].by # l
  PROVE  Forgotten(ops)'
<1>1. ops \in Seq(IdbOp) /\ loads'[l] = x /\ \A k \in LoadId \ {l} : loads'[k] = loads[k]
  BY DEF Base, Typed
<1>2. /\ Len(ops) \in Nat /\ DOMAIN ops = 1 .. Len(ops) /\ DOMAIN ops' = 1 .. Len(ops) + 1
      /\ \A i \in 1 .. Len(ops) : ops'[i] = ops[i]
      /\ ops'[Len(ops) + 1] = o
  BY <1>1, Appended
<1>3. ASSUME NEW i \in DOMAIN ops', ops'[i].op = "clear"
      PROVE  /\ cov'.pts = {} /\ saved' = {}
             /\ \A k \in LoadId : \/ loads'[k].pc = "idle" \/ loads'[k].stale
                                  \/ loads'[k].pc = "readRange" /\ \A j \in 1 .. i : ops'[j].by # k
  <2>1. i \in DOMAIN ops /\ ops[i].op = "clear"
    BY <1>2, <1>3
  <2>2. Cleared(ops) /\ \A j \in 1 .. i : j \in DOMAIN ops /\ ops'[j] = ops[j]
    BY <1>2, <2>1 DEF Cleared
  <2>3. cov.pts = {} /\ saved = {}
    BY <2>1 DEF Forgotten
  <2>4. ASSUME NEW k \in LoadId
        PROVE  \/ loads'[k].pc = "idle" \/ loads'[k].stale
               \/ loads'[k].pc = "readRange" /\ \A j \in 1 .. i : ops'[j].by # k
    <3>1. CASE k = l
      BY <1>1, <2>2, <3>1
    <3>2. CASE k # l
      <4>1. \/ loads[k].pc = "idle" \/ loads[k].stale
            \/ loads[k].pc = "readRange" /\ \A j \in 1 .. i : ops[j].by # k
        BY <2>1 DEF Forgotten
      <4> QED BY <1>1, <2>2, <3>2, <4>1
    <3> QED BY <3>1, <3>2
  <2> QED BY <2>3, <2>4
<1> QED BY <1>3 DEF Forgotten

LEMMA ForgottenCompleted ==
  ASSUME Base, Forgotten(ops), ops # <<>>, ops' = Tail(ops),
         \A k \in LoadId : loads'[k] = loads[k] \/ loads'[k].pc = "idle",
         UNCHANGED <<cov, saved>>
  PROVE  Forgotten(ops)'
<1>1. ops \in Seq(IdbOp)
  BY DEF Base, Typed
<1>2. /\ Len(ops) \in Nat /\ DOMAIN ops = 1 .. Len(ops) /\ DOMAIN ops' = 1 .. Len(ops) - 1
      /\ \A i \in 1 .. Len(ops) - 1 : ops'[i] = ops[i + 1]
  BY <1>1, Taken
<1>3. ASSUME NEW i \in DOMAIN ops', ops'[i].op = "clear"
      PROVE  /\ cov'.pts = {} /\ saved' = {}
             /\ \A k \in LoadId : \/ loads'[k].pc = "idle" \/ loads'[k].stale
                                  \/ loads'[k].pc = "readRange" /\ \A j \in 1 .. i : ops'[j].by # k
  <2>1. i + 1 \in DOMAIN ops /\ ops[i + 1].op = "clear"
    BY <1>2, <1>3
  <2>2. \A j \in 1 .. i : j + 1 \in 1 .. i + 1 /\ ops'[j] = ops[j + 1]
    BY <1>2, <1>3
  <2>3. ASSUME NEW k \in LoadId
        PROVE  \/ loads'[k].pc = "idle" \/ loads'[k].stale
               \/ loads'[k].pc = "readRange" /\ \A j \in 1 .. i : ops'[j].by # k
    <3>1. \/ loads[k].pc = "idle" \/ loads[k].stale
          \/ loads[k].pc = "readRange" /\ \A j \in 1 .. i + 1 : ops[j].by # k
      BY <2>1 DEF Forgotten
    <3>2. loads'[k] = loads[k] \/ loads'[k].pc = "idle"
      OBVIOUS
    <3> QED BY <2>2, <3>1, <3>2
  <2> QED BY <2>1, <2>3 DEF Forgotten
<1> QED BY <1>3 DEF Forgotten

(* A load ends, and the queue stays as it is. *)
LEMMA ForgottenEnds ==
  ASSUME Base, Forgotten(ops), NEW l \in LoadId, loads' = [loads EXCEPT ![l] = IdleLoad],
         UNCHANGED <<cov, saved, ops>>
  PROVE  Forgotten(ops)'
<1>1. IdleLoad.pc = "idle"
  BY DEF IdleLoad
<1>2. loads'[l].pc = "idle" /\ \A k \in LoadId \ {l} : loads'[k] = loads[k]
  <2> HIDE DEF IdleLoad
  <2> QED BY <1>1 DEF Base, Typed
<1> QED BY <1>2 DEF Forgotten

(* What is in a queue that has grown by o, and in one that has lost its head. *)
LEMMA Members ==
  ASSUME NEW q \in Seq(IdbOp), NEW o \in IdbOp
  PROVE  /\ \A i \in DOMAIN Append(q, o) :
              Append(q, o)[i] = o \/ \E j \in DOMAIN q : Append(q, o)[i] = q[j]
         /\ q # <<>> => \A i \in DOMAIN Tail(q) : \E j \in DOMAIN q : Tail(q)[i] = q[j]
<1>1. \A i \in DOMAIN Append(q, o) :
         Append(q, o)[i] = o \/ \E j \in DOMAIN q : Append(q, o)[i] = q[j]
  <2> DEFINE p == Append(q, o)
  <2>1. /\ Len(q) \in Nat /\ DOMAIN q = 1 .. Len(q) /\ DOMAIN p = 1 .. Len(q) + 1
        /\ (\A i \in 1 .. Len(q) : p[i] = q[i]) /\ p[Len(q) + 1] = o
    BY Appended
  <2> HIDE DEF p
  <2>2. SUFFICES ASSUME NEW i \in DOMAIN p, p[i] # o PROVE \E j \in DOMAIN q : p[i] = q[j]
    BY DEF p
  <2>3. i \in DOMAIN q
    BY <2>1, <2>2
  <2> QED BY <2>1, <2>3
<1>2. ASSUME q # <<>> PROVE \A i \in DOMAIN Tail(q) : \E j \in DOMAIN q : Tail(q)[i] = q[j]
  <2> DEFINE p == Tail(q)
  <2>1. /\ Len(q) \in Nat /\ DOMAIN q = 1 .. Len(q) /\ DOMAIN p = 1 .. Len(q) - 1
        /\ \A i \in 1 .. Len(q) - 1 : p[i] = q[i + 1]
    BY <1>2, Taken
  <2> HIDE DEF p
  <2>2. SUFFICES ASSUME NEW i \in DOMAIN p PROVE \E j \in DOMAIN q : p[i] = q[j]
    BY DEF p
  <2>3. i + 1 \in DOMAIN q /\ p[i] = q[i + 1]
    BY <2>1
  <2> QED BY <2>3
<1> QED BY <1>1, <1>2

(* With no clear in the queue there is nothing to forget. *)
LEMMA ForgottenNone ==
  ASSUME ~Cleared(ops), ops \in Seq(IdbOp),
         \/ ops' = ops
         \/ \E o \in IdbOp : o.op # "clear" /\ ops' = Append(ops, o)
         \/ ops # <<>> /\ ops' = Tail(ops)
  PROVE  Forgotten(ops)'
<1>1. \A i \in DOMAIN ops' : ops'[i].op # "clear"
  <2>1. CASE ops' = ops
    BY <2>1 DEF Cleared
  <2>2. ASSUME NEW o \in IdbOp, o.op # "clear", ops' = Append(ops, o)
        PROVE  \A i \in DOMAIN ops' : ops'[i].op # "clear"
    <3>1. \A i \in DOMAIN ops' : ops'[i] = o \/ \E j \in DOMAIN ops : ops'[i] = ops[j]
      BY <2>2, Members
    <3> QED BY <2>2, <3>1 DEF Cleared
  <2>3. CASE ops # <<>> /\ ops' = Tail(ops)
    <3>1. \A i \in DOMAIN ops' : \E j \in DOMAIN ops : ops'[i] = ops[j]
      <4>1. EvictSizeOp \in IdbOp
        BY DEF EvictSizeOp, IdbOp
      <4> QED BY <2>3, <4>1, Members
    <3> QED BY <3>1 DEF Cleared
  <2> QED BY <2>1, <2>2, <2>3
<1> QED BY <1>1 DEF Forgotten

(* Nothing live comes, and the queue grows by what is neither live nor a cut. *)
LEMMA OfflineStays ==
  ASSUME Typed, Offline, UNCHANGED <<up, conn, wire, trimTo>>, pend' = {},
         \/ ops' = ops
         \/ \E o \in IdbOp : /\ o.op # "evictToSize" /\ (o.op = "store" => o.by # Live)
                             /\ ops' = Append(ops, o)
         \/ ops # <<>> /\ ops' = Tail(ops)
  PROVE  Offline'
<1> DEFINE Plain(o) == o.op # "evictToSize" /\ (o.op = "store" => o.by # Live)
<1>1. ops \in Seq(IdbOp) /\ \A i \in DOMAIN ops : Plain(ops[i])
  BY DEF Typed, Offline
<1>2. \A i \in DOMAIN ops' : Plain(ops'[i])
  <2>1. CASE ops' = ops
    BY <1>1, <2>1
  <2>2. ASSUME NEW o \in IdbOp, Plain(o), ops' = Append(ops, o)
        PROVE  \A i \in DOMAIN ops' : Plain(ops'[i])
    <3>1. \A i \in DOMAIN ops' : ops'[i] = o \/ \E j \in DOMAIN ops : ops'[i] = ops[j]
      BY <1>1, <2>2, Members
    <3> HIDE DEF Plain
    <3> QED BY <1>1, <2>2, <3>1
  <2>3. CASE ops # <<>> /\ ops' = Tail(ops)
    <3>1. \A i \in DOMAIN ops' : \E j \in DOMAIN ops : ops'[i] = ops[j]
      <4>1. EvictSizeOp \in IdbOp
        BY DEF EvictSizeOp, IdbOp
      <4> QED BY <1>1, <2>3, <4>1, Members
    <3> HIDE DEF Plain
    <3> QED BY <1>1, <3>1
  <2> QED BY <2>1, <2>2, <2>3
<1> QED BY <1>2 DEF Offline

(* A page that has just been opened holds and claims nothing. *)
LEMMA CalmInit ==
  ASSUME Init
  PROVE  CalmInv
<1>1. /\ conn = FALSE /\ up = FALSE /\ wire = {} /\ pend = {} /\ idb = {} /\ saved = {}
      /\ ops = <<>> /\ trimTo = NoLive /\ now = 0 /\ cov = RestoredCoverage({}) /\ loads = MountedLoads
  BY DEF Init
<1>2. cov.pts = {} /\ now \in Tick
  BY <1>1, RestoredCovers, BoundsAssumption DEF Tick
<1>3. NoStaleStore
  BY <1>1, <1>2, MountedFits DEF NoStaleStore
<1> QED BY <1>1, <1>2, <1>3 DEF CalmInv, Offline, Forgotten

LEMMA AdvanceCalm ==
  ASSUME WholeMs, Base, CalmInv, Advance
  PROVE  CalmInv'
<1>1. /\ now \in Nat /\ now' = now + 1
      /\ UNCHANGED <<env, up, conn, buf, pend, cov, saved, idb, ops, trimTo, loads>>
  BY Clock DEF Advance, Base
<1>2. PICK tel \in SUBSET {now + 1} :
        /\ db' = {r \in db \cup tel : Ms(r) >= Ms(now + 1) - Retention}
        /\ wire' = IF up THEN wire \cup tel ELSE wire
  BY DEF Advance
<1>3. Offline'
  BY <1>1, <1>2 DEF CalmInv, Offline
<1>4. NoStaleStore' /\ Forgotten(ops)'
  BY <1>1 DEF CalmInv, NoStaleStore, Forgotten
<1>5. now + 1 \notin cov.pts /\ now + 1 \notin saved
  <2>1. cov \in CoversTo(now) /\ saved \subseteq 0 .. now
    BY DEF Base, Typed
  <2>2. cov.pts \in SUBSET (0 .. now) /\ now + 1 \notin 0 .. now
    BY <1>1, <2>1, OtherCovers
  <2> QED BY <2>1, <2>2
<1>6. \A r \in db' : r \in db \/ r = now + 1
  BY <1>2
<1>7. \A r \in db' : r \in cov'.pts \cup saved' => r \in idb'
  BY <1>1, <1>5, <1>6 DEF CalmInv
<1> QED BY <1>3, <1>4, <1>7 DEF CalmInv

LEMMA FlushTickCalm ==
  ASSUME WholeMs, Base, CalmInv, env \subseteq Calm, NEW evict \in BOOLEAN, FlushTick(evict)
  PROVE  CalmInv'
<1>1. /\ UNCHANGED <<env, now, db, up, wire, conn, buf, idb, trimTo, loads>>
      /\ pend' = {} /\ ~conn /\ cov' = cov /\ ops' = ops
  BY CalmEvents DEF FlushTick, CalmInv, Offline
<1>2. saved' = cov.pts \/ saved' = saved
  BY <1>1, Saves DEF FlushTick
<1>3. Offline'
  BY <1>1 DEF CalmInv, Offline
<1>4. NoStaleStore'
  BY <1>1 DEF CalmInv, NoStaleStore
<1>5. Forgotten(ops)'
  BY <1>1, <1>2 DEF CalmInv, Forgotten
<1> QED BY <1>1, <1>2, <1>3, <1>4, <1>5 DEF CalmInv

LEMMA StartupInfoCalm ==
  ASSUME WholeMs, Base, CalmInv, NEW l \in LoadId, StartupInfo(l)
  PROVE  CalmInv'
<1>1. /\ UNCHANGED <<env, now, db, up, wire, conn, buf, pend, saved, idb, trimTo>>
      /\ loads[l].pc = "info"
      /\ \/ /\ cov' = Trim(cov, NowMs - Retention)
            /\ ops' = ops \o <<ReadOp(l), EvictBeforeOp(NowMs - Retention)>>
         \/ ops' = Append(ops, ReadOp(l)) /\ UNCHANGED cov
  BY DEF StartupInfo
<1> DEFINE rd == ReadOp(l)
           q  == Append(ops, rd)
<1>2. rd.by = l /\ rd.op = "read" /\ rd.rows = {} /\ rd \in IdbOp
  BY StartupInfoBase
<1>3. PICK x \in Load : loads' = [loads EXCEPT ![l] = x] /\ x.pc = "readAll" /\ x.stale = loads[l].stale
  BY StartupInfoBase
<1>4. NoStaleStore'
  BY <1>3, StaleStays DEF CalmInv, Base
<1>5. now \in Nat /\ NowMs = now /\ cov \in CoversTo(now) /\ now - Retention \in Int /\ now - Retention <= now
      /\ ops \in Seq(IdbOp)
  <2>1. now \in Nat /\ NowMs = now
    BY Clock DEF Base
  <2> QED BY <2>1, BoundsAssumption DEF Base, Typed
<1>6. Cleared(ops) => x.stale
  <2>1. loads[l].stale \/ ~Cleared(ops)
    BY <1>1, Unhindered DEF CalmInv
  <2> QED BY <1>3, <2>1
<1> DEFINE o == EvictBeforeOp(now - Retention)
<1>7. o \in IdbOp /\ o.op = "evictBefore"
  BY <1>5 DEF EvictBeforeOp, IdbOp
<1> HIDE DEF rd, o
<1>8. ops' = q \/ ops' = Append(q, o)
  BY <1>1, <1>2, <1>5, <1>7, AppendedTwice DEF q, rd, o
<1>9. cov'.pts \subseteq cov.pts
  BY <1>1, <1>5, TrimCovers
<1>10. q \in Seq(IdbOp) /\ \A i \in DOMAIN q : q[i] = rd \/ \E j \in DOMAIN ops : q[i] = ops[j]
  BY <1>2, <1>5, Appended, Members
<1>11. /\ Len(ops) \in Nat /\ DOMAIN ops = 1 .. Len(ops) /\ DOMAIN q = 1 .. Len(ops) + 1
       /\ Len(q) = Len(ops) + 1
       /\ (\A i \in 1 .. Len(ops) : q[i] = ops[i]) /\ q[Len(ops) + 1] = rd
  BY <1>2, <1>5, Appended
<1>12. /\ DOMAIN Append(q, o) = 1 .. Len(q) + 1
       /\ (\A i \in 1 .. Len(q) : Append(q, o)[i] = q[i]) /\ Append(q, o)[Len(q) + 1] = o
  BY <1>7, <1>10, Appended
<1> HIDE DEF q
<1>13. \A i \in DOMAIN ops' : \/ i \in DOMAIN ops /\ ops'[i] = ops[i] /\ (\A j \in 1 .. i : ops'[j] = ops[j])
                              \/ ops'[i].op \in {"read", "evictBefore"}
  <2> SUFFICES ASSUME NEW i \in DOMAIN ops'
               PROVE  \/ i \in DOMAIN ops /\ ops'[i] = ops[i] /\ (\A j \in 1 .. i : ops'[j] = ops[j])
                      \/ ops'[i].op \in {"read", "evictBefore"}
    OBVIOUS
  <2>1. CASE ops' = q
    BY <1>2, <1>11, <2>1
  <2>2. CASE ops' = Append(q, o)
    <3>1. i \in 1 .. Len(ops) + 2
      BY <1>11, <1>12, <2>2
    <3>2. CASE i \in 1 .. Len(ops)
      BY <1>11, <1>12, <2>2, <3>2
    <3>3. CASE i = Len(ops) + 1
      BY <1>2, <1>11, <1>12, <2>2, <3>3
    <3>4. CASE i = Len(ops) + 2
      BY <1>7, <1>11, <1>12, <2>2, <3>4
    <3> QED BY <1>11, <3>1, <3>2, <3>3, <3>4
  <2> QED BY <1>8, <2>1, <2>2
<1>14. Offline'
  <2>1. \A i \in DOMAIN ops' : ops'[i].op # "evictToSize" /\ (ops'[i].op = "store" => ops'[i].by # Live)
    BY <1>13 DEF CalmInv, Offline
  <2> QED BY <1>1, <2>1 DEF CalmInv, Offline
<1>15. Forgotten(ops)'
  <2>1. ASSUME NEW i \in DOMAIN ops', ops'[i].op = "clear"
        PROVE  /\ cov'.pts = {} /\ saved' = {}
               /\ \A k \in LoadId : \/ loads'[k].pc = "idle" \/ loads'[k].stale
                                    \/ loads'[k].pc = "readRange" /\ \A j \in 1 .. i : ops'[j].by # k
    <3>1. i \in DOMAIN ops /\ ops[i].op = "clear" /\ \A j \in 1 .. i : ops'[j] = ops[j]
      BY <1>13, <2>1
    <3>2. cov.pts = {} /\ saved = {} /\ Cleared(ops)
      BY <3>1 DEF CalmInv, Forgotten, Cleared
    <3>3. loads'[l] = x /\ \A k \in LoadId \ {l} : loads'[k] = loads[k]
      BY <1>3 DEF Base, Typed
    <3>4. ASSUME NEW k \in LoadId
          PROVE  \/ loads'[k].pc = "idle" \/ loads'[k].stale
                 \/ loads'[k].pc = "readRange" /\ \A j \in 1 .. i : ops'[j].by # k
      <4>1. CASE k = l
        BY <1>6, <3>2, <3>3, <4>1
      <4>2. CASE k # l
        <5>1. \/ loads[k].pc = "idle" \/ loads[k].stale
              \/ loads[k].pc = "readRange" /\ \A j \in 1 .. i : ops[j].by # k
          BY <3>1 DEF CalmInv, Forgotten
        <5> QED BY <3>1, <3>3, <4>2, <5>1
      <4> QED BY <4>1, <4>2
    <3> QED BY <1>1, <1>9, <3>2, <3>4
  <2> QED BY <2>1 DEF Forgotten
<1>16. \A r \in db' : r \in cov'.pts \cup saved' => r \in idb'
  BY <1>1, <1>9 DEF CalmInv
<1> QED BY <1>4, <1>14, <1>15, <1>16 DEF CalmInv

LEMMA FetchCalm ==
  ASSUME WholeMs, Base, CalmInv, NEW l \in LoadId, FetchAnswer(l)
  PROVE  CalmInv'
<1>1. /\ UNCHANGED <<env, now, db, up, wire, conn, pend, idb, trimTo>> /\ loads[l].pc = "fetch"
      /\ loads[l].start \in Nat /\ loads[l].cursor \in Int /\ loads[l].cursor <= now
      /\ FetchIgnored(l) \/ FetchEmpty(l) \/ FetchShown(l)
  BY FetchDoes
<1>2. now \in Nat /\ cov \in CoversTo(now) /\ db \subseteq 0 .. now /\ Typed /\ ops \in Seq(IdbOp) /\ pend' = {}
  <2>1. now \in Nat
    BY Clock DEF Base
  <2> QED BY <1>1, <2>1 DEF Base, Typed, CalmInv, Offline
<1>3. loads[l].stale \/ ~Cleared(ops)
  BY <1>1, Unhindered DEF CalmInv
<1>4. CASE FetchIgnored(l)
  <2>1. loads' = [loads EXCEPT ![l] = IdleLoad] /\ UNCHANGED <<buf, cov, ops, saved>>
    BY <1>4 DEF FetchIgnored
  <2>2. ~IdleLoad.stale
    BY DEF IdleLoad
  <2>3. NoStaleStore'
    BY <1>2, <2>1, <2>2, StaleStays DEF CalmInv
  <2>4. Forgotten(ops)'
    BY <2>1, ForgottenEnds DEF CalmInv
  <2>5. Offline'
    BY <1>1, <1>2, <2>1, OfflineStays DEF CalmInv
  <2> QED BY <1>1, <2>1, <2>3, <2>4, <2>5 DEF CalmInv
<1>5. CASE FetchEmpty(l)
  <2> DEFINE from == loads[l].start
             to   == loads[l].cursor
  <2>1. /\ UNCHANGED <<buf, ops>> /\ ~loads[l].stale
        /\ \A r \in db : r \notin from .. to
        /\ cov' = Add(cov, from, to)
    BY <1>5 DEF FetchEmpty
  <2>2. from \in Nat /\ to \in Int /\ to <= now
    BY <1>1
  <2> HIDE DEF from, to
  <2>3. cov' \in CoversTo(now) /\ cov'.pts = cov.pts \cup (from .. to)
    BY <1>2, <2>1, <2>2, AddCovers
  <2>4. PICK x : ~x.stale /\ Proceed(l, x, cov', ops)
    BY <1>5 DEF FetchEmpty
  <2>5. loads' = [loads EXCEPT ![l] = x] /\ saved' \in {saved, cov'.pts}
    BY <1>2, <2>3, <2>4, ProceedSaves
  <2>6. NoStaleStore'
    BY <1>2, <2>4, <2>5, StaleStays DEF CalmInv
  <2>7. Forgotten(ops)'
    BY <1>2, <1>3, <2>1, ForgottenNone
  <2>8. Offline'
    BY <1>1, <1>2, <2>1, OfflineStays DEF CalmInv
  <2>9. \A r \in db' : r \in cov'.pts \cup saved' => r \in idb'
    BY <1>1, <2>1, <2>3, <2>5 DEF CalmInv
  <2> QED BY <2>6, <2>7, <2>8, <2>9 DEF CalmInv
<1>6. CASE FetchShown(l)
  <2>1. UNCHANGED <<cov, saved>> /\ ~loads[l].stale
    BY <1>6 DEF FetchShown
  <2>2. PICK fetched \in SUBSET db : \E x \in Load :
           /\ ops' = Append(ops, StoreOp(fetched, l)) /\ loads' = [loads EXCEPT ![l] = x] /\ ~x.stale
    BY <1>6 DEF FetchShown
  <2>3. PICK x \in Load : loads' = [loads EXCEPT ![l] = x] /\ ~x.stale
    BY <2>2
  <2>4. NoStaleStore'
    BY <1>2, <2>3, StaleStays DEF CalmInv
  <2> DEFINE o == StoreOp(fetched, l)
  <2>5. o \in IdbOp /\ o.op = "store" /\ o.by = l /\ l # Live
    <3>1. fetched \in SUBSET (0 .. now)
      BY <1>2
    <3>2. fetched \in SUBSET Tick
      BY <1>2, <3>1, Clock
    <3> QED BY <3>2 DEF StoreOp, IdbOp, LoadId, Live
  <2>6. ops' = Append(ops, o)
    BY <2>2
  <2> HIDE DEF o
  <2>7. Forgotten(ops)'
    <3>1. o \in IdbOp /\ o.op # "clear" /\ ops' = Append(ops, o)
      BY <2>5, <2>6
    <3> QED BY <1>2, <1>3, <2>1, <3>1, ForgottenNone
  <2>8. Offline'
    <3>1. o \in IdbOp /\ o.op # "evictToSize" /\ (o.op = "store" => o.by # Live) /\ ops' = Append(ops, o)
      BY <2>5, <2>6
    <3> QED BY <1>1, <1>2, <3>1, OfflineStays DEF CalmInv
  <2> QED BY <1>1, <2>1, <2>4, <2>7, <2>8 DEF CalmInv
<1> QED BY <1>1, <1>4, <1>5, <1>6

LEMMA FetchFailsCalm ==
  ASSUME WholeMs, Base, CalmInv, NEW l \in LoadId, FetchFails(l)
  PROVE  CalmInv'
<1>1. /\ UNCHANGED <<env, now, db, up, wire, conn, buf, pend, cov, saved, idb, ops, trimTo>>
      /\ loads' = [loads EXCEPT ![l] = IdleLoad] /\ ~IdleLoad.stale
  BY DEF FetchFails, IdleLoad
<1>2. NoStaleStore'
  BY <1>1, StaleStays DEF CalmInv, Base
<1>3. Forgotten(ops)'
  BY <1>1, ForgottenEnds DEF CalmInv
<1> QED BY <1>1, <1>2, <1>3 DEF CalmInv, Offline

LEMMA LoadRangeCalm ==
  ASSUME WholeMs, Base, CalmInv, NEW s \in Tick, NEW e \in Tick, LoadRange(s, e)
  PROVE  CalmInv'
<1> DEFINE o == ReadOp(FreeLoad)
<1>1. /\ UNCHANGED <<env, now, db, up, wire, conn, buf, pend, cov, saved, idb, trimTo>>
      /\ FreeLoad \in LoadId /\ ops' = Append(ops, o) /\ loads[FreeLoad].pc = "idle"
      /\ o \in IdbOp /\ o.op = "read"
  BY LoadRangeDoes
<1> HIDE DEF o
<1>2. PICK x \in Load : loads' = [loads EXCEPT ![FreeLoad] = x] /\ ~x.stale /\ x.pc = "readRange"
  BY LoadRangeDoes
<1>3. NoStaleStore'
  BY <1>1, <1>2, StaleStays DEF CalmInv, Base
<1>4. \A j \in DOMAIN ops : ops[j].by # FreeLoad
  <2> SUFFICES ASSUME NEW j \in DOMAIN ops, ops[j].by = FreeLoad PROVE FALSE
    OBVIOUS
  <2>1. OpRight(ops[j], loads, now) /\ FreeLoad # Live
    BY <1>1 DEF Base, QueueRight, LoadId, Live
  <2>2. Serves(ops[j], loads[FreeLoad])
    BY <2>1 DEF OpRight
  <2> QED BY <1>1, <2>2 DEF Serves
<1>5. Forgotten(ops)'
  BY <1>1, <1>2, <1>4, ForgottenIssued DEF CalmInv
<1>6. Offline'
  <2>1. pend' = {} /\ o.op # "evictToSize" /\ o.op # "store"
    BY <1>1 DEF CalmInv, Offline
  <2> QED BY <1>1, <2>1, OfflineStays DEF CalmInv, Base
<1> QED BY <1>1, <1>3, <1>5, <1>6 DEF CalmInv

LEMMA ClearCalm ==
  ASSUME WholeMs, Base, CalmInv, env \subseteq Calm, Clear
  PROVE  CalmInv'
<1> DEFINE o == ClearOp
<1>1. /\ \A l \in LoadId : /\ loads'[l].pc = loads[l].pc
                           /\ loads[l].pc # "idle" => loads'[l].stale
      /\ ops' = Append(ops, o) /\ o \in IdbOp /\ o.op = "clear"
      /\ pend' = {} /\ cov'.pts = {}
      /\ saved' = SaveCoverage(Empty, ops) /\ Empty.pts = {}
      /\ UNCHANGED <<env, now, db, up, wire, conn, idb, trimTo>>
      /\ \A l \in LoadId : loads[l].pc # "store"
  BY ClearDoes, CalmEvents
<1> HIDE DEF o
<1>2. ops \in Seq(IdbOp) /\ Typed
  BY DEF Base, Typed
<1>3. \A i \in DOMAIN ops : ops[i].op # "store"
  <2>1. SUFFICES ASSUME NEW i \in DOMAIN ops, ops[i].op = "store" PROVE FALSE
    OBVIOUS
  <2>2. ops[i].by \in LoadId
    BY <1>2, <2>1, OpFields DEF CalmInv, Offline
  <2>3. Serves(ops[i], loads[ops[i].by])
    BY <2>1, <2>2 DEF Base, QueueRight, OpRight, LoadId, Live
  <2> QED BY <1>1, <2>1, <2>2, <2>3 DEF Serves
<1>4. saved' = {}
  <2>1. StoresInFlight(ops) = {}
    BY <1>3 DEF StoresInFlight
  <2> QED BY <1>1, <2>1 DEF SaveCoverage
<1>5. NoStaleStore'
  BY <1>1 DEF NoStaleStore
<1>6. Forgotten(ops)'
  BY <1>1, <1>4 DEF Forgotten
<1>7. Offline'
  <2>1. o.op # "evictToSize" /\ o.op # "store"
    BY <1>1
  <2> QED BY <1>1, <1>2, <2>1, OfflineStays DEF CalmInv
<1> QED BY <1>1, <1>4, <1>5, <1>6, <1>7 DEF CalmInv

LEMMA ChunkCalm ==
  ASSUME WholeMs, Base, CalmInv, NEW l \in LoadId, ChunkStoreDone(l)
  PROVE  CalmInv'
<1>1. /\ ops # <<>> /\ ops' = Tail(ops) /\ loads[l].pc = "store" /\ KnowsAll(loads[l], db)
      /\ UNCHANGED <<env, now, db, up, wire, conn, buf, pend, trimTo>>
      /\ saved' \in {saved, SaveCoverage(cov', ops')}
  BY ChunkDoes
<1>2. PICK ok \in Outcomes : /\ idb' = IF ok THEN idb \cup loads[l].rows ELSE idb
                             /\ cov' = ChunkCovered(cov, loads[l], ok)
  BY ChunkDoes
<1>3. PICK x \in Load : loads' = [loads EXCEPT ![l] = x] /\ x.pc \in {"idle", "fetch"}
  BY ChunkDoes
<1>4. NoStaleStore'
  BY <1>3, StaleStays DEF CalmInv, Base
<1>5. ~Cleared(ops) /\ ops \in Seq(IdbOp) /\ pend' = {}
  <2>1. ~loads[l].stale
    BY <1>1 DEF CalmInv, NoStaleStore
  <2> QED BY <1>1, <2>1, Unhindered DEF CalmInv, Offline, Base, Typed
<1>6. Forgotten(ops)'
  BY <1>1, <1>5, ForgottenNone
<1>7. Offline'
  BY <1>1, <1>5, OfflineStays DEF CalmInv, Base
<1>8. \A p \in cov'.pts : p \in cov.pts \/ (ok /\ p \in Claimed(loads[l]))
  <2>1. ok \in BOOLEAN
    BY <1>2 DEF Outcomes
  <2> QED BY <1>1, <1>2, <2>1, ChunkCovers
<1>9. \A r \in db : r \in cov'.pts => r \in idb'
  <2> SUFFICES ASSUME NEW r \in db, r \in cov'.pts PROVE r \in idb'
    OBVIOUS
  <2>1. CASE r \in cov.pts
    BY <1>2, <2>1 DEF CalmInv
  <2>2. CASE ok /\ r \in Claimed(loads[l])
    BY <1>1, <1>2, <2>2 DEF KnowsAll
  <2> QED BY <1>8, <2>1, <2>2
<1>10. saved' = cov'.pts \/ saved' = saved
  BY <1>1, Saves
<1>11. \A r \in db' : r \in cov'.pts \cup saved' => r \in idb'
  BY <1>1, <1>2, <1>9, <1>10 DEF CalmInv
<1> QED BY <1>4, <1>6, <1>7, <1>11 DEF CalmInv

LEMMA ReadCalm ==
  ASSUME WholeMs, Base, CalmInv, NEW l \in LoadId, CacheRead(l)
  PROVE  CalmInv'
<1>1. /\ loads[l].pc \in {"readAll", "readRange"} /\ ops # <<>> /\ ops' = Tail(ops) /\ Head(ops).by = l
      /\ UNCHANGED <<env, now, db, up, wire, conn, pend, cov, idb, trimTo>>
  BY ReadDoes
<1>2. PICK x : ~x.stale /\ loads' = [loads EXCEPT ![l] = x]
  <2>1. ~IdleLoad.stale
    BY DEF IdleLoad
  <2> QED BY <2>1, ReadDoes
<1>3. NoStaleStore'
  BY <1>2, StaleStays DEF CalmInv, Base
<1>4. Offline'
  <2>1. pend' = {}
    BY <1>1 DEF CalmInv, Offline
  <2> QED BY <1>1, <2>1, OfflineStays DEF CalmInv, Base
<1>5. saved' = cov.pts \/ saved' = saved
  <2>1. saved' = saved \/ saved' = SaveCoverage(cov, ops')
    BY ReadDoes
  <2> QED BY <2>1, Saves
<1>6. Forgotten(ops)'
  <2>1. CASE loads[l].stale
    <3>1. loads' = [loads EXCEPT ![l] = IdleLoad] /\ UNCHANGED saved
      BY <2>1, ReadDoes
    <3>2. IdleLoad.pc = "idle"
      BY DEF IdleLoad
    <3>3. \A k \in LoadId : loads'[k] = loads[k] \/ loads'[k].pc = "idle"
      <4> HIDE DEF IdleLoad
      <4> QED BY <3>1, <3>2 DEF Base, Typed
    <3> QED BY <1>1, <3>1, <3>3, ForgottenCompleted DEF CalmInv
  <2>2. CASE ~loads[l].stale
    <3>1. ~Cleared(ops) /\ ops \in Seq(IdbOp)
      BY <1>1, <2>2, Unhindered DEF CalmInv, Base, Typed
    <3> QED BY <1>1, <3>1, ForgottenNone
  <2> QED BY <2>1, <2>2
<1> QED BY <1>1, <1>3, <1>4, <1>5, <1>6 DEF CalmInv

LEMMA MaintenanceCalm ==
  ASSUME WholeMs, Base, CalmInv, CacheCleared \/ EvictedBefore
  PROVE  CalmInv'
<1>1. /\ ops # <<>> /\ ops' = Tail(ops)
      /\ UNCHANGED <<env, now, db, up, wire, conn, buf, pend, cov, saved, trimTo, loads>>
  BY DEF CacheCleared, EvictedBefore
<1>2. NoStaleStore'
  BY <1>1 DEF CalmInv, NoStaleStore
<1>3. Offline'
  <2>1. pend' = {}
    BY <1>1 DEF CalmInv, Offline
  <2> QED BY <1>1, <2>1, OfflineStays DEF CalmInv, Base
<1>4. Forgotten(ops)'
  BY <1>1, ForgottenCompleted DEF CalmInv
<1>5. \A r \in db : r \in cov.pts \cup saved => r \in idb'
  <2>1. CASE CacheCleared
    <3>1. Head(ops) = ops[1] /\ 1 \in DOMAIN ops /\ Head(ops).op = "clear"
      BY <1>1, <2>1, HeadIs DEF CacheCleared
    <3>2. cov.pts = {} /\ saved = {}
      BY <3>1 DEF CalmInv, Forgotten
    <3> QED BY <3>2
  <2>2. CASE EvictedBefore
    BY <2>2, EvictsPast DEF CalmInv
  <2> QED BY <2>1, <2>2
<1> QED BY <1>1, <1>2, <1>3, <1>4, <1>5 DEF CalmInv

LEMMA CrashCalm ==
  ASSUME WholeMs, Base, CalmInv, Crash
  PROVE  CalmInv'
<1>1. /\ conn' = FALSE /\ up' = FALSE /\ wire' = {} /\ buf' = {} /\ pend' = {}
      /\ cov' = RestoredCoverage(saved) /\ ops' = <<>> /\ trimTo' = NoLive /\ loads' = MountedLoads
      /\ UNCHANGED <<env, now, db, saved, idb>>
  BY DEF Crash
<1>2. now \in Nat /\ now \in Tick /\ saved \in SUBSET (0 .. now)
  <2>1. now \in Nat
    BY Clock DEF Base
  <2> QED BY <2>1 DEF Base, Typed
<1>3. NoStaleStore'
  BY <1>1, <1>2, MountedFits DEF NoStaleStore
<1>4. Offline' /\ Forgotten(ops)'
  BY <1>1 DEF Offline, Forgotten
<1>5. cov'.pts \subseteq saved
  BY <1>1, <1>2, RestoredCovers
<1> QED BY <1>1, <1>3, <1>4, <1>5 DEF CalmInv

LEMMA CalmStep ==
  ASSUME WholeMs, Base, CalmInv, env \subseteq Calm, [Next]_vars
  PROVE  CalmInv'
<1>1. CASE Next
  <2>1. CASE Advance \/ AddLive \/ TrimAfterEvict \/ Connect \/ Disconnect \/ LinkDies
    <3>1. ~AddLive /\ ~TrimAfterEvict /\ ~Disconnect /\ ~LinkDies
      BY DEF CalmInv, Offline, AddLive, TrimAfterEvict, Disconnect, LinkDies
    <3>2. ~Connect
      BY CalmEvents DEF Connect
    <3> QED BY <2>1, <3>1, <3>2, AdvanceCalm
  <2>2. CASE \E evict \in BOOLEAN : FlushTick(evict)
    BY <2>2, FlushTickCalm
  <2>3. CASE \E l \in LoadId : StartupInfo(l) \/ FetchAnswer(l) \/ FetchFails(l)
    BY <2>3, StartupInfoCalm, FetchCalm, FetchFailsCalm
  <2>4. CASE \E s, e \in Tick : LoadRange(s, e)
    BY <2>4, LoadRangeCalm
  <2>5. CASE Clear \/ Crash
    BY <2>5, ClearCalm, CrashCalm
  <2>6. CASE IdbStep
    <3>1. ~LiveStoreDone /\ ~EvictedToSize
      <4>1. ASSUME ops # <<>> PROVE 1 \in DOMAIN ops /\ Head(ops) = ops[1]
        BY <4>1, HeadIs
      <4> QED BY <4>1 DEF CalmInv, Offline, LiveStoreDone, EvictedToSize
    <3> QED BY <2>6, <3>1, ChunkCalm, ReadCalm, MaintenanceCalm DEF IdbStep
  <2> QED BY <1>1, <2>1, <2>2, <2>3, <2>4, <2>5, <2>6 DEF Next
<1>2. CASE UNCHANGED vars
  BY <1>2 DEF vars, CalmInv, Offline, NoStaleStore, Forgotten
<1> QED BY <1>1, <1>2
-----------------------------------------------------------------------------
LEMMA EnvStays == [Next]_vars => UNCHANGED env
BY DEF Next, vars, IdbStep, Advance, AddLive, FlushTick, TrimAfterEvict, Connect, Disconnect, LinkDies,
       StartupInfo, FetchAnswer, FetchFails, LoadRange, Clear, LiveStoreDone, ChunkStoreDone, CacheRead,
       CacheCleared, EvictedBefore, EvictedToSize, Crash

(* In whole milliseconds: every variable has its type, a load asks only for what
   has a place in the past and waits for one operation of the cache at most, and
   in the environments the two properties below are about, what makes them hold
   (useTelegramCache.ts:100-480). *)
THEOREM Invariance ==
  ASSUME WholeMs
  PROVE  Spec => []IInv
<1>1. Init => IInv
  BY InitBase, FairInit, CalmInit DEF IInv
<1>2. IInv /\ [Next]_vars => IInv'
  <2> SUFFICES ASSUME IInv, [Next]_vars PROVE IInv'
    OBVIOUS
  <2>1. Base' /\ UNCHANGED env /\ Base
    BY BaseStep, EnvStays DEF IInv
  <2>2. env \subseteq Fair => FairInv'
    BY <2>1, FairStep DEF IInv
  <2>3. env \subseteq Calm => CalmInv'
    BY <2>1, CalmStep DEF IInv
  <2> QED BY <2>1, <2>2, <2>3 DEF IInv
<1> QED BY <1>1, <1>2, PTL DEF Spec

(* However connects, range loads, overlapping loads, evictions, failing requests
   and clears interleave: what the page holds for covered, and will therefore
   never fetch again, is in the cache or on its way (useTelegramCache.ts, #317,
   #339). *)
THEOREM CoveredIsAlwaysAccounted ==
  ASSUME WholeMs
  PROVE  Spec => []CoveredIsAccounted
<1>1. IInv => CoveredIsAccounted
  <2> SUFFICES ASSUME IInv, env \subseteq Fair, NEW r \in db, Ms(r) \in cov.pts
               PROVE  \/ StoredOrBeing(r) \/ r \in pend \/ r \in wire
                      \/ trimTo # NoLive /\ Ms(r) < trimTo
    BY DEF CoveredIsAccounted, Accounted
  <2>1. Ms(r) = r
    <3>1. r \in Int
      BY DEF IInv, Base, Typed
    <3> QED BY <3>1, MsIs
  <2>2. Account(r)
    BY <2>1 DEF IInv, FairInv, Covered
  <2>3. Safe(r, ops, idb) => StoredOrBeing(r)
    BY DEF Safe, StoredOrBeing, StoresInFlight, Cleared
  <2> QED BY <2>1, <2>2, <2>3 DEF Account
<1> QED BY <1>1, Invariance, PTL

(* As long as history loads feed the view, and through crashes, failing
   operations and clears: what the saved coverage claims, the cache holds
   (saveCoverage, useTelegramCache.ts). *)
THEOREM SavedIsAlwaysCached ==
  ASSUME WholeMs
  PROVE  Spec => []SavedIsCached
<1>1. IInv => SavedIsCached
  <2> SUFFICES ASSUME IInv, env \subseteq Calm, NEW r \in db, Ms(r) \in saved
               PROVE  r \in idb
    BY DEF SavedIsCached, SavedIsStored, Calm
  <2>1. Ms(r) = r
    <3>1. r \in Int
      BY DEF IInv, Base, Typed
    <3> QED BY <3>1, MsIs
  <2> QED BY <2>1 DEF IInv, CalmInv
<1> QED BY <1>1, Invariance, PTL

(* A history load covers only what it has stored. *)
LEMMA ClaimsStep ==
  ASSUME WholeMs, Base, NEW l \in LoadId, FetchAnswer(l) \/ ChunkStoreDone(l),
         NEW r \in db, Ms(r) \in cov'.pts \ cov.pts
  PROVE  r \in idb'
<1>1. Ms(r) = r /\ now \in Nat /\ cov \in CoversTo(now)
  <2>1. now \in Nat
    BY Clock DEF Base
  <2>2. r \in Int
    BY DEF Base, Typed
  <2> QED BY <2>1, <2>2, MsIs DEF Base, Typed
<1>2. CASE FetchAnswer(l)
  <2>1. FetchEmpty(l) /\ loads[l].start \in Nat /\ loads[l].cursor \in Int /\ loads[l].cursor <= now
    BY <1>1, <1>2, FetchDoes DEF FetchIgnored, FetchShown
  <2> DEFINE from == loads[l].start
             to   == loads[l].cursor
  <2>2. cov' = Add(cov, from, to) /\ (\A q \in db : q \notin from .. to)
        /\ from \in Nat /\ to \in Int /\ to <= now
    BY <2>1 DEF FetchEmpty
  <2> HIDE DEF from, to
  <2>3. cov'.pts = cov.pts \cup (from .. to)
    BY <1>1, <2>2, AddCovers
  <2> QED BY <1>1, <2>2, <2>3
<1>3. CASE ChunkStoreDone(l)
  <2>1. loads[l].pc = "store" /\ KnowsAll(loads[l], db)
    BY <1>3, ChunkDoes
  <2>2. PICK ok \in Outcomes : /\ idb' = IF ok THEN idb \cup loads[l].rows ELSE idb
                               /\ cov' = ChunkCovered(cov, loads[l], ok)
    BY <1>3, ChunkDoes
  <2>3. ok /\ r \in Claimed(loads[l])
    <3>1. ok \in BOOLEAN
      BY <2>2 DEF Outcomes
    <3>2. \A p \in cov'.pts : p \in cov.pts \/ (ok /\ p \in Claimed(loads[l]))
      BY <2>1, <2>2, <3>1, ChunkCovers
    <3> QED BY <1>1, <3>2
  <2> QED BY <2>1, <2>2, <2>3 DEF KnowsAll
<1> QED BY <1>2, <1>3

(* A step in which a stale load moves shows nothing new. *)
LEMMA StaleStep ==
  ASSUME WholeMs, Base, Next, NEW l \in LoadId, loads[l].stale, loads'[l] # loads[l]
  PROVE  buf' \subseteq buf
<1>1. loads \in [LoadId -> Load]
  BY DEF Base, Typed
<1>2. CASE \/ Advance \/ AddLive \/ TrimAfterEvict \/ Connect \/ Disconnect \/ LinkDies
           \/ Clear \/ Crash
           \/ LiveStoreDone \/ CacheCleared \/ EvictedBefore \/ EvictedToSize
  BY <1>2 DEF Advance, AddLive, TrimAfterEvict, Connect, Disconnect, LinkDies, Clear, Crash,
              LiveStoreDone, CacheCleared, EvictedBefore, EvictedToSize
<1>3. CASE \/ \E evict \in BOOLEAN : FlushTick(evict)
           \/ \E s, e \in Tick : LoadRange(s, e)
           \/ \E k \in LoadId : StartupInfo(k) \/ FetchFails(k) \/ ChunkStoreDone(k)
  BY <1>3 DEF FlushTick, LoadRange, StartupInfo, FetchFails, ChunkStoreDone
<1>4. ASSUME NEW k \in LoadId, FetchAnswer(k) PROVE buf' \subseteq buf
  <2>1. CASE FetchIgnored(k) \/ FetchEmpty(k)
    BY <2>1 DEF FetchIgnored, FetchEmpty
  <2>2. CASE FetchShown(k)
    <3>1. PICK x : loads' = [loads EXCEPT ![k] = x]
      BY <2>2 DEF FetchShown
    <3>2. k = l
      BY <1>1, <3>1
    <3> QED BY <2>2, <3>2 DEF FetchShown
  <2> QED BY <1>4, <2>1, <2>2, FetchDoes
<1>5. ASSUME NEW k \in LoadId, CacheRead(k) PROVE buf' \subseteq buf
  <2>1. PICK x : loads' = [loads EXCEPT ![k] = x]
    BY <1>5, ReadDoes
  <2>2. k = l
    BY <1>1, <2>1
  <2> QED BY <1>5, <2>2, ReadDoes
<1> QED BY <1>2, <1>3, <1>4, <1>5 DEF Next, IdbStep

(* Whatever fails, crashes or interleaves: a history load never covers a
   millisecond of which it has not stored all the backend has, and one that a
   clear has made stale shows nothing (fetchGapProgressive and its callers,
   useTelegramCache.ts:231-352). *)
THEOREM LoadsStayHonest ==
  ASSUME WholeMs
  PROVE  Spec => LoadsAreHonest
<1>1. IInv /\ [Next]_vars =>
        [\A l \in LoadId : FetchAnswer(l) \/ ChunkStoreDone(l) =>
           \A r \in db : Ms(r) \in cov'.pts \ cov.pts => r \in idb']_vars
  BY ClaimsStep DEF IInv
<1>2. IInv /\ [Next]_vars =>
        [\A l \in LoadId : loads[l].stale /\ loads'[l] # loads[l] => buf' \subseteq buf]_vars
  BY StaleStep DEF IInv
<1>3. Spec => LoadClaimsWhatItStored
  BY <1>1, Invariance, PTL DEF Spec, LoadClaimsWhatItStored
<1>4. Spec => StaleLoadShowsNothing
  BY <1>2, Invariance, PTL DEF Spec, StaleLoadShowsNothing
<1> QED BY <1>3, <1>4, PTL DEF LoadsAreHonest
=============================================================================
