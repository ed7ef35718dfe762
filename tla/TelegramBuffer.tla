--------------------------- MODULE TelegramBuffer ---------------------------
(***************************************************************************)
(* TelegramBufferService (telegram-buffer-service.ts) with the parts of    *)
(* useTelegramCache that sit on it: the set of ids used to deduplicate     *)
(* live telegrams, and the snapshot on screen, which pausing freezes.      *)
(*                                                                         *)
(* JavaScript runs each of these handlers to its end, so a handler is one  *)
(* step; what varies is their order and the order of the telegrams: live   *)
(* ones are not always newer than what a history load has brought in.      *)
(***************************************************************************)
EXTENDS Naturals, Sequences, FiniteSets, SequencesExt

CONSTANTS
  Entry,        \* telegrams; each is its own id
  Ts(_),        \* the timestamp of a telegram
  MaxSizes,     \* values of maxSize
  MaxMerge      \* bound on the telegrams of one history chunk

VARIABLES
  buffer,       \* _buffer, oldest first
  maxSize,      \* _maxSize
  ids,          \* idsRef
  shown,        \* telegrams: the snapshot on screen, newest first
  paused,       \* pausedRef
  pausedCount   \* telegrams the pause indicator counts

vars == <<buffer, maxSize, ids, shown, paused, pausedCount>>

(* What the proofs assume of the bounds and the telegrams. *)
Sized ==
  /\ IsFiniteSet(Entry) /\ \A e \in Entry : Ts(e) \in Nat
  /\ MaxSizes \subseteq Nat /\ MaxMerge \in Nat

InOrder(s) == \A i \in 1 .. Len(s) - 1 : Ts(s[i]) <= Ts(s[i + 1])

(* Array.prototype.sort by timestamp, which is stable, of the entries of s at
   the places P: each comes after the entries that are before it. *)
Before(s, i, j) == Ts(s[i]) < Ts(s[j]) \/ (Ts(s[i]) = Ts(s[j]) /\ i < j)
Sorted(s, P) ==
  [k \in 1 .. Cardinality(P) |->
     s[CHOOSE i \in P : Cardinality({j \in P : Before(s, j, i)}) = k - 1]]

PushOnly(buf, new) == buf \o new                 \* deviation

(* add, before the overflow is cut off: sorted unless the new entries are in
   order and none is older than the newest one buffered. *)
Push(buf, new) ==
  IF new = <<>> THEN buf
  ELSE IF InOrder(new) /\ (buf = <<>> \/ Ts(Last(buf)) <= Ts(Head(new)))
       THEN buf \o new
       ELSE Sorted(buf \o new, 1 .. Len(buf) + Len(new))

CutNewest(buf, size) == SubSeq(buf, 1, IF Len(buf) < size THEN Len(buf) ELSE size)   \* deviation

(* splice(0, length - maxSize): the overflow leaves at the old end. *)
Cut(buf, size) ==
  IF Len(buf) > size THEN SubSeq(buf, Len(buf) - size + 1, Len(buf)) ELSE buf

PublishAlways(buf) == shown' = Reverse(buf)       \* deviation

(* publish: the newest-first copy, unless frozen. *)
Publish(buf) == shown' = IF paused THEN shown ELSE Reverse(buf)

(* trackRemoved, then the ids of what was added. *)
TrackIds(old, new, added) == (ids \ (ToSet(old) \ ToSet(new))) \cup added
-----------------------------------------------------------------------------
Init ==
  /\ buffer = <<>> /\ ids = {} /\ shown = <<>>
  /\ maxSize \in MaxSizes
  /\ paused = FALSE /\ pausedCount = 0

(* addLive: an id seen before is ignored.  The id is recorded after the ids
   of the overflow were dropped: a telegram older than a full buffer leaves
   its id behind, and is ignored should it come again. *)
AddLive(e) ==
  /\ e \notin ids
  /\ buffer' = Cut(Push(buffer, <<e>>), maxSize)
  /\ ids' = TrackIds(buffer, buffer', {e})
  /\ pausedCount' = IF paused THEN pausedCount + 1 ELSE pausedCount
  /\ Publish(buffer')
  /\ UNCHANGED <<maxSize, paused>>

MergeAll(rows) ==                                \* deviation
  /\ buffer' = Cut(Push(buffer, Sorted(rows, DOMAIN rows)), maxSize)
  /\ ids' = TrackIds(buffer, buffer', ToSet(rows) \cap ToSet(buffer'))
  /\ Publish(buffer')
  /\ UNCHANGED <<maxSize, paused, pausedCount>>

MergeUntracked(rows) ==                          \* deviation
  LET unique == {i \in DOMAIN rows : rows[i] \notin ToSet(buffer)}
  IN  /\ buffer' = Cut(Push(buffer, Sorted(rows, unique)), maxSize)
      /\ ids' = TrackIds(buffer, buffer', {})
      /\ Publish(buffer')
      /\ UNCHANGED <<maxSize, paused, pausedCount>>

(* mergeIntoBuffer: the rows of a history chunk that are not in the buffer
   are sorted and added; nothing is published when nothing changed. *)
Merge(rows) ==
  LET unique == {i \in DOMAIN rows : rows[i] \notin ToSet(buffer)}
      pushed == Push(buffer, Sorted(rows, unique))
  IN  /\ buffer' = Cut(pushed, maxSize)
      /\ ids' = (ids \cup {rows[i] : i \in unique}) \ (ToSet(pushed) \ ToSet(buffer'))
      /\ IF unique = {} THEN UNCHANGED shown ELSE Publish(buffer')
      /\ UNCHANGED <<maxSize, paused, pausedCount>>

(* The load limit changes. *)
SetMaxSize(size) ==
  /\ maxSize' = size
  /\ buffer' = Cut(buffer, size)
  /\ ids' = TrackIds(buffer, buffer', {})
  /\ IF Len(buffer) > size THEN Publish(buffer') ELSE UNCHANGED shown
  /\ UNCHANGED <<paused, pausedCount>>

ResumeSilently(p) ==                             \* deviation
  /\ paused' = p /\ pausedCount' = 0
  /\ UNCHANGED <<buffer, maxSize, ids, shown>>

(* setPaused: resuming reveals what was ingested meanwhile. *)
SetPaused(p) ==
  /\ paused' = p /\ pausedCount' = 0
  /\ shown' = IF p THEN shown ELSE Reverse(buffer)
  /\ UNCHANGED <<buffer, maxSize, ids>>

(* clear(): the screen is emptied even while it is frozen. *)
Clear ==
  /\ buffer' = <<>> /\ shown' = <<>>
  /\ ids' = TrackIds(buffer, <<>>, {})
  /\ UNCHANGED <<maxSize, paused, pausedCount>>

(* History chunks: sequences of different telegrams, newest first. *)
Chunks ==
  {rows \in UNION {[1 .. n -> Entry] : n \in 0 .. MaxMerge} :
     InOrder(Reverse(rows)) /\ IsInjective(rows)}

MaxPausedCount == Cardinality(Entry)
Bounded == pausedCount < MaxPausedCount

Next ==
  \/ \E e \in Entry : Bounded /\ AddLive(e)
  \/ \E rows \in Chunks : Merge(rows)
  \/ \E size \in MaxSizes : SetMaxSize(size)
  \/ \E p \in BOOLEAN : SetPaused(p)
  \/ Clear

Spec == Init /\ [][Next]_vars
-----------------------------------------------------------------------------
(* Every variable has its type; no telegram is buffered twice, and never more
   than the capacity. *)
TypeOK ==
  /\ buffer \in Seq(Entry) /\ IsInjective(buffer)
  /\ maxSize \in MaxSizes /\ Len(buffer) <= maxSize
  /\ ids \subseteq Entry /\ shown \in Seq(Entry)
  /\ paused \in BOOLEAN /\ pausedCount \in 0 .. MaxPausedCount

(* The buffer is in time order although the fast path appends without
   sorting: oldestTs, the eviction and the newest-first view rely on it. *)
StaysSorted == InOrder(buffer)

(* Whatever is in the buffer is known to the live path, so that a telegram a
   history load has delivered is not shown twice when its broadcast arrives. *)
LiveKnowsBuffer == ToSet(buffer) \subseteq ids

(* Unless it is frozen, the screen shows exactly the buffer, newest first:
   the paths that skip publishing had nothing to publish. *)
ScreenIsCurrent == ~paused => shown = Reverse(buffer)

(* A paused screen does not move under the reader (clear() empties it). *)
PauseFreezes == [][paused /\ paused' => shown' \in {shown, <<>>}]_vars

(* The sorted array implements the set that the telegram cache is modelled
   with: it gives up oldest telegrams only. *)
Promise == INSTANCE BufferPromise WITH kept <- ToSet(buffer), capacity <- maxSize
ImplementsBufferPromise == Promise!Spec

(* The buffer in every state: bounded, in time order, known to the live path
   and, unless frozen, what is on screen (useTelegramBuffer). *)
BufferIsTrue == TypeOK /\ StaysSorted /\ LiveKnowsBuffer /\ ScreenIsCurrent
=============================================================================
