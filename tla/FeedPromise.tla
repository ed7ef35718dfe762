----------------------------- MODULE FeedPromise -----------------------------
(***************************************************************************)
(* What a live bridge promises its clients, whichever way it learns of the *)
(* telegrams that another process writes: the feed runs along the rows of  *)
(* the database, and skips none of them where the promise is strict.       *)
(***************************************************************************)
EXTENDS Naturals, Sequences

VARIABLES
  strict,       \* rows may not be skipped
  rows,         \* rows written so far
  feed          \* rows broadcast, in order

vars == <<strict, rows, feed>>

Init == strict \in BOOLEAN /\ rows = 0 /\ feed = <<>>

Write == rows' = rows + 1 /\ UNCHANGED <<strict, feed>>

(* The first row broadcast may be any; from then on they follow each other. *)
Publish(r) ==
  /\ feed # <<>> => IF strict THEN r = feed[Len(feed)] + 1 ELSE r > feed[Len(feed)]
  /\ feed' = Append(feed, r)
  /\ UNCHANGED <<strict, rows>>

Next == Write \/ \E r \in 1 .. rows : Publish(r)

Spec == Init /\ [][Next]_vars
=============================================================================
