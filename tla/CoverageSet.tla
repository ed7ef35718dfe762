---------------------------- MODULE CoverageSet ----------------------------
(***************************************************************************)
(* What the coverage bookkeeping of the telegram cache promises, stated on *)
(* sets of milliseconds.  TelegramCoverageService keeps a sorted list of   *)
(* closed intervals; a caller can only observe which milliseconds the list *)
(* contains and where the open "live" interval starts, and that is what a  *)
(* coverage record holds here.  Module TelegramCoverage models the list    *)
(* itself and is checked to implement CoveragePromise, the state machine    *)
(* over these operators; module TelegramCache is built on them too.        *)
(***************************************************************************)
EXTENDS Integers, FiniteSets

CONSTANT NoLive      \* the null of _liveStart

ASSUME NoLiveAssumption == NoLive \notin Int

(* A coverage record: the covered milliseconds and the live interval start. *)
Coverage == [pts : SUBSET Int, live : Int \cup {NoLive}]

Empty == [pts |-> {}, live |-> NoLive]

(* addCovered: an inverted range (end < start) is ignored because start..end
   is then empty. *)
Add(c, start, end) == [c EXCEPT !.pts = @ \cup (start .. end)]

(* extendLive: the first call anchors the interval; afterwards everything
   between the previous anchor and the new timestamp becomes covered. *)
ExtendLive(c, ts) ==
  [pts  |-> c.pts \cup ((IF c.live = NoLive THEN ts ELSE c.live) .. ts),
   live |-> ts]

CloseLive(c) == [c EXCEPT !.live = NoLive]

(* trim: forgets everything before min, and moves the live anchor up to it. *)
Trim(c, min) ==
  [pts  |-> {p \in c.pts : p >= min},
   live |-> IF c.live # NoLive /\ c.live < min THEN min ELSE c.live]

(* The milliseconds of a request that are still to be loaded. *)
Missing(c, start, end) == (start .. end) \ c.pts

(* The gaps of a request: its maximal runs of uncovered milliseconds. *)
Gaps(c, start, end) ==
  LET miss == Missing(c, start, end)
      first == {p \in miss : p - 1 \notin miss}
      last  == {p \in miss : p + 1 \notin miss}
  IN  {run \in first \X last :
          run[1] <= run[2] /\ run[1] .. run[2] \subseteq miss}

IsCovered(c, start, end) == Missing(c, start, end) = {}
=============================================================================
