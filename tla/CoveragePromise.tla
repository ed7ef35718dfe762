--------------------------- MODULE CoveragePromise ---------------------------
(***************************************************************************)
(* The coverage service as an abstract state machine: one coverage record, *)
(* one action per method of TelegramCoverageService that changes it.       *)
(***************************************************************************)
EXTENDS CoverageSet

CONSTANT Time        \* the milliseconds the methods are called with

VARIABLE cov

Init == cov = Empty

AddCoveredOp(start, end) == cov' = Add(cov, start, end)
ExtendLiveOp(ts)         == cov' = ExtendLive(cov, ts)
CloseLiveOp              == cov' = CloseLive(cov)
TrimOp(min)              == cov' = Trim(cov, min)
ClearOp                  == cov' = Empty

(* A call that changes nothing is no step. *)
Next ==
  /\ cov' # cov
  /\ \/ \E s, e \in Time : AddCoveredOp(s, e)
     \/ \E t \in Time : ExtendLiveOp(t)
     \/ CloseLiveOp
     \/ \E m \in Time : TrimOp(m)
     \/ ClearOp

Spec == Init /\ [][Next]_cov
=============================================================================
