----------------------------- MODULE BackupHold -----------------------------
(***************************************************************************)
(* The backup hold of api.py: /api/backup/begin makes the SQLite store     *)
(* safe to copy and holds off its writes until /api/backup/end, or until a *)
(* timer armed by the last begin runs out.                                 *)
(*                                                                         *)
(* All three take _backup_lock, an asyncio.Lock, which serves its waiters  *)
(* in order: queue is that order, its head runs next.  A handler suspends  *)
(* inside the lock only in the store's own begin_backup and end_backup.    *)
(* An expired timer does not release anything itself: it creates a task    *)
(* that has to wait for the lock like a request does.                      *)
(***************************************************************************)
EXTENDS Naturals, Sequences

CONSTANT MaxRequests     \* bound on the begin and end requests made

ASSUME MaxRequestsAssumption == MaxRequests \in Nat

VARIABLES
  requests,   \* requests made so far
  queue,      \* what the waiters of _backup_lock are here for, in order
  inStore,    \* the store call the lock's owner awaits: "none", "begin", "end"
  held,       \* the store holds its write lock
  timer,      \* _backup_timer: number of the timer, 0 for None
  armed,      \* number of the timer the loop will fire, 0 when there is none
  timers      \* timers created so far

vars == <<requests, queue, inStore, held, timer, armed, timers>>

Requests == {"begin", "end"}

Init ==
  /\ requests = 0 /\ queue = <<>> /\ inStore = "none" /\ held = FALSE
  /\ timer = 0 /\ armed = 0 /\ timers = 0

(* A request arrives and waits for the lock. *)
Request(what) ==
  /\ requests < MaxRequests
  /\ requests' = requests + 1
  /\ queue' = Append(queue, what)
  /\ UNCHANGED <<inStore, held, timer, armed, timers>>

(* The 15 minutes of the armed timer are over: the task is created. *)
TimerFires ==
  /\ armed # 0
  /\ queue' = Append(queue, "timeout")
  /\ armed' = 0
  /\ UNCHANGED <<requests, inStore, held, timer, timers>>
-----------------------------------------------------------------------------
NextOwner(kind) == queue # <<>> /\ inStore = "none" /\ Head(queue) = kind

KeepOldTimer ==                                  \* deviation
  /\ timers' = timers + 1
  /\ timer' = timers'
  /\ armed' = IF armed = 0 THEN timers' ELSE armed

CancelOldTimerOnly ==                            \* deviation
  /\ timers' = timers + 1
  /\ timer' = timers'
  /\ armed' = IF armed = 0 THEN timers' ELSE 0

(* call_later, after the previous timer (if any) was cancelled. *)
ArmTimer ==
  /\ timers' = timers + 1
  /\ timer' = timers' /\ armed' = timers'

BeginRegardless ==                               \* deviation
  /\ NextOwner("begin")
  /\ queue' = Tail(queue)
  /\ inStore' = "begin"
  /\ UNCHANGED <<requests, held, timer, armed, timers>>

(* backup_begin without a hold: the store is asked for one. *)
BeginHold ==
  /\ NextOwner("begin") /\ timer = 0
  /\ queue' = Tail(queue)
  /\ inStore' = "begin"
  /\ UNCHANGED <<requests, held, timer, armed, timers>>

(* backup_begin during a hold only extends it. *)
ExtendHold ==
  /\ NextOwner("begin") /\ timer # 0
  /\ queue' = Tail(queue)
  /\ ArmTimer
  /\ UNCHANGED <<requests, inStore, held>>

HoldBegunAnyway ==                               \* deviation
  /\ inStore = "begin"
  /\ inStore' = "none"
  /\ held' \in BOOLEAN /\ ArmTimer
  /\ UNCHANGED <<requests, queue>>

(* begin_backup returns, or raises (the 503): then nothing is held or armed. *)
HoldBegun ==
  /\ inStore = "begin"
  /\ inStore' = "none"
  /\ \/ held' = TRUE /\ ArmTimer
     \/ UNCHANGED <<held, timer, armed, timers>>
  /\ UNCHANGED <<requests, queue>>

(* _release_backup, on behalf of an end request or of an expired timer.  It
   asks only whether there is a hold: a timeout that waited behind a begin
   ends the hold that begin has just extended. *)
Release(kind) ==
  /\ NextOwner(kind)
  /\ queue' = Tail(queue)
  /\ IF timer = 0 THEN UNCHANGED <<inStore, timer, armed>>
     ELSE inStore' = "end" /\ timer' = 0 /\ armed' = 0
  /\ UNCHANGED <<requests, held, timers>>

HoldEnded ==
  /\ inStore = "end"
  /\ inStore' = "none" /\ held' = FALSE
  /\ UNCHANGED <<requests, queue, timer, armed, timers>>

LockStep == BeginHold \/ ExtendHold \/ HoldBegun
            \/ Release("end") \/ Release("timeout") \/ HoldEnded

Next == (\E what \in Requests : Request(what)) \/ TimerFires \/ LockStep

(* The loop runs ready tasks, store calls return, timers fire. *)
Fairness == WF_vars(LockStep) /\ WF_vars(TimerFires)

Spec == Init /\ [][Next]_vars /\ Fairness
-----------------------------------------------------------------------------
(* Every variable has its type, and the store is only called, to begin or to
   end a hold, while no hold is in force. *)
TypeOK ==
  /\ requests \in 0 .. MaxRequests
  /\ queue \in Seq(Requests \cup {"timeout"})
  /\ inStore \in {"none", "begin", "end"}
  /\ held \in BOOLEAN
  /\ timer \in 0 .. timers /\ armed \in 0 .. timers /\ timers \in Nat
  /\ inStore # "none" => timer = 0

(* Between two store calls the timer variable says whether the store is held:
   no request is answered on a wrong idea of the store's state. *)
TimerMeansHeld == inStore = "none" => (held <=> timer # 0)

(* A hold is never orphaned: while there is one, its timer is armed or the
   task that releases it is waiting for the lock, so writes resume even when
   backup_post is never called. *)
HoldWillExpire ==
  timer # 0 => armed = timer \/ \E i \in DOMAIN queue : queue[i] = "timeout"

(* No timer but that of the present hold is running. *)
NoStrayTimer == armed # 0 => armed = timer

(* Writes are never held off for good. *)
WritesResume == []<>~held

(* Between any two steps of requests, timers and store calls: the timer tells
   whether the store is held, no hold is without an end and no timer of an
   earlier hold is left to cut a later one short (api.py, database.py). *)
HoldIsSound == TypeOK /\ TimerMeansHeld /\ HoldWillExpire /\ NoStrayTimer
=============================================================================
