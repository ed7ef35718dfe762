-------------------------- MODULE BackupHoldProofs --------------------------
(***************************************************************************)
(* Machine-checked proofs about BackupHold, for any number of requests.    *)
(*                                                                         *)
(* TimerMeansHeld speaks of the times between two store calls.  It needs   *)
(* to know what a store call started from: begin_backup runs on a store    *)
(* that is not held (IdleWhenBegun), so that a begin that raises leaves    *)
(* timer and store in agreement.                                           *)
(*                                                                         *)
(* The last section proves the project's files, ProjectFiles, whose upload *)
(* the same api.py handles.                                                *)
(***************************************************************************)
EXTENDS BackupHold, SequenceTheorems, TLAPS

IdleWhenBegun == inStore = "begin" => ~held

IInv ==
  TypeOK /\ TimerMeansHeld /\ HoldWillExpire /\ NoStrayTimer /\ IdleWhenBegun

Waiting == Requests \cup {"timeout"}

LEMMA InitHolds == Init => IInv
<1> SUFFICES ASSUME Init PROVE IInv
  OBVIOUS
<1>1. queue \in Seq(Requests \cup {"timeout"})
  BY EmptySeq DEF Init
<1>2. requests \in 0 .. MaxRequests
  BY MaxRequestsAssumption DEF Init
<1>3. held \in BOOLEAN
  BY Zenon DEF Init
<1>4. /\ inStore \in {"none", "begin", "end"} /\ (inStore # "none" => timer = 0)
      /\ timers \in Nat /\ timer \in 0 .. timers /\ armed \in 0 .. timers
  BY DEF Init
<1>5. TypeOK
  BY <1>1, <1>2, <1>3, <1>4 DEF TypeOK
<1> QED
  BY <1>5 DEF Init, IInv, TimerMeansHeld, HoldWillExpire, NoStrayTimer, IdleWhenBegun
-----------------------------------------------------------------------------
(* A request or an expired timer joins the queue: a release that is waiting
   goes on waiting. *)
LEMMA JoinKeepsRelease ==
  ASSUME TypeOK, NEW what \in Waiting, queue' = Append(queue, what)
  PROVE  /\ queue' \in Seq(Waiting)
         /\ (\E i \in DOMAIN queue : queue[i] = "timeout")
              => \E i \in DOMAIN queue' : queue'[i] = "timeout"
         /\ what = "timeout" => \E i \in DOMAIN queue' : queue'[i] = "timeout"
<1>1. queue \in Seq(Waiting)
  BY DEF TypeOK, Waiting
<1>2. /\ queue' \in Seq(Waiting) /\ Len(queue') = Len(queue) + 1
      /\ \A i \in 1 .. Len(queue) : queue'[i] = queue[i]
      /\ queue'[Len(queue) + 1] = what
  BY <1>1, AppendProperties
<1>3. DOMAIN queue = 1 .. Len(queue) /\ DOMAIN queue' = 1 .. Len(queue')
      /\ Len(queue) \in Nat
  BY <1>1, <1>2, LenProperties
<1> QED BY <1>2, <1>3

LEMMA RequestKeeps ==
  ASSUME IInv, NEW what \in Requests, Request(what)
  PROVE  IInv'
<1>1. queue' = Append(queue, what) /\ what \in Waiting
  BY DEF Request, Waiting
<1>2. queue' \in Seq(Waiting) /\ HoldWillExpire'
  BY <1>1, JoinKeepsRelease DEF IInv, Request, HoldWillExpire
<1>3. TypeOK'
  BY <1>2, MaxRequestsAssumption DEF IInv, TypeOK, Request, Waiting
<1> QED
  BY <1>2, <1>3 DEF IInv, Request, TimerMeansHeld, NoStrayTimer, IdleWhenBegun

(* The timer hands over to the task it creates. *)
LEMMA TimerFiresKeeps ==
  ASSUME IInv, TimerFires
  PROVE  IInv'
<1>1. queue' = Append(queue, "timeout") /\ "timeout" \in Waiting
  BY DEF TimerFires, Waiting
<1>2. queue' \in Seq(Waiting) /\ HoldWillExpire'
  BY <1>1, JoinKeepsRelease DEF IInv, HoldWillExpire
<1>3. TypeOK'
  BY <1>2 DEF IInv, TypeOK, TimerFires, Waiting
<1> QED
  BY <1>2, <1>3 DEF IInv, TimerFires, TimerMeansHeld, NoStrayTimer, IdleWhenBegun
-----------------------------------------------------------------------------
(* The waiter served leaves the queue. *)
LEMMA ServeKeepsType ==
  ASSUME TypeOK, NEW kind, NextOwner(kind)
  PROVE  Tail(queue) \in Seq(Waiting)
BY HeadTailProperties DEF TypeOK, NextOwner, Waiting

(* Only a step that arms a timer, or leaves none behind, may take a waiter out
   of the queue: the waiter may be the release the hold depends on. *)
LEMMA LockStepKeeps ==
  ASSUME IInv, LockStep
  PROVE  IInv'
<1> USE DEF IInv
<1>1. CASE BeginHold
  <2>1. TypeOK'
    BY <1>1, ServeKeepsType DEF BeginHold, TypeOK, Waiting
  <2> QED
    BY <1>1, <2>1 DEF BeginHold, NextOwner, TimerMeansHeld, HoldWillExpire,
                      NoStrayTimer, IdleWhenBegun
<1>2. CASE ExtendHold
  <2>1. TypeOK'
    BY <1>2, ServeKeepsType DEF ExtendHold, NextOwner, ArmTimer, TypeOK, Waiting
  <2>2. timer' # 0
    BY <1>2 DEF ExtendHold, ArmTimer, TypeOK
  <2> QED
    BY <1>2, <2>1, <2>2 DEF ExtendHold, NextOwner, ArmTimer, TimerMeansHeld,
                            HoldWillExpire, NoStrayTimer, IdleWhenBegun
<1>3. CASE HoldBegun
  <2>1. CASE held' = TRUE /\ ArmTimer
    <3>1. TypeOK' /\ timer' # 0
      BY <1>3, <2>1 DEF HoldBegun, ArmTimer, TypeOK
    <3> QED
      BY <1>3, <2>1, <3>1 DEF HoldBegun, ArmTimer, TimerMeansHeld, HoldWillExpire,
                              NoStrayTimer, IdleWhenBegun
  <2>2. CASE UNCHANGED <<held, timer, armed, timers>>
    <3>1. TypeOK' /\ timer' = 0
      BY <1>3, <2>2 DEF HoldBegun, TypeOK
    <3> QED
      BY <1>3, <2>2, <3>1 DEF HoldBegun, TimerMeansHeld, HoldWillExpire,
                              NoStrayTimer, IdleWhenBegun
  <2> QED BY <1>3, <2>1, <2>2 DEF HoldBegun
<1>4. ASSUME NEW kind, Release(kind)
      PROVE  IInv'
  <2>1. TypeOK'
    BY <1>4, ServeKeepsType DEF Release, NextOwner, TypeOK, Waiting
  <2>2. timer' = 0
    BY <1>4 DEF Release
  <2> QED
    BY <1>4, <2>1, <2>2 DEF Release, NextOwner, TimerMeansHeld, HoldWillExpire,
                            NoStrayTimer, IdleWhenBegun
<1>5. CASE HoldEnded
  <2>1. TypeOK' /\ timer' = 0
    BY <1>5 DEF HoldEnded, TypeOK
  <2> QED
    BY <1>5, <2>1 DEF HoldEnded, TimerMeansHeld, HoldWillExpire, NoStrayTimer,
                      IdleWhenBegun
<1> QED BY <1>1, <1>2, <1>3, <1>4, <1>5 DEF LockStep

LEMMA StepKeeps == IInv /\ [Next]_vars => IInv'
<1> SUFFICES ASSUME IInv, [Next]_vars PROVE IInv'
  OBVIOUS
<1>1. CASE UNCHANGED vars
  BY <1>1 DEF vars, IInv, TypeOK, TimerMeansHeld, HoldWillExpire, NoStrayTimer,
              IdleWhenBegun
<1> QED BY <1>1, RequestKeeps, TimerFiresKeeps, LockStepKeeps DEF Next

(* The strengthened invariant of the backup hold (api.py:714-789). *)
THEOREM Invariance == Spec => []IInv
BY InitHolds, StepKeeps, PTL DEF Spec

(* The variables have their types, and the store is asked to begin or to end a
   hold only while no hold is in force. *)
THEOREM TypeCorrect == Spec => []TypeOK
<1>1. IInv => TypeOK
  BY DEF IInv
<1> QED BY <1>1, Invariance, PTL

(* Between two store calls _backup_timer says whether the store is held. *)
THEOREM TimerIsTheHold == Spec => []TimerMeansHeld
<1>1. IInv => TimerMeansHeld
  BY DEF IInv
<1> QED BY <1>1, Invariance, PTL

(* A hold has its timer armed or its release waiting for _backup_lock. *)
THEOREM NoOrphanedHold == Spec => []HoldWillExpire
<1>1. IInv => HoldWillExpire
  BY DEF IInv
<1> QED BY <1>1, Invariance, PTL

(* No timer of an earlier hold is left running. *)
THEOREM OldTimersCancelled == Spec => []NoStrayTimer
<1>1. IInv => NoStrayTimer
  BY DEF IInv
<1> QED BY <1>1, Invariance, PTL

(* Between any two steps the hold is sound: the timer tells whether the store
   is held, no hold is without an end, no stray timer runs. *)
THEOREM SoundHold == Spec => []HoldIsSound
<1>1. IInv => HoldIsSound
  BY DEF IInv, HoldIsSound
<1> QED BY <1>1, Invariance, PTL
-----------------------------------------------------------------------------
(* The project's files (ProjectFiles), for any set of uploads, any passwords
   that open them, and any number of restarts.  MetaTells speaks of the times at
   which nothing is under way.  To get there it needs to know, for an upload that
   has the files to itself, what each of its stages has left on disk (Stages), and
   that the stage before the first write has left everything alone (Tells). *)
CONSTANTS Uploads, Opens(_, _), MaxRestarts, Envs
VARIABLES habits, proj, pwd, meta, loaded, phase, unseen, overlapped, byHand, restarts

Pf == INSTANCE ProjectFiles

FileTypes ==
  /\ habits \in SUBSET Pf!Habits /\ proj \in Uploads \cup {Pf!None, Pf!Torn} /\ restarts \in 0 .. MaxRestarts
  /\ pwd \in Uploads \cup {Pf!None} /\ meta \in Uploads \cup {Pf!None} /\ loaded \in Uploads \cup {Pf!None}
  /\ phase \in [Uploads -> Pf!Phases]
  /\ unseen \in BOOLEAN /\ overlapped \in BOOLEAN /\ byHand \in BOOLEAN
  /\ Pf!HasSidecar \/ pwd = Pf!None

InFlightPhases == {"saving", "writing", "locking", "saved", "noting"}

(* Unless uploads overlapped: at most one is in flight, *)
Alone == \A u, v \in Uploads : phase[u] \in InFlightPhases /\ phase[v] \in InFlightPhases => u = v

(* its stage tells what is on disk, *)
Stages ==
  \A u \in Uploads :
    /\ phase[u] = "writing" => proj = Pf!Torn
    /\ phase[u] \in {"locking", "saved"} => proj = u
    /\ phase[u] = "noting" => Pf!Parsed = u /\ ~byHand

(* and until its first write the name and date are those of the file in use. *)
Tells ==
  (\A u \in Uploads : phase[u] \in InFlightPhases => phase[u] = "saving") /\ ~byHand /\ meta # Pf!None => meta = Pf!Parsed

FilesInv == FileTypes /\ (~overlapped => Alone /\ Stages /\ Tells)
-----------------------------------------------------------------------------
LEMMA ParsedType ==
  /\ Pf!Parsed \in Uploads \cup {Pf!None}
  /\ Pf!Parsed # Pf!None => Pf!Parsed = proj /\ proj \in Uploads
BY DEF Pf!Parsed

LEMMA FilesInit ==
  ASSUME Pf!Sized
  PROVE  Pf!Init => FilesInv
<1> SUFFICES ASSUME Pf!Init PROVE FilesInv
  OBVIOUS
<1>1. unseen \in BOOLEAN /\ overlapped \in BOOLEAN /\ byHand \in BOOLEAN
  BY Zenon DEF Pf!Init
<1>2. habits \in SUBSET Pf!Habits /\ restarts \in 0 .. MaxRestarts
  BY DEF Pf!Init, Pf!Sized
<1>3. FileTypes
  BY <1>1, <1>2 DEF Pf!Init, FileTypes, Pf!Phases
<1>4. \A u \in Uploads : phase[u] = "new"
  BY DEF Pf!Init
<1> QED BY <1>3, <1>4 DEF Pf!Init, FilesInv, Alone, Stages, Tells, InFlightPhases

LEMMA PhaseMoves ==
  ASSUME FileTypes, NEW u \in Uploads, NEW p \in Pf!Phases, Pf!Moves(u, p)
  PROVE  /\ phase' \in [Uploads -> Pf!Phases] /\ phase'[u] = p
         /\ \A v \in Uploads \ {u} : phase'[v] = phase[v]
BY DEF FileTypes, Pf!Moves
-----------------------------------------------------------------------------
LEMMA BeginKeeps ==
  ASSUME FilesInv, NEW u \in Uploads, Pf!Begin(u)
  PROVE  FilesInv'
<1>1. /\ phase' \in [Uploads -> Pf!Phases] /\ phase'[u] = "saving"
      /\ \A v \in Uploads \ {u} : phase'[v] = phase[v]
  BY PhaseMoves DEF Pf!Begin, FilesInv, Pf!Phases
<1>2. overlapped' \in BOOLEAN
  <2>1. overlapped' = (overlapped \/ Pf!InFlight # {})
    BY DEF Pf!Begin
  <2> QED BY <2>1, Zenon
<1>3. UNCHANGED <<habits, proj, pwd, meta, loaded, unseen, byHand, restarts>> /\ Pf!Parsed' = Pf!Parsed
  BY DEF Pf!Begin, Pf!Parsed, Pf!Looks, Pf!Custom, Pf!EnvPassword
<1>4. FileTypes'
  BY <1>1, <1>2, <1>3 DEF FilesInv, FileTypes, Pf!HasSidecar, Pf!Custom, Pf!EnvPassword
<1>5. ASSUME ~overlapped' PROVE ~overlapped /\ \A v \in Uploads : phase[v] \notin InFlightPhases
  BY <1>5 DEF Pf!Begin, Pf!InFlight, InFlightPhases
<1> QED BY <1>1, <1>3, <1>4, <1>5 DEF FilesInv, Alone, Stages, Tells, InFlightPhases

LEMMA TruncateKeeps ==
  ASSUME FilesInv, NEW u \in Uploads, Pf!Truncate(u)
  PROVE  FilesInv'
<1>1. CASE "readonly" \in habits
  <2>1. /\ phase' \in [Uploads -> Pf!Phases] /\ phase'[u] = "refused"
        /\ \A v \in Uploads \ {u} : phase'[v] = phase[v]
    BY <1>1, PhaseMoves DEF Pf!Truncate, FilesInv, Pf!Phases
  <2>2. phase[u] = "saving" /\ UNCHANGED <<habits, proj, pwd, meta, loaded, unseen, overlapped, byHand, restarts>>
        /\ Pf!Parsed' = Pf!Parsed
    BY <1>1 DEF Pf!Truncate, Pf!Parsed, Pf!Looks, Pf!Custom, Pf!EnvPassword
  <2>3. FileTypes'
    BY <2>1, <2>2 DEF FilesInv, FileTypes, Pf!HasSidecar, Pf!Custom, Pf!EnvPassword
  <2> QED BY <2>1, <2>2, <2>3 DEF FilesInv, Alone, Stages, Tells, InFlightPhases
<1>2. CASE "readonly" \notin habits
  <2>1. /\ phase' \in [Uploads -> Pf!Phases] /\ phase'[u] = "writing"
        /\ \A v \in Uploads \ {u} : phase'[v] = phase[v]
    BY <1>2, PhaseMoves DEF Pf!Truncate, FilesInv, Pf!Phases
  <2>2. phase[u] = "saving" /\ proj' = Pf!Torn
        /\ UNCHANGED <<habits, pwd, meta, loaded, overlapped, byHand, restarts>>
    BY <1>2 DEF Pf!Truncate
  <2>3. unseen' \in BOOLEAN
    BY <1>2 DEF Pf!Truncate
  <2>4. FileTypes'
    BY <2>1, <2>2, <2>3 DEF FilesInv, FileTypes, Pf!HasSidecar, Pf!Custom, Pf!EnvPassword
  <2> QED BY <2>1, <2>2, <2>4 DEF FilesInv, Alone, Stages, Tells, InFlightPhases
<1> QED BY <1>1, <1>2

LEMMA WriteProjectKeeps ==
  ASSUME FilesInv, NEW u \in Uploads, Pf!WriteProject(u)
  PROVE  FilesInv'
<1>1. /\ phase' \in [Uploads -> Pf!Phases] /\ phase'[u] = "locking"
      /\ \A v \in Uploads \ {u} : phase'[v] = phase[v]
  BY PhaseMoves DEF Pf!WriteProject, FilesInv, Pf!Phases
<1>2. phase[u] = "writing" /\ UNCHANGED <<habits, pwd, meta, loaded, overlapped, byHand, restarts>>
      /\ proj' \in Uploads \cup {Pf!Torn}
  BY DEF Pf!WriteProject
<1>3. unseen' \in BOOLEAN
  BY DEF Pf!WriteProject
<1>4. FileTypes'
  BY <1>1, <1>2, <1>3 DEF FilesInv, FileTypes, Pf!HasSidecar, Pf!Custom, Pf!EnvPassword
<1>5. ASSUME ~overlapped PROVE proj' = u
  <2>1. Pf!Writing = {u}
    BY <1>2, <1>5 DEF Pf!Writing, FilesInv, Alone, InFlightPhases
  <2> QED BY <2>1 DEF Pf!WriteProject
<1> QED BY <1>1, <1>2, <1>4, <1>5 DEF FilesInv, Alone, Stages, Tells, InFlightPhases

LEMMA WritePasswordKeeps ==
  ASSUME FilesInv, NEW u \in Uploads, Pf!WritePassword(u)
  PROVE  FilesInv'
<1>1. /\ phase' \in [Uploads -> Pf!Phases] /\ phase'[u] = "saved"
      /\ \A v \in Uploads \ {u} : phase'[v] = phase[v]
  BY PhaseMoves DEF Pf!WritePassword, FilesInv, Pf!Phases
<1>2. phase[u] = "locking" /\ UNCHANGED <<habits, proj, meta, loaded, unseen, overlapped, byHand, restarts>>
      /\ pwd' \in Uploads \cup {pwd}
  BY DEF Pf!WritePassword
<1>3. FileTypes'
  BY <1>1, <1>2 DEF FilesInv, FileTypes, Pf!WritePassword, Pf!HasSidecar, Pf!Custom, Pf!EnvPassword
<1> QED BY <1>1, <1>2, <1>3 DEF FilesInv, Alone, Stages, Tells, InFlightPhases

LEMMA LoadKeeps ==
  ASSUME Pf!Sized, FilesInv, NEW u \in Uploads, Pf!Load(u)
  PROVE  FilesInv'
<1>0. phase[u] = "saved" /\ UNCHANGED <<habits, unseen, overlapped, restarts>>
      /\ loaded' \in Uploads \cup {Pf!None}
  BY ParsedType DEF Pf!Load, Pf!AssignsIfParsed, FilesInv, FileTypes
<1>1. CASE Pf!Parsed # Pf!None
  <2>1. /\ phase' \in [Uploads -> Pf!Phases] /\ phase'[u] = "noting"
        /\ \A v \in Uploads \ {u} : phase'[v] = phase[v]
    BY <1>1, PhaseMoves DEF Pf!Load, FilesInv, Pf!Phases
  <2>2. UNCHANGED <<proj, pwd, meta>> /\ byHand' = FALSE /\ Pf!Parsed' = Pf!Parsed
    BY <1>0, <1>1 DEF Pf!Load, Pf!Parsed, Pf!Looks, Pf!Custom, Pf!EnvPassword
  <2>3. byHand' \in BOOLEAN
    BY <2>2
  <2>4. FileTypes'
    BY <1>0, <2>1, <2>2, <2>3 DEF FilesInv, FileTypes, Pf!HasSidecar, Pf!Custom, Pf!EnvPassword
  <2>5. ~overlapped => Pf!Parsed = u
    BY <1>0, <1>1, ParsedType DEF FilesInv, Stages
  <2> QED BY <1>0, <2>1, <2>2, <2>4, <2>5 DEF FilesInv, Alone, Stages, Tells, InFlightPhases
<1>2. CASE Pf!Parsed = Pf!None
  <2>1. /\ phase' \in [Uploads -> Pf!Phases] /\ phase'[u] = "failed"
        /\ \A v \in Uploads \ {u} : phase'[v] = phase[v]
    BY <1>2, PhaseMoves DEF Pf!Load, FilesInv, Pf!Phases
  <2>2. /\ meta' = Pf!None /\ byHand' = byHand /\ proj' \in {proj, Pf!None}
        /\ pwd' = IF Pf!HasSidecar THEN Pf!None ELSE pwd
    BY <1>2 DEF Pf!Load, Pf!DropsMeta
  <2>3. FileTypes'
    BY <1>0, <2>1, <2>2 DEF FilesInv, FileTypes, Pf!HasSidecar, Pf!Custom, Pf!EnvPassword
  <2> QED BY <1>0, <2>1, <2>2, <2>3 DEF FilesInv, Alone, Stages, Tells, InFlightPhases
<1> QED BY <1>1, <1>2

LEMMA NoteKeeps ==
  ASSUME FilesInv, NEW u \in Uploads, Pf!Note(u)
  PROVE  FilesInv'
<1>1. /\ phase' \in [Uploads -> Pf!Phases] /\ phase'[u] = "ok"
      /\ \A v \in Uploads \ {u} : phase'[v] = phase[v]
  BY PhaseMoves DEF Pf!Note, FilesInv, Pf!Phases
<1>2. phase[u] = "noting" /\ meta' = u /\ UNCHANGED <<habits, proj, pwd, loaded, unseen, overlapped, byHand, restarts>>
      /\ Pf!Parsed' = Pf!Parsed
  BY DEF Pf!Note, Pf!Parsed, Pf!Looks, Pf!Custom, Pf!EnvPassword
<1>3. FileTypes'
  BY <1>1, <1>2 DEF FilesInv, FileTypes, Pf!HasSidecar, Pf!Custom, Pf!EnvPassword
<1> QED BY <1>1, <1>2, <1>3 DEF FilesInv, Alone, Stages, Tells, InFlightPhases
-----------------------------------------------------------------------------
LEMMA ReplaceKeeps ==
  ASSUME FilesInv, NEW u \in Uploads, Pf!Replace(u)
  PROVE  FilesInv'
<1>1. /\ proj' = u /\ UNCHANGED <<habits, meta, loaded, phase, overlapped, restarts>>
      /\ pwd' = (IF Pf!HasSidecar THEN u ELSE pwd) /\ byHand' = TRUE
      /\ \A v \in Uploads : phase[v] \notin InFlightPhases
  BY DEF Pf!Replace, Pf!InFlight, InFlightPhases
<1>2. unseen' \in BOOLEAN /\ byHand' \in BOOLEAN
  BY Zenon DEF Pf!Replace
<1>3. FileTypes'
  BY <1>1, <1>2 DEF FilesInv, FileTypes, Pf!HasSidecar, Pf!Custom, Pf!EnvPassword
<1> QED BY <1>1, <1>3 DEF FilesInv, Alone, Stages, Tells, InFlightPhases

LEMMA WatchKeeps ==
  ASSUME FilesInv, Pf!Watch
  PROVE  FilesInv'
<1>1. UNCHANGED <<habits, proj, pwd, meta, phase, overlapped, byHand, restarts>> /\ Pf!Parsed' = Pf!Parsed
  BY DEF Pf!Watch, Pf!Parsed, Pf!Looks, Pf!Custom, Pf!EnvPassword
<1>2. unseen' \in BOOLEAN /\ loaded' \in Uploads \cup {Pf!None}
  BY ParsedType DEF Pf!Watch, Pf!AssignsIfParsed, FilesInv, FileTypes
<1>3. FileTypes'
  BY <1>1, <1>2 DEF FilesInv, FileTypes, Pf!HasSidecar, Pf!Custom, Pf!EnvPassword
<1> QED BY <1>1, <1>3 DEF FilesInv, Alone, Stages, Tells

LEMMA RestartKeeps ==
  ASSUME Pf!Sized, FilesInv, Pf!Restart
  PROVE  FilesInv'
<1>1. UNCHANGED <<habits, proj, pwd, meta, phase, overlapped, byHand>> /\ Pf!Parsed' = Pf!Parsed
  BY DEF Pf!Restart, Pf!Parsed, Pf!Looks, Pf!Custom, Pf!EnvPassword
<1>2. unseen' \in BOOLEAN /\ loaded' \in Uploads \cup {Pf!None}
  BY ParsedType DEF Pf!Restart
<1>3. restarts' \in 0 .. MaxRestarts
  BY DEF Pf!Restart, Pf!Sized, FilesInv, FileTypes
<1>4. FileTypes'
  BY <1>1, <1>2, <1>3 DEF FilesInv, FileTypes, Pf!HasSidecar, Pf!Custom, Pf!EnvPassword
<1> QED BY <1>1, <1>4 DEF FilesInv, Alone, Stages, Tells

LEMMA AgainKeeps ==
  ASSUME FilesInv, NEW u \in Uploads, Pf!Again(u)
  PROVE  FilesInv'
<1>1. /\ phase' \in [Uploads -> Pf!Phases] /\ phase'[u] = "new"
      /\ \A v \in Uploads \ {u} : phase'[v] = phase[v]
  BY PhaseMoves DEF Pf!Again, FilesInv, Pf!Phases
<1>2. phase[u] \notin InFlightPhases /\ Pf!Parsed' = Pf!Parsed
      /\ UNCHANGED <<habits, proj, pwd, meta, loaded, unseen, overlapped, byHand, restarts>>
  BY DEF Pf!Again, InFlightPhases, Pf!Parsed, Pf!Looks, Pf!Custom, Pf!EnvPassword
<1>3. FileTypes'
  BY <1>1, <1>2 DEF FilesInv, FileTypes, Pf!HasSidecar, Pf!Custom, Pf!EnvPassword
<1> QED BY <1>1, <1>2, <1>3 DEF FilesInv, Alone, Stages, Tells, InFlightPhases

LEMMA FilesStepKeeps ==
  ASSUME Pf!Sized
  PROVE  FilesInv /\ [Pf!Next]_(Pf!vars) => FilesInv'
<1> SUFFICES ASSUME FilesInv, [Pf!Next]_(Pf!vars) PROVE FilesInv'
  OBVIOUS
<1>1. CASE UNCHANGED Pf!vars
  BY <1>1 DEF Pf!vars, FilesInv, FileTypes, Alone, Stages, Tells, Pf!Parsed, Pf!Looks, Pf!HasSidecar, Pf!Custom, Pf!EnvPassword
<1> QED BY <1>1, BeginKeeps, TruncateKeeps, WriteProjectKeeps, WritePasswordKeeps, LoadKeeps, NoteKeeps,
           ReplaceKeeps, WatchKeeps, RestartKeeps, AgainKeeps DEF Pf!Next, Pf!UploadSteps

(* The strengthened invariant of the project's files (api.py, knx_daemon.py). *)
THEOREM FilesInvariance ==
  ASSUME Pf!Sized
  PROVE  Pf!Spec => []FilesInv
<1>1. Pf!Init => FilesInv
  BY FilesInit
<1>2. FilesInv /\ [Pf!Next]_(Pf!vars) => FilesInv'
  BY FilesStepKeeps
<1> QED BY <1>1, <1>2, PTL DEF Pf!Spec

(* Unless two uploads overlapped, the name and date shown are those of the
   project that a restart would load, whatever was uploaded, failed or was
   refused before (api.py, knx_daemon.py). *)
THEOREM FilesDoAgree ==
  ASSUME Pf!Sized
  PROVE  Pf!Spec => []Pf!FilesAgree
<1>1. FilesInv => Pf!TypeOK
  BY DEF FilesInv, FileTypes, Pf!TypeOK
<1>2. FilesInv => Pf!MetaTells
  BY DEF FilesInv, Tells, Pf!MetaTells, Pf!InFlight, InFlightPhases
<1>3. FilesInv => Pf!FilesAgree
  BY <1>1, <1>2 DEF Pf!FilesAgree
<1>4. Pf!Spec => []FilesInv
  BY FilesInvariance
<1> QED BY <1>3, <1>4, PTL

(* No file, torn, refused or removed, takes the names of the telegrams away
   while the server runs: only a restart can. *)
THEOREM NamesAreKept ==
  ASSUME Pf!Sized
  PROVE  Pf!Spec => Pf!KeepsNames
<1>1. FilesInv /\ [Pf!Next]_(Pf!vars) => [loaded # Pf!None /\ loaded' = Pf!None => restarts' # restarts]_(Pf!vars)
  <2> SUFFICES ASSUME FilesInv, Pf!Next, loaded # Pf!None, loaded' = Pf!None PROVE restarts' # restarts
    BY DEF Pf!vars
  <2>1. CASE Pf!Restart
    BY <2>1 DEF Pf!Restart, FilesInv, FileTypes
  <2>2. ASSUME Pf!AssignsIfParsed PROVE FALSE
    BY <2>2 DEF Pf!AssignsIfParsed
  <2>3. ASSUME loaded' = loaded PROVE FALSE
    BY <2>3
  <2> QED BY <2>1, <2>2, <2>3 DEF Pf!Next, Pf!UploadSteps, Pf!Begin, Pf!Truncate, Pf!WriteProject, Pf!WritePassword, Pf!Load, Pf!Note,
             Pf!Replace, Pf!Watch, Pf!Again
<1>2. Pf!Spec => []FilesInv
  BY FilesInvariance
<1> QED BY <1>1, <1>2, PTL DEF Pf!Spec, Pf!KeepsNames
=============================================================================
