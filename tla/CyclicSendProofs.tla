-------------------------- MODULE CyclicSendProofs --------------------------
(***************************************************************************)
(* Machine-checked proofs about CyclicSend and, over its jobs, WritePanel, *)
(* for any bounds.  The jobs: types, at most one live task, every telegram *)
(* counted, and that finished and cancelled jobs stay as they are.  The    *)
(* panel: what it shows is true while its requests are lost, late or       *)
(* overtake each other, and a row that is removed leaves no job behind.    *)
(*                                                                         *)
(* OneTaskAtATime is not inductive: start_send looks at the job record and *)
(* never at the task.  What makes it safe is LiveTaskIsActive: a task that *)
(* still runs belongs to the current job, and that job's state is waiting  *)
(* or running; a task and its record leave these states in one step.       *)
(* The panel's invariant is PanelInv: each request on its way is Sound,    *)
(* it will not bring what the panel cannot take when it arrives.           *)
(***************************************************************************)
EXTENDS WritePanel, FiniteSetTheorems, TLAPS

LiveTaskIsActive ==
  \A j \in JobId : TaskRuns(j) => j = current /\ job[j].state \in Active

(* Jobs not yet started have neither a record nor a task. *)
Unstarted ==
  \A j \in JobId : j > current => job[j] = NoJob /\ task[j] = NoTask

IInv == TypeOK /\ LiveTaskIsActive /\ Unstarted /\ SentIsCounted /\ QuietAfterShutdown
-----------------------------------------------------------------------------
(* What ends or suspends a task: only its own record and task change, and the
   record keeps the number of sends it is given. *)
RecordsBecome(j, r, t) ==
  job' = [job EXCEPT ![j] = r] /\ task' = [task EXCEPT ![j] = t]

(* Ending a task resets the announced send and keeps the counter. *)
LEMMA FinishEffect ==
  ASSUME TypeOK, NEW j \in JobId, NEW rec \in Job, NEW state \in Finished,
         Finish(j, rec, state)
  PROVE  \E r \in Job, t \in Task :
           /\ RecordsBecome(j, r, t) /\ r.done = rec.done /\ ~r.nextSend /\ t.pc = "over"
           /\ r.state = state /\ t.cancelled = task[j].cancelled
<1> DEFINE r == [rec EXCEPT !.state = state, !.nextSend = FALSE]
           t == [task[j] EXCEPT !.pc = "over"]
<1>1. r \in Job /\ r.done = rec.done /\ ~r.nextSend /\ r.state = state
  BY DEF Job, Finished
<1>2. task[j] \in Task
  BY DEF TypeOK, Types
<1>3. t \in Task /\ t.pc = "over" /\ t.cancelled = task[j].cancelled
  BY <1>2 DEF Task
<1>4. RecordsBecome(j, r, t)
  BY <1>2 DEF Finish, RecordsBecome, TypeOK, Types, Task
<1> QED BY <1>1, <1>3, <1>4

(* After an attempt the task is over or asleep with its job running. *)
LEMMA AfterAttemptEffect ==
  ASSUME TypeOK, NEW j \in JobId, NEW rec \in Job, rec.state = "running",
         AfterAttempt(j, rec)
  PROVE  \E r \in Job, t \in Task :
           /\ RecordsBecome(j, r, t) /\ r.done = rec.done
           /\ \/ t.pc = "over" /\ ~r.nextSend /\ r.state \in Finished
              \/ t.pc = "interval" /\ r.state = "running"
           /\ t.cancelled = task[j].cancelled
<1>1. CASE ~rec.cyclic
  <2>1. Finish(j, rec, "done")
    BY <1>1 DEF AfterAttempt
  <2> QED BY <2>1, FinishEffect DEF Finished
<1>2. CASE rec.cyclic
  <2> DEFINE r == [rec EXCEPT !.nextSend = TRUE]
             t == [task[j] EXCEPT !.pc = "interval", !.elapsed = FALSE]
  <2>1. r \in Job /\ r.done = rec.done /\ r.state = "running"
    BY DEF Job
  <2>2. task[j] \in Task
    BY DEF TypeOK, Types
  <2>3. t \in Task /\ t.pc = "interval" /\ t.cancelled = task[j].cancelled
    BY <2>2 DEF Task
  <2>4. RecordsBecome(j, r, t)
    BY <1>2, <2>2 DEF AfterAttempt, RecordsBecome, TypeOK, Types, Task
  <2> QED BY <2>1, <2>3, <2>4
<1> QED BY <1>1, <1>2

(* One turn of the send loop: the counter grows exactly when a telegram was
   put into the send queue. *)
LEMMA SendOnceEffect ==
  ASSUME TypeOK, NEW j \in JobId, SendOnce(j)
  PROVE  \E r \in Job, t \in Task, k \in {0, 1} :
           /\ RecordsBecome(j, r, t)
           /\ \/ t.pc = "over" /\ ~r.nextSend /\ r.state \in Finished
              \/ t.pc = "interval" /\ r.state = "running"
           /\ r.done = job[j].done + k
           /\ t.cancelled = task[j].cancelled
           /\ queued' = [queued EXCEPT ![j] = @ + k]
<1> DEFINE running == [job[j] EXCEPT !.state = "running", !.nextSend = FALSE]
           skip    == [running EXCEPT !.skipped = @ + 1]
           sent    == [running EXCEPT !.done = @ + 1]
<1>1. job[j] \in Job /\ queued \in [JobId -> Nat]
  BY DEF TypeOK, Types
<1>2. running \in Job /\ running.state = "running" /\ running.done = job[j].done
  BY <1>1 DEF Job, Active
<1>4. \/ AfterAttempt(j, skip) /\ UNCHANGED queued
      \/ AfterAttempt(j, sent) /\ queued' = [queued EXCEPT ![j] = @ + 1]
      \/ Finish(j, running, "failed") /\ UNCHANGED queued
  BY DEF SendOnce
<1>5. queued = [queued EXCEPT ![j] = @ + 0]
  BY <1>1
<1> HIDE DEF running
<1>6. skip \in Job /\ skip.state = "running" /\ skip.done = job[j].done + 0
  BY <1>1, <1>2 DEF Job
<1>7. sent \in Job /\ sent.state = "running" /\ sent.done = job[j].done + 1
  BY <1>1, <1>2 DEF Job
<1> HIDE DEF skip, sent
<1>8. CASE AfterAttempt(j, skip) /\ UNCHANGED queued
  BY <1>5, <1>6, <1>8, AfterAttemptEffect
<1>9. CASE AfterAttempt(j, sent) /\ queued' = [queued EXCEPT ![j] = @ + 1]
  BY <1>7, <1>9, AfterAttemptEffect
<1>10. CASE Finish(j, running, "failed") /\ UNCHANGED queued
  <2>1. running.done = job[j].done + 0
    BY <1>1, <1>2 DEF Job
  <2> QED BY <1>2, <1>5, <1>10, <2>1, FinishEffect DEF Finished
<1> QED BY <1>4, <1>8, <1>9, <1>10
-----------------------------------------------------------------------------
(* The initial states satisfy the inductive invariant. *)
THEOREM InitIInv == Init => IInv
<1> SUFFICES ASSUME Init PROVE IInv
  OBVIOUS
<1>1. NoJob \in Job /\ NoTask \in Task
  BY DEF NoJob, NoTask, Job, Task
<1>2. Types
  BY <1>1, BoundsAssumption DEF Init, Types
<1>4. \A j \in JobId : SendIsAnnounced(j)
  BY DEF Init, SendIsAnnounced, NoJob
<1>3. LiveTaskIsActive /\ Unstarted /\ SentIsCounted /\ QuietAfterShutdown
  BY DEF Init, LiveTaskIsActive, Unstarted, SentIsCounted, QuietAfterShutdown,
         TaskRuns, NoTask, NoJob
<1> QED BY <1>2, <1>3, <1>4 DEF IInv, TypeOK

(* A step of the task of the current job preserves the invariant, provided
   the task was alive and only its record, state and counter change. *)
LEMMA TaskStepKeeps ==
  ASSUME IInv, NEW j \in JobId, TaskRuns(j), NEW r \in Job, NEW t \in Task,
         NEW k \in {0, 1}, RecordsBecome(j, r, t),
         (t.pc = "over" /\ ~r.nextSend) \/ (t.pc \in {"delay", "interval"} /\ r.state \in Active),
         r.done = job[j].done + k,
         queued' = [queued EXCEPT ![j] = @ + k],
         UNCHANGED <<current, writable, phase>>
  PROVE  IInv'
<1>1. Types'
  BY DEF IInv, TypeOK, Types, RecordsBecome
<1>2. j = current
  BY DEF IInv, LiveTaskIsActive
<1>3. /\ job'[j] = r /\ task'[j] = t /\ queued'[j] = queued[j] + k
      /\ \A i \in JobId \ {j} :
            job'[i] = job[i] /\ task'[i] = task[i] /\ queued'[i] = queued[i]
  BY DEF IInv, TypeOK, Types, RecordsBecome
<1>4. LiveTaskIsActive'
  BY <1>2, <1>3 DEF IInv, LiveTaskIsActive, TaskRuns
<1>5. Unstarted'
  <2> SUFFICES ASSUME NEW i \in JobId, i > current
               PROVE  job'[i] = NoJob /\ task'[i] = NoTask
    BY DEF Unstarted
  <2>1. job[i] = NoJob /\ task[i] = NoTask
    BY DEF IInv, Unstarted
  <2>2. i # j
    BY <1>2, BoundsAssumption DEF IInv, TypeOK, Types, JobId
  <2> QED BY <1>3, <2>1, <2>2
<1>6. SentIsCounted'
  BY <1>3 DEF IInv, TypeOK, Types, SentIsCounted
<1>7. QuietAfterShutdown'
  BY <1>3 DEF IInv, QuietAfterShutdown, TaskRuns
<1>8. (\A i \in JobId : SendIsAnnounced(i))'
  BY <1>3 DEF IInv, TypeOK, SendIsAnnounced
<1> QED BY <1>1, <1>4, <1>5, <1>6, <1>7, <1>8 DEF IInv, TypeOK

(* The task steps, one by one: a turn of the send loop, ... *)
LEMMA SendOnceKeeps ==
  ASSUME IInv, NEW j \in JobId, TaskRuns(j), SendOnce(j),
         UNCHANGED <<current, writable, phase>>
  PROVE  IInv'
<1>1. PICK r \in Job, t \in Task, k \in {0, 1} :
           /\ RecordsBecome(j, r, t)
           /\ \/ t.pc = "over" /\ ~r.nextSend
              \/ t.pc = "interval" /\ r.state = "running"
           /\ r.done = job[j].done + k
           /\ queued' = [queued EXCEPT ![j] = @ + k]
  BY SendOnceEffect DEF IInv
<1>2. (t.pc = "over" /\ ~r.nextSend) \/ (t.pc \in {"delay", "interval"} /\ r.state \in Active)
  BY <1>1 DEF Active
<1> QED BY <1>1, <1>2, TaskStepKeeps

(* ... the first run of the task, ... *)
LEMMA FirstStepKeeps ==
  ASSUME IInv, NEW j \in JobId, FirstStep(j)
  PROVE  IInv'
<1>1. TaskRuns(j)
  BY DEF FirstStep, TaskRuns
<1>2. job[j] \in Job /\ task[j] \in Task /\ queued \in [JobId -> Nat]
      /\ job \in [JobId -> Job] /\ task \in [JobId -> Task]
  BY DEF IInv, TypeOK, Types
<1>3. queued = [queued EXCEPT ![j] = @ + 0] /\ job[j].done = job[j].done + 0
      /\ job = [job EXCEPT ![j] = job[j]]
  BY <1>2 DEF Job
<1>4. CASE task[j].cancelled
  <2> DEFINE t == [task[j] EXCEPT !.pc = "over"]
  <2>1. t \in Task /\ t.pc = "over" /\ task' = [task EXCEPT ![j] = t]
    BY <1>2, <1>4 DEF FirstStep, Task
  <2>2. RecordsBecome(j, job[j], t) /\ queued' = [queued EXCEPT ![j] = @ + 0]
        /\ UNCHANGED <<current, writable, phase>>
    BY <1>3, <1>4, <2>1 DEF FirstStep, RecordsBecome
  <2>3. ~job[j].nextSend
    BY DEF FirstStep, IInv, TypeOK, SendIsAnnounced
  <2> HIDE DEF t
  <2> QED BY <1>1, <1>2, <1>3, <2>1, <2>2, <2>3, TaskStepKeeps
<1>5. CASE ~task[j].cancelled /\ job[j].delayed
  <2> DEFINE t == [task[j] EXCEPT !.pc = "delay"]
             r == [job[j] EXCEPT !.nextSend = TRUE]
  <2>0. t \in Task /\ t.pc = "delay"
    BY <1>2 DEF Task
  <2>1. r \in Job /\ r.done = job[j].done + 0 /\ r.state = job[j].state
    <3> HIDE DEF t
    <3>1. r \in Job /\ r.done = job[j].done /\ r.state = job[j].state
      BY <1>2 DEF Job
    <3>2. job[j].done = job[j].done + 0
      BY <1>2 DEF Job
    <3> QED BY <3>1, <3>2
  <2>2. RecordsBecome(j, r, t) /\ queued' = [queued EXCEPT ![j] = @ + 0]
        /\ UNCHANGED <<current, writable, phase>>
    BY <1>2, <1>3, <1>5 DEF FirstStep, RecordsBecome, Job, Task
  <2>3. r.state \in Active
    BY <1>1, <2>1 DEF IInv, LiveTaskIsActive
  <2> HIDE DEF t, r
  <2> QED BY <1>1, <2>0, <2>1, <2>2, <2>3, TaskStepKeeps
<1>6. CASE ~task[j].cancelled /\ ~job[j].delayed
  BY <1>1, <1>6, SendOnceKeeps DEF FirstStep
<1> QED BY <1>4, <1>5, <1>6 DEF FirstStep

(* ... and its resumption from a sleep. *)
LEMMA ResumeKeeps ==
  ASSUME IInv, NEW j \in JobId, Resume(j)
  PROVE  IInv'
<1>1. TaskRuns(j)
  BY DEF Resume, TaskRuns
<1>2. CASE task[j].cancelled
  <2>1. TypeOK /\ job[j] \in Job /\ queued \in [JobId -> Nat]
    BY DEF IInv, TypeOK, Types
  <2>2. PICK r \in Job, t \in Task :
          RecordsBecome(j, r, t) /\ r.done = job[j].done /\ ~r.nextSend
          /\ t.pc = "over"
    BY <1>2, <2>1, FinishEffect DEF Resume, Finished
  <2>3. queued' = [queued EXCEPT ![j] = @ + 0] /\ r.done = job[j].done + 0
    BY <1>2, <2>1, <2>2 DEF Resume, Job
  <2> QED BY <1>1, <2>2, <2>3, TaskStepKeeps DEF Resume
<1>3. CASE ~task[j].cancelled
  BY <1>1, <1>3, SendOnceKeeps DEF Resume
<1> QED BY <1>2, <1>3
-----------------------------------------------------------------------------
(* start_send: it finds no active job, hence no live task, and takes a number
   that no task has. *)
LEMMA StartKeeps ==
  ASSUME IInv, NEW delayed \in BOOLEAN, NEW cyclic \in BOOLEAN, Start(delayed, cyclic)
  PROVE  IInv'
<1> DEFINE n == current + 1
           r == [NoJob EXCEPT !.state = "waiting", !.delayed = delayed, !.cyclic = cyclic]
           t == [NoTask EXCEPT !.pc = "scheduled"]
<1>1. /\ current \in Nat /\ n \in JobId /\ n # current
      /\ job \in [JobId -> Job] /\ task \in [JobId -> Task] /\ queued \in [JobId -> Nat]
  BY BoundsAssumption DEF Start, IInv, TypeOK, Types, JobId
<1>2. r \in Job /\ r.state = "waiting" /\ r.done = 0 /\ ~r.nextSend
  BY DEF NoJob, Job, Active
<1>3. t \in Task /\ t.pc = "scheduled"
  BY DEF NoTask, Task
<1>4. /\ current' = n /\ job' = [job EXCEPT ![n] = r] /\ task' = [task EXCEPT ![n] = t]
      /\ UNCHANGED <<queued, writable, phase>> /\ phase = "serving"
  BY DEF Start
<1> HIDE DEF r, t
<1>5. /\ job'[n] = r /\ task'[n] = t
      /\ \A i \in JobId \ {n} : job'[i] = job[i] /\ task'[i] = task[i]
  BY <1>1, <1>4
<1>6. Types'
  BY <1>1, <1>2, <1>3, <1>4, BoundsAssumption DEF IInv, TypeOK, Types, JobId
<1>7. \A i \in JobId : ~TaskRuns(i)
  <2>1. ~ActiveJob
    BY DEF Start, MayStart
  <2>2. \A i \in JobId : i # 0
    BY DEF JobId
  <2> QED BY <2>1, <2>2 DEF IInv, LiveTaskIsActive, ActiveJob
<1>8. LiveTaskIsActive'
  BY <1>2, <1>4, <1>5, <1>7 DEF LiveTaskIsActive, TaskRuns, Active
<1>9. Unstarted'
  BY <1>1, <1>4, <1>5 DEF IInv, Unstarted, JobId
<1>10. SentIsCounted'
  <2>1. queued[n] = 0
    BY <1>1 DEF IInv, Unstarted, SentIsCounted, NoJob
  <2> QED BY <1>2, <1>4, <1>5, <2>1 DEF IInv, SentIsCounted
<1>11. QuietAfterShutdown'
  BY <1>4 DEF QuietAfterShutdown
<1>12. (\A i \in JobId : SendIsAnnounced(i))'
  BY <1>2, <1>5 DEF IInv, TypeOK, SendIsAnnounced
<1> QED BY <1>6, <1>8, <1>9, <1>10, <1>11, <1>12 DEF IInv, TypeOK

(* Requesting a cancellation changes no task's place. *)
LEMMA CancelTaskKeeps ==
  ASSUME IInv, current # 0, CancelTask, UNCHANGED <<current, job, queued, writable>>,
         phase' \in {"serving", "stopping"}
  PROVE  IInv'
<1>1. current \in JobId /\ task[current] \in Task /\ task \in [JobId -> Task]
  BY BoundsAssumption DEF IInv, TypeOK, Types, JobId
<1> DEFINE t == [task[current] EXCEPT !.cancelled = @ \/ TaskRuns(current)]
<1>2. t \in Task /\ t.pc = task[current].pc
  BY <1>1 DEF Task, TaskRuns
<1>3. task' = [task EXCEPT ![current] = t]
  BY <1>1 DEF CancelTask, Task
<1> HIDE DEF t
<1>4. \A i \in JobId : task'[i].pc = task[i].pc
  BY <1>1, <1>2, <1>3
<1>5. \A i \in JobId : i # current => task'[i] = task[i]
  BY <1>1, <1>3
<1>6. Types'
  BY <1>1, <1>2, <1>3 DEF IInv, TypeOK, Types
<1>7. LiveTaskIsActive'
  BY <1>4 DEF IInv, LiveTaskIsActive, TaskRuns
<1>8. Unstarted'
  BY <1>1, <1>5 DEF IInv, Unstarted, TypeOK, Types, JobId
<1>9. SentIsCounted' /\ QuietAfterShutdown'
  BY DEF IInv, SentIsCounted, QuietAfterShutdown
<1>10. (\A i \in JobId : SendIsAnnounced(i))'
  BY <1>4 DEF IInv, TypeOK, SendIsAnnounced
<1> QED BY <1>6, <1>7, <1>8, <1>9, <1>10 DEF IInv, TypeOK

(* Every step of the API, of the tasks and of the loop preserves it. *)
THEOREM NextIInv == IInv /\ [Next]_vars => IInv'
<1> SUFFICES ASSUME IInv, [Next]_vars PROVE IInv'
  OBVIOUS
<1>1. ASSUME NEW delayed \in BOOLEAN, NEW cyclic \in BOOLEAN, Start(delayed, cyclic)
      PROVE  IInv'
  BY <1>1, StartKeeps
<1>2. CASE Cancel
  BY <1>2, CancelTaskKeeps DEF Cancel, ActiveJob
<1>3. CASE Shutdown
  <2>1. CASE current # 0 /\ TaskRuns(current)
    BY <1>3, <2>1, CancelTaskKeeps DEF Shutdown
  <2>2. CASE ~(current # 0 /\ TaskRuns(current))
    BY <1>3, <2>2 DEF Shutdown, IInv, TypeOK, Types, SendIsAnnounced, LiveTaskIsActive,
                Unstarted, SentIsCounted,
                      QuietAfterShutdown, TaskRuns
  <2> QED BY <2>1, <2>2
<1>4. CASE BusStopped
  <2>1. \A j \in JobId : ~TaskRuns(j)
    BY <1>4 DEF BusStopped, IInv, LiveTaskIsActive, JobId
  <2> QED BY <1>4, <2>1 DEF BusStopped, IInv, TypeOK, Types, SendIsAnnounced, LiveTaskIsActive,
                Unstarted,
                            SentIsCounted, QuietAfterShutdown, TaskRuns
<1>5. CASE BusChange
  BY <1>5 DEF BusChange, IInv, TypeOK, Types, SendIsAnnounced, LiveTaskIsActive,
                Unstarted, SentIsCounted,
              QuietAfterShutdown, TaskRuns
<1>6. ASSUME NEW j \in JobId, TaskStep(j) PROVE IInv'
  BY <1>6, FirstStepKeeps, ResumeKeeps DEF TaskStep
<1>7. ASSUME NEW j \in JobId, SleepElapses(j) PROVE IInv'
  <2> DEFINE t == [task[j] EXCEPT !.elapsed = TRUE]
  <2>1. /\ task[j] \in Task /\ job[j] \in Job /\ queued \in [JobId -> Nat]
        /\ job \in [JobId -> Job] /\ task \in [JobId -> Task]
    BY DEF IInv, TypeOK, Types
  <2>2. t \in Task /\ t.pc = task[j].pc
    BY <2>1 DEF Task
  <2>3. TaskRuns(j) /\ t.pc \in {"delay", "interval"} /\ job[j].state \in Active
    BY <1>7, <2>2 DEF SleepElapses, TaskRuns, IInv, LiveTaskIsActive
  <2>4. queued' = [queued EXCEPT ![j] = @ + 0] /\ job[j].done = job[j].done + 0
    BY <1>7, <2>1 DEF SleepElapses, Job
  <2>5. RecordsBecome(j, job[j], t)
    BY <1>7, <2>1 DEF SleepElapses, RecordsBecome, Task
  <2> HIDE DEF t
  <2> QED BY <1>7, <2>1, <2>2, <2>3, <2>4, <2>5, TaskStepKeeps DEF SleepElapses
<1>8. CASE UNCHANGED vars
  BY <1>8 DEF vars, IInv, TypeOK, Types, SendIsAnnounced, LiveTaskIsActive,
                Unstarted, SentIsCounted,
              QuietAfterShutdown, TaskRuns
<1> QED BY <1>1, <1>2, <1>3, <1>4, <1>5, <1>6, <1>7, <1>8 DEF Next

(* The invariant holds throughout every execution. *)
THEOREM Invariance == Spec => []IInv
BY InitIInv, NextIInv, PTL DEF Spec

(* Every variable of the job manager has its type. *)
THEOREM TypeCorrect == Spec => []TypeOK
<1>1. IInv => TypeOK
  BY DEF IInv
<1> QED BY <1>1, Invariance, PTL

(* There is never more than one task that can still send. *)
THEOREM SingleTask == Spec => []OneTaskAtATime
<1>1. IInv => OneTaskAtATime
  BY DEF IInv, LiveTaskIsActive, OneTaskAtATime
<1> QED BY <1>1, Invariance, PTL

(* The reported number of sends is the number of telegrams handed to xknx. *)
THEOREM CountIsExact == Spec => []SentIsCounted
<1>1. IInv => SentIsCounted
  BY DEF IInv
<1> QED BY <1>1, Invariance, PTL

(* When the bus connection is taken down no task is left to send. *)
THEOREM ShutdownIsQuiet == Spec => []QuietAfterShutdown
<1>1. IInv => QuietAfterShutdown
  BY DEF IInv
<1> QED BY <1>1, Invariance, PTL
-----------------------------------------------------------------------------
(* A record in a finished state never changes again: a step changes only the
   record of a live task, whose state is active, or one not yet started. *)
LEMMA FinishedStep ==
  ASSUME IInv, [Next]_vars, NEW j \in JobId, job[j].state \in Finished
  PROVE  job'[j] = job[j]
<1>1. ~TaskRuns(j)
  BY DEF IInv, LiveTaskIsActive, Active, Finished
<1>2. job \in [JobId -> Job] /\ current \in 0 .. MaxJobs
  BY DEF IInv, TypeOK, Types
<1>3. ASSUME NEW delayed \in BOOLEAN, NEW cyclic \in BOOLEAN, Start(delayed, cyclic)
      PROVE  job'[j] = job[j]
  <2>1. ~(j > current)
    BY DEF IInv, Unstarted, NoJob, Finished
  <2>2. j # current + 1
    BY <1>2, <2>1, BoundsAssumption DEF JobId
  <2> QED BY <1>2, <1>3, <2>2 DEF Start
<1>4. ASSUME NEW i \in JobId, TaskStep(i) PROVE job'[j] = job[j]
  <2>1. TaskRuns(i)
    BY <1>4 DEF TaskStep, FirstStep, Resume, TaskRuns
  <2>2. \E r : job' = [job EXCEPT ![i] = r] \/ job' = job
    BY <1>4 DEF TaskStep, FirstStep, Resume, SendOnce, AfterAttempt, Finish
  <2> QED BY <1>1, <1>2, <2>1, <2>2
<1>5. ASSUME NEW i \in JobId, SleepElapses(i) PROVE job'[j] = job[j]
  BY <1>5 DEF SleepElapses
<1>6. CASE Cancel \/ Shutdown \/ BusStopped \/ BusChange \/ UNCHANGED vars
  BY <1>6 DEF Cancel, Shutdown, BusStopped, BusChange, vars
<1> QED BY <1>3, <1>4, <1>5, <1>6 DEF Next

(* The record of a finished job is never written again. *)
THEOREM HistoryIsFinal == Spec => FinishedIsFinal
<1>1. IInv /\ [Next]_vars =>
        [\A j \in JobId : job[j].state \in Finished => job'[j] = job[j]]_vars
  BY FinishedStep
<1> QED BY <1>1, Invariance, PTL DEF Spec, FinishedIsFinal

(* Only a task that was not cancelled puts a telegram into the send queue. *)
LEMMA CancelledStep ==
  ASSUME IInv, [Next]_vars, NEW j \in JobId, task[j].cancelled
  PROVE  queued'[j] = queued[j]
<1>1. queued \in [JobId -> Nat]
  BY DEF IInv, TypeOK, Types
<1>2. ASSUME NEW i \in JobId, TaskStep(i) PROVE queued'[j] = queued[j]
  <2>1. UNCHANGED queued \/ (~task[i].cancelled /\ SendOnce(i))
    BY <1>2 DEF TaskStep, FirstStep, Resume
  <2>2. CASE ~task[i].cancelled /\ SendOnce(i)
    <3>1. i # j
      BY <2>2
    <3>2. UNCHANGED queued \/ queued' = [queued EXCEPT ![i] = @ + 1]
      BY <2>2 DEF SendOnce
    <3> QED BY <1>1, <3>1, <3>2
  <2> QED BY <2>1, <2>2
<1>3. ASSUME NEW i \in JobId, SleepElapses(i) PROVE queued'[j] = queued[j]
  BY <1>3 DEF SleepElapses
<1>4. ASSUME NEW delayed \in BOOLEAN, NEW cyclic \in BOOLEAN, Start(delayed, cyclic)
      PROVE  queued'[j] = queued[j]
  BY <1>4 DEF Start
<1>5. CASE Cancel \/ Shutdown \/ BusStopped \/ BusChange \/ UNCHANGED vars
  BY <1>5 DEF Cancel, Shutdown, BusStopped, BusChange, vars
<1> QED BY <1>2, <1>3, <1>4, <1>5 DEF Next

(* After a cancel was accepted the job puts nothing more on the bus. *)
THEOREM CancelStopsSends == Spec => NoSendAfterCancel
<1>1. IInv /\ [Next]_vars =>
        [\A j \in JobId : task[j].cancelled => queued'[j] = queued[j]]_vars
  BY CancelledStep
<1> QED BY <1>1, Invariance, PTL DEF Spec, NoSendAfterCancel

(* At every moment the jobs are sound: types, one task, every telegram
   counted, silence after the shutdown. *)
THEOREM SoundJobs == Spec => []JobsAreSound
<1>1. IInv => JobsAreSound
  BY DEF IInv, LiveTaskIsActive, OneTaskAtATime, JobsAreSound
<1> QED BY <1>1, Invariance, PTL

(* What ended stays ended: a cancelled job sends no more, and the record of a
   finished one never changes. *)
THEOREM EndedStaysOver == Spec => EndedIsOver
BY HistoryIsFinal, CancelStopsSends DEF EndedIsOver
-----------------------------------------------------------------------------
(* The write panel over the jobs (WritePanel).  What it needs to know of the
   server: only the current job is active, and an active job whose task does
   not run any more was cancelled. *)
OnlyCurrentIsActive == \A j \in JobId : job[j].state \in Active => j = current
ActiveIsRun == \A j \in JobId : job[j].state \in Active => TaskRuns(j) \/ task[j].cancelled
ServerInv == IInv /\ OnlyCurrentIsActive /\ ActiveIsRun

(* A job started so far does not become active again, and what was cancelled
   stays so. *)
EndIsKept(j) ==
  /\ job[j].state \notin Active => job'[j].state \notin Active
  /\ task[j].cancelled => task'[j].cancelled

(* A task that runs on leaves its cancellation as it is and, if the job stays
   active, runs or was cancelled. *)
LEMMA TaskStepEffect ==
  ASSUME IInv, NEW j \in JobId, TaskStep(j) \/ SleepElapses(j)
  PROVE  /\ TaskRuns(j) /\ UNCHANGED <<current, writable, phase>>
         /\ \E r, t : /\ RecordsBecome(j, r, t) /\ t.cancelled = task[j].cancelled
                      /\ r.state \in Active => \/ t.pc \in {"scheduled", "delay", "interval"}
                                               \/ t.cancelled
<1>1. /\ TypeOK /\ job[j] \in Job /\ task[j] \in Task
      /\ job \in [JobId -> Job] /\ task \in [JobId -> Task]
  BY DEF IInv, TypeOK, Types
<1>2. job = [job EXCEPT ![j] = job[j]]
  BY <1>1
<1>3. TaskRuns(j) /\ UNCHANGED <<current, writable, phase>>
  BY DEF TaskStep, FirstStep, Resume, SleepElapses, TaskRuns
<1>4. CASE SendOnce(j)
  BY <1>1, <1>3, <1>4, SendOnceEffect DEF Finished, Active
<1>5. CASE FirstStep(j) /\ ~SendOnce(j)
  <2>1. CASE task[j].cancelled
    <3> DEFINE t == [task[j] EXCEPT !.pc = "over"]
    <3>1. task' = [task EXCEPT ![j] = t] /\ t.cancelled /\ UNCHANGED job
      BY <1>1, <1>5, <2>1 DEF FirstStep, Task
    <3> HIDE DEF t
    <3> QED BY <1>2, <1>3, <2>1, <3>1 DEF RecordsBecome
  <2>2. CASE ~task[j].cancelled
    <3> DEFINE t == [task[j] EXCEPT !.pc = "delay"]
               r == [job[j] EXCEPT !.nextSend = TRUE]
    <3>1. /\ task' = [task EXCEPT ![j] = t] /\ t.cancelled = task[j].cancelled /\ t.pc = "delay"
          /\ job' = [job EXCEPT ![j] = r]
      BY <1>1, <1>5, <2>2 DEF FirstStep, Task, Job
    <3> HIDE DEF t, r
    <3> QED BY <1>3, <3>1 DEF RecordsBecome
  <2> QED BY <2>1, <2>2
<1>6. CASE Resume(j) /\ ~SendOnce(j)
  <2>1. Finish(j, job[j], "cancelled")
    BY <1>6 DEF Resume
  <2>2. \E r \in Job, t \in Task :
          RecordsBecome(j, r, t) /\ r.state = "cancelled" /\ t.cancelled = task[j].cancelled
    BY <1>1, <2>1, FinishEffect DEF Finished
  <2> QED BY <1>3, <2>2 DEF Active
<1>7. CASE SleepElapses(j)
  <2> DEFINE t == [task[j] EXCEPT !.elapsed = TRUE]
  <2>1. /\ task' = [task EXCEPT ![j] = t] /\ t.cancelled = task[j].cancelled /\ t.pc = task[j].pc
        /\ UNCHANGED job /\ task[j].pc \in {"delay", "interval"}
    BY <1>1, <1>7 DEF SleepElapses, Task
  <2> HIDE DEF t
  <2> QED BY <1>2, <1>3, <2>1 DEF RecordsBecome
<1> QED BY <1>4, <1>5, <1>6, <1>7 DEF TaskStep

(* Whatever the server does for the panel, it keeps its invariant, and the
   jobs started so far stay over once they are. *)
LEMMA ServerKeeps ==
  ASSUME ServerInv, [Next]_vars, phase' = phase
  PROVE  /\ ServerInv'
         /\ current <= current' /\ current \in 0 .. MaxJobs /\ current' \in 0 .. MaxJobs
         /\ \A j \in 1 .. current : EndIsKept(j)
<1> USE DEF ServerInv
<1>1. IInv'
  BY NextIInv
<1>2. /\ current \in 0 .. MaxJobs /\ current' \in 0 .. MaxJobs
      /\ job \in [JobId -> Job] /\ task \in [JobId -> Task]
      /\ \A j \in 1 .. current : j \in JobId
  BY <1>1, BoundsAssumption DEF IInv, TypeOK, Types, JobId
<1>3. ASSUME NEW delayed \in BOOLEAN, NEW cyclic \in BOOLEAN, Start(delayed, cyclic)
      PROVE  /\ OnlyCurrentIsActive' /\ ActiveIsRun' /\ current <= current'
             /\ \A j \in 1 .. current : EndIsKept(j)
  <2> DEFINE n == current + 1
             r == [NoJob EXCEPT !.state = "waiting", !.delayed = delayed, !.cyclic = cyclic]
             t == [NoTask EXCEPT !.pc = "scheduled"]
  <2>1. n \in JobId /\ n \in Nat /\ n > current /\ n \notin 1 .. current
    BY <1>2, <1>3, BoundsAssumption DEF Start, JobId
  <2>2. current' = n /\ job' = [job EXCEPT ![n] = r] /\ task' = [task EXCEPT ![n] = t]
    BY <1>3 DEF Start
  <2>3. t.pc = "scheduled"
    BY DEF NoTask
  <2> HIDE DEF n, r, t
  <2>4. /\ task'[n] = t
        /\ \A j \in JobId \ {n} : job'[j] = job[j] /\ task'[j] = task[j]
    BY <1>2, <2>1, <2>2
  <2>5. \A j \in JobId : job[j].state \notin Active
    <3>1. current = 0 => current \notin JobId
      BY DEF JobId
    <3> QED BY <1>3, <3>1 DEF Start, MayStart, ActiveJob, OnlyCurrentIsActive
  <2>6. OnlyCurrentIsActive' /\ ActiveIsRun'
    BY <2>2, <2>3, <2>4, <2>5 DEF OnlyCurrentIsActive, ActiveIsRun, TaskRuns
  <2>7. \A j \in 1 .. current : EndIsKept(j)
    BY <1>2, <2>1, <2>4 DEF EndIsKept
  <2>8. current <= current'
    BY <1>2, <2>1, <2>2
  <2> QED BY <2>6, <2>7, <2>8
<1>4. ASSUME NEW j \in JobId, TaskStep(j) \/ SleepElapses(j)
      PROVE  /\ OnlyCurrentIsActive' /\ ActiveIsRun' /\ current <= current'
             /\ \A i \in 1 .. current : EndIsKept(i)
  <2>1. PICK r, t : /\ RecordsBecome(j, r, t) /\ t.cancelled = task[j].cancelled
                    /\ r.state \in Active => \/ t.pc \in {"scheduled", "delay", "interval"}
                                             \/ t.cancelled
    BY <1>4, TaskStepEffect
  <2>2. TaskRuns(j) /\ current' = current
    BY <1>4, TaskStepEffect
  <2>3. j = current /\ job[j].state \in Active
    BY <2>2 DEF IInv, LiveTaskIsActive
  <2>4. /\ job'[j] = r /\ task'[j] = t
        /\ \A i \in JobId \ {j} : job'[i] = job[i] /\ task'[i] = task[i]
    BY <1>2, <2>1 DEF RecordsBecome
  <2>5. OnlyCurrentIsActive' /\ ActiveIsRun'
    BY <2>1, <2>2, <2>3, <2>4 DEF OnlyCurrentIsActive, ActiveIsRun, TaskRuns
  <2>6. \A i \in 1 .. current : EndIsKept(i)
    BY <1>2, <2>1, <2>3, <2>4 DEF EndIsKept
  <2>7. current <= current'
    BY <1>2, <2>2
  <2> QED BY <2>5, <2>6, <2>7
<1>5. ASSUME Cancel
      PROVE  /\ OnlyCurrentIsActive' /\ ActiveIsRun' /\ current <= current'
             /\ \A i \in 1 .. current : EndIsKept(i)
  <2>1. current \in JobId /\ current' = current /\ job' = job
    BY <1>2, <1>5, BoundsAssumption DEF Cancel, ActiveJob, JobId
  <2> DEFINE t == [task[current] EXCEPT !.cancelled = @ \/ TaskRuns(current)]
  <2>2. /\ task' = [task EXCEPT ![current] = t] /\ t.pc = task[current].pc
        /\ task[current].cancelled => t.cancelled
    <3>1. task[current] \in Task
      BY <1>2, <2>1
    <3> QED BY <1>2, <1>5, <2>1, <3>1 DEF Cancel, CancelTask, Task
  <2> HIDE DEF t
  <2>3. /\ task'[current] = t
        /\ \A i \in JobId \ {current} : task'[i] = task[i]
    BY <1>2, <2>1, <2>2
  <2>4. OnlyCurrentIsActive' /\ ActiveIsRun'
    BY <2>1, <2>2, <2>3 DEF OnlyCurrentIsActive, ActiveIsRun, TaskRuns
  <2>5. \A i \in 1 .. current : EndIsKept(i)
    BY <1>2, <2>1, <2>2, <2>3 DEF EndIsKept
  <2>6. current <= current'
    BY <1>2, <2>1
  <2> QED BY <2>4, <2>5, <2>6
<1>6. ASSUME BusStopped \/ BusChange \/ Shutdown \/ UNCHANGED vars
      PROVE  /\ OnlyCurrentIsActive' /\ ActiveIsRun' /\ current <= current'
             /\ \A i \in 1 .. current : EndIsKept(i)
  <2>1. phase' # phase \/ UNCHANGED <<current, job, task>>
    BY <1>6 DEF BusStopped, BusChange, Shutdown, vars
  <2>2. current <= current'
    BY <1>2, <2>1
  <2> QED BY <2>1, <2>2 DEF OnlyCurrentIsActive, ActiveIsRun, TaskRuns, EndIsKept
<1> QED BY <1>1, <1>2, <1>3, <1>4, <1>5, <1>6 DEF Next
-----------------------------------------------------------------------------
(* The panel's invariant.  A baseline is a value that was shown once. *)
Baselines == {<<>>} \cup (Addresses \X Nat)

Request ==
  [kind : {"status", "start", "cancel", "read"}, stage : {"up", "down"},
   row : RowIds \cup {None}, at : Addresses \cup {None}, base : Baselines \cup {None},
   delayed : BOOLEAN, cyclic : BOOLEAN, n : 0 .. MaxJobs, ok : BOOLEAN, dead : BOOLEAN]

PanelTypes ==
  /\ open \in BOOLEAN /\ polling \in BOOLEAN /\ shown \in 0 .. current
  /\ rows \in [RowIds -> Addresses \cup {None}]
  /\ base \in [RowIds -> Baselines \cup {None}]
  /\ of \in [JobId -> Addresses \cup {None}]
  /\ value \in [Addresses -> Nat]
  /\ replied \in [RowIds -> BOOLEAN]

(* There is room for the requests, and without overtaking they take turns. *)
Room ==
  /\ IsFiniteSet(net) /\ Cardinality(net) <= MaxNet
  /\ ~ Has("overtakes") => \A r, q \in net : r = q

(* A baseline is not from the future. *)
IsOld(b) ==
  \/ b \in {None, <<>>}
  \/ b \in Addresses \X Nat /\ 1 <= b[2] /\ b[2] <= value[b[1]]

(* A row with that baseline is said to wait only if nothing came. *)
WaitsTruly(row, b) == b # None /\ rows[row] # None /\ b = Seen(rows[row]) => ~ replied[row]

(* The job in the banner is not one that the row's removal would leave. *)
MayGo(row) ==
  \/ shown = 0 \/ rows[row] = None \/ of[shown] # rows[row]
  \/ job[shown].state \notin Active \/ task[shown].cancelled

(* A request says what the panel and the server will need to know when it
   arrives; those of a panel that was closed are dead. *)
Sound(r) ==
  /\ r \in Request
  /\ r.kind \in {"start", "read"} => r.row \in RowIds /\ r.at \in Addresses
  /\ r.n <= current
  /\ IsOld(r.base)
  /\ ~ open => r.dead
  /\ r.kind = "read" => WaitsTruly(r.row, r.base)
  /\ Undisturbed /\ ~ r.dead /\ r.row \in RowIds
       /\ (r.kind = "status" \/ (r.kind = "cancel" /\ r.stage = "down")) => MayGo(r.row)

StartedHaveAddress == \A j \in 1 .. current : of[j] # None
RowIsLeft == \E row \in RowIds : rows[row] # None
RowsAreSound == \A row \in RowIds : IsOld(base[row]) /\ WaitsTruly(row, base[row])

PanelInv ==
  /\ ServerInv /\ PanelTypes /\ Room
  /\ \A r \in net : Sound(r)
  /\ StartedHaveAddress /\ RowIsLeft /\ ShownIsPolled /\ RowsAreSound

(* What the panel shows follows: the job in the banner has an address, and a
   row that is said to wait for an answer has had none since it asked. *)
LEMMA PanelInvImplies == PanelInv => PanelIsTrue
<1> SUFFICES ASSUME PanelInv PROVE PanelIsTrue
  OBVIOUS
<1>1. AwaitingIsTrue
  BY DEF PanelInv, RowsAreSound, WaitsTruly, AwaitingIsTrue
<1>2. shown # 0 => of[shown] # None
  <2>1. current \in Nat /\ shown \in 0 .. current
    BY BoundsAssumption DEF PanelInv, PanelTypes, ServerInv, IInv, TypeOK, Types
  <2> QED BY <2>1 DEF PanelInv, StartedHaveAddress
<1>3. rows \in [RowIds -> Addresses \cup {None}] /\ shown \in 0 .. current /\ polling \in BOOLEAN
  BY DEF PanelInv, PanelTypes
<1> QED BY <1>1, <1>2, <1>3 DEF PanelInv, Room, RowIsLeft, PanelIsTrue, PanelTypeOK
-----------------------------------------------------------------------------
(* What happens to the set of requests: one is added, answered, taken away,
   or all die. *)
LEMMA RoomForOne ==
  ASSUME Room, NEW r, net = {} \/ MaySend, net' = net \cup {r}, panelHabits' = panelHabits
  PROVE  Room'
<1>1. CASE net = {}
  <2>1. net' = {r}
    BY <1>1
  <2> HIDE <1>1
  <2> QED BY <2>1, FS_Singleton, PanelAssumption DEF Room
<1>2. CASE net # {}
  <2>1. Has("overtakes") /\ Cardinality(net) < MaxNet
    BY <1>2 DEF MaySend
  <2>2. /\ IsFiniteSet(net')
        /\ Cardinality(net') = IF r \in net THEN Cardinality(net) ELSE Cardinality(net) + 1
    BY FS_AddElement DEF Room
  <2>3. Cardinality(net) \in Nat
    BY FS_CardinalityType DEF Room
  <2> QED BY <2>1, <2>2, <2>3, PanelAssumption DEF Room, Has
<1> QED BY <1>1, <1>2

LEMMA RoomWithoutOne ==
  ASSUME Room, NEW r \in net, net' = net \ {r}, panelHabits' = panelHabits
  PROVE  Room'
<1>1. /\ IsFiniteSet(net') /\ Cardinality(net') = Cardinality(net) - 1
  BY FS_RemoveElement DEF Room
<1>2. Cardinality(net) \in Nat
  BY FS_CardinalityType DEF Room
<1> QED BY <1>1, <1>2, PanelAssumption DEF Room, Has

LEMMA RoomForAnswer ==
  ASSUME Room, NEW r \in net, NEW q, net' = (net \ {r}) \cup {q}, panelHabits' = panelHabits
  PROVE  Room'
<1>1. /\ IsFiniteSet(net \ {r}) /\ Cardinality(net \ {r}) = Cardinality(net) - 1
  BY FS_RemoveElement DEF Room
<1>2. Cardinality(net) \in Nat
  BY FS_CardinalityType DEF Room
<1>3. /\ IsFiniteSet(net')
      /\ Cardinality(net') = IF q \in net \ {r} THEN Cardinality(net \ {r})
                             ELSE Cardinality(net \ {r}) + 1
  BY <1>1, FS_AddElement
<1>4. Cardinality(net') <= Cardinality(net) /\ Cardinality(net') \in Nat
  BY <1>1, <1>2, <1>3, FS_CardinalityType
<1>5. Cardinality(net') <= MaxNet
  BY <1>2, <1>4, PanelAssumption DEF Room
<1>6. ~ Has("overtakes")' => \A x, y \in net' : x = y
  BY DEF Room, Has
<1> QED BY <1>3, <1>5, <1>6 DEF Room

LEMMA RoomForDead ==
  ASSUME Room, net' = {[r EXCEPT !.dead = TRUE] : r \in net}, panelHabits' = panelHabits
  PROVE  Room'
<1> DEFINE f == [r \in net |-> [r EXCEPT !.dead = TRUE]]
<1>1. f \in Surjection(net, net')
  BY DEF Surjection
<1>2. IsFiniteSet(net') /\ Cardinality(net') <= Cardinality(net)
  <2> HIDE DEF f
  <2> QED BY <1>1, FS_Surjection DEF Room
<1>3. Cardinality(net) \in Nat /\ Cardinality(net') \in Nat
  BY <1>2, FS_CardinalityType DEF Room
<1>4. Cardinality(net') <= MaxNet
  BY <1>2, <1>3, PanelAssumption DEF Room
<1>5. ~ Has("overtakes")' => \A x, y \in net' : x = y
  BY DEF Room, Has
<1> QED BY <1>2, <1>4, <1>5 DEF Room

(* A request stays sound while the panel stays open or it dies with it, jobs
   that are over stay over, and rows that truly wait still do. *)
LEMMA SoundStays ==
  ASSUME NEW r, Sound(r), panelHabits' = panelHabits, open => open',
         current \in Nat, current' \in Nat, current <= current', MaxJobs \in Nat,
         \A b : IsOld(b) => IsOld(b)',
         r.kind = "read" => WaitsTruly(r.row, r.base)',
         Undisturbed /\ r.row \in RowIds /\ MayGo(r.row) => MayGo(r.row)'
  PROVE  Sound(r)'
<1>1. Undisturbed' <=> Undisturbed
  BY DEF Undisturbed, Has
<1>2. r.n \in Nat /\ r.n <= current'
  BY DEF Sound, Request
<1> QED BY <1>1, <1>2 DEF Sound
-----------------------------------------------------------------------------
(* The server's steps.  The panel's own state stays; a job that starts has an
   address. *)
ServerActs ==
  /\ [Next]_vars /\ phase' = phase
  /\ UNCHANGED <<panelHabits, open, rows, base, shown, polling, value, replied>>
  /\ of' \in [JobId -> Addresses \cup {None}]
  /\ \A j \in 1 .. current : of'[j] = of[j]
  /\ \A j \in 1 .. current' : j > current => of'[j] # None

LEMMA SoundAfterServer ==
  ASSUME PanelInv, ServerActs, NEW r, Sound(r)
  PROVE  Sound(r)'
<1>1. /\ current \in 0 .. MaxJobs /\ current' \in 0 .. MaxJobs /\ current <= current'
      /\ \A j \in 1 .. current : EndIsKept(j)
  BY ServerKeeps DEF PanelInv, ServerActs
<1>2. MayGo(r.row) => MayGo(r.row)'
  <2>1. shown \in 0 .. current
    BY DEF PanelInv, PanelTypes
  <2>2. CASE shown = 0
    BY <2>2 DEF ServerActs, MayGo
  <2>3. CASE shown # 0
    <3>1. shown \in 1 .. current
      BY <1>1, <2>1, <2>3
    <3>2. EndIsKept(shown) /\ of'[shown] = of[shown] /\ UNCHANGED <<shown, rows>>
      BY <1>1, <3>1 DEF ServerActs
    <3> QED BY <3>2 DEF MayGo, EndIsKept
  <2> QED BY <2>2, <2>3
<1>3. /\ panelHabits' = panelHabits /\ (open => open') /\ \A b : IsOld(b) => IsOld(b)'
      /\ r.kind = "read" => WaitsTruly(r.row, r.base)'
  BY DEF ServerActs, IsOld, WaitsTruly, Sound, Seen
<1>4. MaxJobs \in Nat /\ current \in Nat /\ current' \in Nat
  BY <1>1, BoundsAssumption
<1> QED BY <1>1, <1>2, <1>3, <1>4, SoundStays

LEMMA ServerActsKeep ==
  ASSUME PanelInv, ServerActs, Room', \A r \in net' : r \in net \/ Sound(r)'
  PROVE  PanelInv'
<1>1. /\ ServerInv'
      /\ current \in 0 .. MaxJobs /\ current' \in 0 .. MaxJobs /\ current <= current'
  BY ServerKeeps DEF PanelInv, ServerActs
<1>2. \A r \in net' : Sound(r)'
  <2>1. \A r \in net : Sound(r)'
    BY SoundAfterServer DEF PanelInv
  <2> QED BY <2>1
<1>3. PanelTypes'
  <2>1. shown \in 0 .. current'
    BY <1>1 DEF PanelInv, PanelTypes
  <2> QED BY <2>1 DEF PanelInv, PanelTypes, ServerActs
<1>4. StartedHaveAddress'
  <2> SUFFICES ASSUME NEW j \in 1 .. current' PROVE of'[j] # None
    BY DEF StartedHaveAddress
  <2>1. CASE j > current
    BY <2>1 DEF ServerActs
  <2>2. CASE ~(j > current)
    <3>1. j \in 1 .. current
      BY <1>1, <2>2
    <3> QED BY <3>1 DEF ServerActs, PanelInv, StartedHaveAddress
  <2> QED BY <2>1, <2>2
<1>5. RowIsLeft' /\ ShownIsPolled' /\ RowsAreSound'
  BY DEF PanelInv, ServerActs, RowIsLeft, ShownIsPolled, RowsAreSound, IsOld, WaitsTruly, Seen
<1> QED BY <1>1, <1>2, <1>3, <1>4, <1>5 DEF PanelInv

(* The server answers: the request with another stage, and what it tells of
   the jobs. *)
LEMMA AnswerKeeps ==
  ASSUME PanelInv, ServerActs, NEW r \in net, NEW q \in Request,
         net' = (net \ {r}) \cup {q},
         q.kind = r.kind, q.row = r.row, q.at = r.at, q.base = r.base, q.dead = r.dead,
         q.n <= current', q.kind = "cancel" => MayGo(q.row)'
  PROVE  PanelInv'
<1>1. Sound(r)'
  BY SoundAfterServer DEF PanelInv
<1>2. Sound(q)'
  BY <1>1 DEF Sound
<1>3. Room'
  BY RoomForAnswer DEF PanelInv, ServerActs
<1> QED BY <1>2, <1>3, ServerActsKeep

(* The tasks of the jobs run on, ... *)
LEMMA ServerStepKeeps ==
  ASSUME PanelInv, NEW j \in JobId, ServerStep(j)
  PROVE  PanelInv'
<1>1. Next /\ UNCHANGED <<panelVars, current, phase>>
  <2>1. UNCHANGED <<current, phase>>
    BY DEF ServerStep, TaskStep, FirstStep, Resume, SleepElapses
  <2> QED BY <2>1 DEF ServerStep, Next
<1>2. /\ ServerActs /\ net' = net /\ panelHabits' = panelHabits
  <2>1. current \in Nat
    BY BoundsAssumption DEF PanelInv, ServerInv, IInv, TypeOK, Types
  <2>2. \A i \in 1 .. current : ~(i > current)
    BY <2>1
  <2> QED BY <1>1, <2>2 DEF ServerActs, PanelInv, PanelTypes, panelVars
<1>3. Room'
  BY <1>2 DEF PanelInv, Room, Has
<1> QED BY <1>2, <1>3, ServerActsKeep

(* ... the state is told, ... *)
LEMMA HandleStatusKeeps ==
  ASSUME PanelInv, NEW r \in net, Handle(r), HandleStatus(r)
  PROVE  PanelInv'
<1> DEFINE q == [r EXCEPT !.stage = "down", !.n = Told]
<1>1. r \in Request /\ current \in 0 .. MaxJobs /\ MaxJobs \in Nat
  BY BoundsAssumption DEF PanelInv, Sound, ServerInv, IInv, TypeOK, Types
<1>2. ServerActs /\ current' = current
  <2>1. \A i \in 1 .. current : ~(i > current)
    BY <1>1
  <2> QED BY <2>1 DEF Server, Handle, HandleStatus, ServerActs, PanelInv, PanelTypes, vars
<1>3. Told \in 0 .. MaxJobs /\ Told <= current
  BY <1>1 DEF Told
<1>4. /\ q \in Request /\ q.kind = r.kind /\ q.row = r.row /\ q.at = r.at /\ q.base = r.base
      /\ q.dead = r.dead /\ q.n = Told /\ r.kind = "status"
  BY <1>1, <1>3 DEF Request, HandleStatus
<1>5. net' = (net \ {r}) \cup {q}
  BY DEF HandleStatus, Down
<1> HIDE DEF q
<1> QED BY <1>2, <1>3, <1>4, <1>5, AnswerKeeps

(* ... a read is passed on to the bus, ... *)
LEMMA HandleReadKeeps ==
  ASSUME PanelInv, NEW r \in net, Handle(r), HandleRead(r)
  PROVE  PanelInv'
<1> DEFINE q == [r EXCEPT !.stage = "down"]
<1>1. r \in Request /\ r.n <= current /\ current \in 0 .. MaxJobs /\ MaxJobs \in Nat
  BY BoundsAssumption DEF PanelInv, Sound, ServerInv, IInv, TypeOK, Types
<1>2. ServerActs /\ current' = current
  <2>1. \A i \in 1 .. current : ~(i > current)
    BY <1>1
  <2> QED BY <2>1 DEF Server, Handle, HandleRead, ServerActs, PanelInv, PanelTypes, vars
<1>3. /\ q \in Request /\ q.kind = r.kind /\ q.row = r.row /\ q.at = r.at /\ q.base = r.base
      /\ q.dead = r.dead /\ q.n = r.n /\ r.kind = "read"
  BY <1>1 DEF Request, HandleRead
<1>4. net' = (net \ {r}) \cup {q}
  BY DEF HandleRead, Down
<1> HIDE DEF q
<1> QED BY <1>1, <1>2, <1>3, <1>4, AnswerKeeps

(* ... a job is started, or not, ... *)
LEMMA HandleStartKeeps ==
  ASSUME PanelInv, NEW r \in net, Handle(r), HandleStart(r)
  PROVE  PanelInv'
<1>1. /\ r \in Request /\ r.n <= current /\ r.at \in Addresses /\ r.kind = "start"
      /\ current \in 0 .. MaxJobs /\ MaxJobs \in Nat
      /\ of \in [JobId -> Addresses \cup {None}]
  BY BoundsAssumption DEF PanelInv, PanelTypes, Sound, ServerInv, IInv, TypeOK, Types, HandleStart
<1>2. CASE phase = "serving" /\ writable /\ MayStart
  <2> DEFINE n == current + 1
             q == [r EXCEPT !.stage = "down", !.n = n]
  <2>1. /\ Start(r.delayed, r.cyclic) /\ current' = n /\ phase' = phase
        /\ n \in JobId /\ n \in 0 .. MaxJobs /\ n <= current'
    BY <1>1, <1>2 DEF HandleStart, Start, JobId
  <2>2. of' = [of EXCEPT ![n] = r.at] /\ net' = (net \ {r}) \cup {q}
    BY <1>2, <2>1 DEF HandleStart, Down
  <2>3. r.delayed \in BOOLEAN /\ r.cyclic \in BOOLEAN
    BY <1>1 DEF Request
  <2>4. Next
    BY <2>1, <2>3 DEF Next
  <2>5. /\ q \in Request /\ q.kind = r.kind /\ q.row = r.row /\ q.at = r.at /\ q.base = r.base
        /\ q.dead = r.dead /\ q.n = n
    BY <1>1, <2>1 DEF Request
  <2>6. /\ \A j \in 1 .. current : j # n
        /\ \A j \in 1 .. n : j > current => j = n
    BY <1>1
  <2> HIDE DEF n, q
  <2>7. /\ of' \in [JobId -> Addresses \cup {None}] /\ of'[n] = r.at /\ r.at # None
        /\ \A j \in 1 .. current : of'[j] = of[j]
    <3>1. \A j \in 1 .. current : j \in JobId
      BY <1>1 DEF JobId
    <3> QED BY <1>1, <2>1, <2>2, <2>6, <3>1, PanelAssumption
  <2>8. ServerActs
    BY <2>1, <2>4, <2>6, <2>7 DEF Handle, ServerActs
  <2> QED BY <1>1, <2>1, <2>2, <2>5, <2>8, AnswerKeeps
<1>3. CASE ~(phase = "serving" /\ writable /\ MayStart)
  <2> DEFINE q == [r EXCEPT !.stage = "down", !.ok = FALSE]
  <2>1. ServerActs /\ current' = current
    <3>1. \A i \in 1 .. current : ~(i > current)
      BY <1>1
    <3> QED BY <1>3, <3>1 DEF Server, Handle, HandleStart, ServerActs, PanelInv, PanelTypes, vars
  <2>2. /\ q \in Request /\ q.kind = r.kind /\ q.row = r.row /\ q.at = r.at /\ q.base = r.base
        /\ q.dead = r.dead /\ q.n = r.n
    BY <1>1 DEF Request
  <2>3. net' = (net \ {r}) \cup {q}
    BY <1>3 DEF HandleStart, Down
  <2> HIDE DEF q
  <2> QED BY <1>1, <2>1, <2>2, <2>3, AnswerKeeps
<1> QED BY <1>2, <1>3

(* ... or the current job is cancelled.  After that the job in the banner is
   over or cancelled, since only the current one can be active. *)
LEMMA HandleCancelKeeps ==
  ASSUME PanelInv, NEW r \in net, Handle(r), HandleCancel(r)
  PROVE  PanelInv'
<1> DEFINE q == [r EXCEPT !.stage = "down", !.ok = ActiveJob, !.n = current]
<1>1. /\ r \in Request /\ r.kind = "cancel" /\ current \in 0 .. MaxJobs /\ MaxJobs \in Nat
      /\ shown \in 0 .. current /\ task \in [JobId -> Task]
  BY BoundsAssumption DEF PanelInv, PanelTypes, Sound, ServerInv, IInv, TypeOK, Types, HandleCancel
<1>2. /\ UNCHANGED <<of, shown, rows, current, job, phase>> /\ [Next]_vars
  BY DEF Server, Handle, HandleCancel, Cancel, Next, vars
<1>3. ServerActs
  <2>1. \A i \in 1 .. current : ~(i > current)
    BY <1>1
  <2> QED BY <1>2, <2>1 DEF Handle, ServerActs, PanelInv, PanelTypes
<1>4. MayGo(r.row)'
  <2>1. CASE shown = 0 \/ job[shown].state \notin Active
    BY <1>2, <2>1 DEF MayGo
  <2>2. CASE shown # 0 /\ job[shown].state \in Active
    <3>1. shown \in JobId /\ shown = current /\ ActiveJob
      BY <1>1, <2>2 DEF PanelInv, ServerInv, OnlyCurrentIsActive, JobId, ActiveJob
    <3>2. task[shown] \in Task /\ (TaskRuns(shown) \/ task[shown].cancelled)
      BY <1>1, <2>2, <3>1 DEF PanelInv, ServerInv, ActiveIsRun
    <3>3. task' = [task EXCEPT ![shown].cancelled = @ \/ TaskRuns(shown)]
      BY <3>1 DEF HandleCancel, Cancel, CancelTask
    <3>4. task'[shown].cancelled
      BY <1>1, <3>1, <3>2, <3>3 DEF Task
    <3> QED BY <1>2, <3>4 DEF MayGo
  <2> QED BY <2>1, <2>2
<1>5. /\ q \in Request /\ q.kind = r.kind /\ q.row = r.row /\ q.at = r.at /\ q.base = r.base
      /\ q.dead = r.dead /\ q.n = current
  <2>1. ActiveJob \in BOOLEAN
    BY DEF ActiveJob
  <2> HIDE DEF ActiveJob
  <2> QED BY <1>1, <2>1 DEF Request
<1>6. net' = (net \ {r}) \cup {q}
  BY DEF HandleCancel, Down
<1> HIDE DEF q
<1> QED BY <1>1, <1>2, <1>3, <1>4, <1>5, <1>6, AnswerKeeps
-----------------------------------------------------------------------------
(* The panel's steps, which leave the server alone. *)
PanelActs == UNCHANGED <<vars, panelHabits, of>>

LEMMA PanelActsKeep ==
  ASSUME PanelInv, PanelActs, PanelTypes', Room', \A r \in net' : Sound(r)',
         RowIsLeft', ShownIsPolled', RowsAreSound'
  PROVE  PanelInv'
<1>1. ServerInv'
  BY ServerKeeps DEF PanelInv, PanelActs, vars
<1>2. StartedHaveAddress'
  BY DEF PanelInv, PanelActs, vars, StartedHaveAddress
<1> QED BY <1>1, <1>2 DEF PanelInv

LEMMA Numbers == PanelInv => current \in 0 .. MaxJobs /\ current \in Nat /\ MaxJobs \in Nat
BY BoundsAssumption DEF PanelInv, ServerInv, IInv, TypeOK, Types

(* Nothing but the requests and the poller changes: one is made. *)
LEMMA RequestKeeps ==
  ASSUME PanelInv, PanelActs, UNCHANGED <<open, rows, base, shown, polling, value, replied>>,
         NEW q, Sound(q), MaySend, net' = net \cup {q}
  PROVE  PanelInv'
<1>1. ASSUME NEW r, Sound(r) PROVE Sound(r)'
  BY <1>1 DEF PanelActs, vars, Sound, IsOld, WaitsTruly, Seen, MayGo, Undisturbed, Has
<1>2. Room'
  BY RoomForOne DEF PanelInv, PanelActs
<1>3. PanelTypes' /\ RowIsLeft' /\ ShownIsPolled' /\ RowsAreSound'
  BY DEF PanelInv, PanelActs, vars, PanelTypes, RowIsLeft, ShownIsPolled, RowsAreSound, IsOld,
         WaitsTruly, Seen
<1>4. \A r \in net' : Sound(r)'
  BY <1>1 DEF PanelInv
<1> QED BY <1>2, <1>3, <1>4, PanelActsKeep

(* The request that the others are made from. *)
LEMMA Blank ==
  ASSUME MaxJobs \in Nat
  PROVE  /\ NoRequest \in Request /\ NoRequest.kind = "status" /\ NoRequest.stage = "up"
         /\ NoRequest.row = None /\ NoRequest.n = 0 /\ NoRequest.base = None
         /\ NoRequest.dead = FALSE
BY DEF NoRequest, Request

(* A question for the state is sound, if the row it is to remove may go. *)
LEMMA StatusIsSound ==
  ASSUME NEW row \in RowIds \cup {None}, MaxJobs \in Nat, current \in Nat, open,
         Undisturbed /\ row \in RowIds => MayGo(row)
  PROVE  Sound([Status EXCEPT !.row = row])
<1> DEFINE q == [Status EXCEPT !.row = row]
<1>1. /\ q \in Request /\ q.kind = "status" /\ q.row = row /\ q.n = 0 /\ q.base = None
      /\ q.dead = FALSE
  BY Blank DEF Status, Request
<1> SUFFICES Sound(q)
  OBVIOUS
<1> HIDE DEF q
<1> QED BY <1>1 DEF Sound, IsOld

LEMMA PollKeeps ==
  ASSUME PanelInv, Poll
  PROVE  PanelInv'
<1>1. Status = [Status EXCEPT !.row = None]
  BY Blank, Numbers DEF Status, Request
<1>2. Sound(Status)
  BY <1>1, StatusIsSound, Numbers, PanelAssumption DEF Poll
<1> QED BY <1>2, RequestKeeps DEF Poll, Send, Server, PanelActs

LEMMA WriteKeeps ==
  ASSUME PanelInv, NEW row \in RowIds, NEW schedule \in Schedules, Write(row, schedule)
  PROVE  PanelInv'
<1> DEFINE q == [NoRequest EXCEPT !.kind = "start", !.row = row, !.at = rows[row],
                                  !.delayed = schedule[1], !.cyclic = schedule[2]]
<1>1. schedule[1] \in BOOLEAN /\ schedule[2] \in BOOLEAN
  BY PanelAssumption
<1>2. rows[row] \in Addresses
  BY DEF Write, PanelInv, PanelTypes
<1>3. /\ q \in Request /\ q.kind = "start" /\ q.row = row /\ q.at = rows[row] /\ q.n = 0
      /\ q.base = None /\ q.dead = FALSE
  BY <1>1, <1>2, Blank, Numbers DEF Request
<1>4. PanelActs /\ open /\ MaySend /\ net' = net \cup {q}
      /\ UNCHANGED <<open, rows, base, shown, polling, value, replied>>
  BY DEF Write, Send, Server, PanelActs
<1> HIDE DEF q
<1>5. Sound(q)
  BY <1>2, <1>3, <1>4, Numbers DEF Sound, IsOld
<1> QED BY <1>4, <1>5, RequestKeeps

(* A cancel, of the button or of a row that goes. *)
LEMMA CancelIsSound ==
  ASSUME NEW row \in RowIds \cup {None}, MaxJobs \in Nat, current \in Nat, open
  PROVE  Sound([NoRequest EXCEPT !.kind = "cancel", !.row = row])
<1> DEFINE q == [NoRequest EXCEPT !.kind = "cancel", !.row = row]
<1>1. /\ q \in Request /\ q.kind = "cancel" /\ q.stage = "up" /\ q.n = 0 /\ q.base = None
      /\ q.dead = FALSE
  BY Blank DEF Request
<1> SUFFICES Sound(q)
  OBVIOUS
<1> HIDE DEF q
<1> QED BY <1>1 DEF Sound, IsOld

LEMMA CancelClickKeeps ==
  ASSUME PanelInv, CancelClick
  PROVE  PanelInv'
<1> DEFINE q == [NoRequest EXCEPT !.kind = "cancel"]
<1>1. q = [NoRequest EXCEPT !.kind = "cancel", !.row = None]
  BY Blank, Numbers DEF Request
<1>2. Sound(q)
  BY <1>1, CancelIsSound, Numbers DEF CancelClick
<1> QED BY <1>2, RequestKeeps DEF CancelClick, Send, Server, PanelActs

(* Dropping a row leaves the others, and one at least. *)
LEMMA DropLeaves ==
  ASSUME PanelInv, NEW row \in RowIds, rows' = Drop(row)
  PROVE  /\ rows' \in [RowIds -> Addresses \cup {None}] /\ RowIsLeft'
         /\ \A x \in RowIds : rows'[x] = rows[x] \/ (x = row /\ rows'[x] = None)
<1>1. rows \in [RowIds -> Addresses \cup {None}] /\ \E x \in RowIds : rows[x] # None
  BY DEF PanelInv, PanelTypes, RowIsLeft
<1>2. CASE \E other \in RowIds \ {row} : rows[other] # None
  BY <1>1, <1>2 DEF Drop, RowIsLeft
<1>3. CASE ~ \E other \in RowIds \ {row} : rows[other] # None
  BY <1>1, <1>3 DEF Drop, RowIsLeft
<1> QED BY <1>2, <1>3

(* With fewer rows the requests stay sound, and so do the rows. *)
LEMMA FewerRows ==
  ASSUME PanelInv, PanelActs, UNCHANGED <<value, replied>>, open => open',
         \A x \in RowIds : rows'[x] \in {rows[x], None}
  PROVE  /\ \A r \in net : (Undisturbed => shown' = shown) => Sound(r)'
         /\ \A x \in RowIds : \A b : IsOld(b) /\ WaitsTruly(x, b) => IsOld(b)' /\ WaitsTruly(x, b)'
<1>1. \A b : IsOld(b) => IsOld(b)'
  BY DEF IsOld
<1>2. ASSUME NEW x \in RowIds, NEW b, WaitsTruly(x, b) PROVE WaitsTruly(x, b)'
  BY <1>2 DEF WaitsTruly, Seen
<1>3. ASSUME NEW r \in net, Undisturbed => shown' = shown PROVE Sound(r)'
  <2>1. Sound(r) /\ (r.kind = "read" => r.row \in RowIds)
    BY DEF PanelInv, Sound
  <2>2. r.kind = "read" => WaitsTruly(r.row, r.base)'
    BY <1>2, <2>1 DEF Sound
  <2>3. Undisturbed /\ r.row \in RowIds /\ MayGo(r.row) => MayGo(r.row)'
    BY <1>3 DEF MayGo, PanelActs, vars
  <2>4. panelHabits' = panelHabits /\ current' = current
    BY DEF PanelActs, vars
  <2>5. current <= current' /\ current' \in Nat /\ current \in Nat /\ MaxJobs \in Nat
    BY <2>4, Numbers
  <2> QED BY <1>1, <2>1, <2>2, <2>3, <2>4, <2>5, SoundStays
<1> QED BY <1>1, <1>2, <1>3

LEMMA RemoveRowKeeps ==
  ASSUME PanelInv, NEW row \in RowIds, RemoveRow(row)
  PROVE  PanelInv'
<1>1. CASE Owns(row)
  <2>1. Sound([NoRequest EXCEPT !.kind = "cancel", !.row = row])
    BY CancelIsSound, Numbers DEF RemoveRow
  <2> QED BY <1>1, <2>1, RequestKeeps DEF RemoveRow, Send, Server, PanelActs
<1>2. CASE ~ Owns(row)
  <2>1. /\ PanelActs /\ rows' = Drop(row)
        /\ UNCHANGED <<open, base, shown, polling, net, value, replied>>
    BY <1>2 DEF RemoveRow, Server, PanelActs
  <2>2. /\ rows' \in [RowIds -> Addresses \cup {None}] /\ RowIsLeft'
        /\ \A x \in RowIds : rows'[x] \in {rows[x], None}
    BY <2>1, DropLeaves
  <2>3. (\A r \in net' : Sound(r)') /\ RowsAreSound'
    BY <2>1, <2>2, FewerRows DEF PanelInv, RowsAreSound
  <2>4. PanelTypes' /\ Room' /\ ShownIsPolled'
    BY <2>1, <2>2 DEF PanelInv, PanelTypes, Room, Has, ShownIsPolled, PanelActs, vars
  <2> QED BY <2>1, <2>2, <2>3, <2>4, PanelActsKeep
<1> QED BY <1>1, <1>2

(* A row with another address says nothing of what it waits for. *)
LEMMA SetAddressKeeps ==
  ASSUME PanelInv, NEW row \in RowIds, NEW a \in Addresses, SetAddress(row, a)
  PROVE  PanelInv'
<1>1. /\ PanelActs /\ Has("edits") /\ UNCHANGED <<open, shown, polling, net, value>>
      /\ rows' = [rows EXCEPT ![row] = a] /\ base' = [base EXCEPT ![row] = None]
      /\ replied' = [replied EXCEPT ![row] = FALSE]
  BY DEF SetAddress, Server, PanelActs
<1>2. /\ PanelTypes /\ a # None /\ panelHabits' = panelHabits
  BY <1>1, PanelAssumption DEF PanelInv, PanelActs
<1>3. /\ rows'[row] = a /\ base'[row] = None /\ replied'[row] = FALSE
      /\ \A x \in RowIds \ {row} : /\ rows'[x] = rows[x] /\ base'[x] = base[x]
                                   /\ replied'[x] = replied[x]
  BY <1>1, <1>2 DEF PanelTypes
<1>4. PanelTypes'
  BY <1>1, <1>2 DEF PanelTypes, PanelActs, vars
<1>5. \A b : IsOld(b) => IsOld(b)'
  BY <1>1 DEF IsOld
<1>6. ASSUME NEW x \in RowIds, NEW b, WaitsTruly(x, b) PROVE WaitsTruly(x, b)'
  <2>1. CASE x = row
    BY <1>3, <2>1 DEF WaitsTruly
  <2>2. CASE x # row
    BY <1>1, <1>3, <1>6, <2>2 DEF WaitsTruly, Seen
  <2> QED BY <2>1, <2>2
<1>7. ASSUME NEW r \in net' PROVE Sound(r)'
  <2>1. Sound(r) /\ (r.kind = "read" => r.row \in RowIds)
    BY <1>1, <1>7 DEF PanelInv, Sound
  <2>2. r.kind = "read" => WaitsTruly(r.row, r.base)'
    BY <1>6, <2>1 DEF Sound
  <2>3. ~ Undisturbed
    BY <1>1 DEF Undisturbed
  <2>4. current' = current /\ current \in Nat /\ MaxJobs \in Nat /\ current <= current
    BY <1>1, Numbers DEF PanelActs, vars
  <2> QED BY <1>1, <1>2, <1>5, <2>1, <2>2, <2>3, <2>4, SoundStays
<1>8. RowsAreSound'
  <2> SUFFICES ASSUME NEW x \in RowIds PROVE IsOld(base[x])' /\ WaitsTruly(x, base[x])'
    BY DEF RowsAreSound
  <2>1. CASE x = row
    BY <1>3, <2>1 DEF IsOld, WaitsTruly
  <2>2. CASE x # row
    <3>1. IsOld(base[x]) /\ WaitsTruly(x, base[x]) /\ base'[x] = base[x]
      BY <1>3, <2>2 DEF PanelInv, RowsAreSound
    <3> QED BY <1>5, <1>6, <3>1
  <2> QED BY <2>1, <2>2
<1>9. RowIsLeft' /\ ShownIsPolled' /\ Room'
  BY <1>1, <1>2, <1>3 DEF PanelInv, RowIsLeft, ShownIsPolled, Room, Has
<1> QED BY <1>1, <1>4, <1>7, <1>8, <1>9, PanelActsKeep

(* Read starts the wait anew. *)
LEMMA ReadKeeps ==
  ASSUME PanelInv, NEW row \in RowIds, Read(row)
  PROVE  PanelInv'
<1> DEFINE made == [NoRequest EXCEPT !.kind = "read", !.row = row, !.at = rows[row],
                                     !.base = Seen(rows[row])]
<1>1. /\ PanelActs /\ UNCHANGED <<open, rows, base, shown, polling, value>> /\ open /\ MaySend
      /\ net' = net \cup {made} /\ replied' = [replied EXCEPT ![row] = FALSE]
  BY DEF Read, Send, Server, PanelActs
<1>2. /\ PanelTypes /\ panelHabits' = panelHabits /\ rows[row] \in Addresses
      /\ value[rows[row]] \in Nat
  BY <1>1 DEF Read, PanelInv, PanelTypes, PanelActs
<1>3. /\ replied'[row] = FALSE
      /\ \A x \in RowIds \ {row} : replied'[x] = replied[x]
  BY <1>1, <1>2 DEF PanelTypes
<1>4. Seen(rows[row]) \in Baselines /\ IsOld(Seen(rows[row]))
  <2>1. CASE value[rows[row]] = 0
    BY <2>1 DEF Seen, Baselines, IsOld
  <2>2. CASE value[rows[row]] # 0
    <3>1. Seen(rows[row]) = <<rows[row], value[rows[row]]>> /\ 1 <= value[rows[row]]
      BY <1>2, <2>2 DEF Seen
    <3> QED BY <1>2, <3>1 DEF Baselines, IsOld
  <2> QED BY <2>1, <2>2
<1>5. PICK q \in Request :
        /\ net' = net \cup {q} /\ q.kind = "read" /\ q.row = row /\ q.at = rows[row] /\ q.n = 0
        /\ q.base = Seen(rows[row]) /\ q.dead = FALSE
  <2>1. /\ made \in Request /\ made.kind = "read" /\ made.row = row /\ made.at = rows[row]
        /\ made.n = 0 /\ made.base = Seen(rows[row]) /\ made.dead = FALSE
    BY <1>2, <1>4, Blank, Numbers DEF Request
  <2> HIDE DEF made
  <2> QED BY <1>1, <2>1
<1> HIDE DEF made
<1>6. \A b : IsOld(b) => IsOld(b)'
  BY <1>1 DEF IsOld
<1>7. ASSUME NEW x \in RowIds, NEW b, WaitsTruly(x, b) PROVE WaitsTruly(x, b)'
  <2>1. CASE x = row
    BY <1>3, <2>1 DEF WaitsTruly
  <2>2. CASE x # row
    BY <1>1, <1>3, <1>7, <2>2 DEF WaitsTruly, Seen
  <2> QED BY <2>1, <2>2
<1>8. current' = current /\ current \in Nat /\ MaxJobs \in Nat /\ current <= current
  BY <1>1, Numbers DEF PanelActs, vars
<1>9. ASSUME NEW r \in net PROVE Sound(r)'
  <2>1. Sound(r) /\ (r.kind = "read" => r.row \in RowIds)
    BY <1>9 DEF PanelInv, Sound
  <2>2. r.kind = "read" => WaitsTruly(r.row, r.base)'
    BY <1>7, <2>1 DEF Sound
  <2>3. MayGo(r.row) => MayGo(r.row)'
    BY <1>1 DEF MayGo, PanelActs, vars
  <2> QED BY <1>1, <1>2, <1>6, <1>8, <2>1, <2>2, <2>3, SoundStays
<1>10. Sound(q)'
  <2>1. WaitsTruly(row, q.base)'
    BY <1>3 DEF WaitsTruly
  <2>2. IsOld(q.base)'
    BY <1>4, <1>5, <1>6
  <2>3. open' /\ q.n <= current'
    BY <1>1, <1>5, <1>8
  <2> QED BY <1>2, <1>5, <2>1, <2>2, <2>3 DEF Sound
<1>11. PanelTypes' /\ RowIsLeft' /\ ShownIsPolled'
  BY <1>1, <1>2 DEF PanelInv, PanelTypes, RowIsLeft, ShownIsPolled, PanelActs, vars
<1>12. RowsAreSound'
  BY <1>1, <1>6, <1>7 DEF PanelInv, RowsAreSound
<1>13. Room'
  BY <1>1, <1>2, <1>5, RoomForOne DEF PanelInv
<1> QED BY <1>1, <1>5, <1>9, <1>10, <1>11, <1>12, <1>13, PanelActsKeep

(* A telegram is no baseline of before it: what waited for it stops. *)
LEMMA TelegramKeeps ==
  ASSUME PanelInv, NEW a \in Addresses, Telegram(a)
  PROVE  PanelInv'
<1>1. /\ PanelActs /\ UNCHANGED <<open, rows, base, shown, polling, net>>
      /\ value' = [value EXCEPT ![a] = @ + 1]
      /\ replied' = [row \in RowIds |-> replied[row] \/ rows[row] = a]
  BY DEF Telegram, Server, PanelActs
<1>2. PanelTypes /\ panelHabits' = panelHabits /\ value \in [Addresses -> Nat]
  BY <1>1 DEF PanelInv, PanelTypes, PanelActs
<1>3. /\ value'[a] = value[a] + 1 /\ value[a] \in Nat
      /\ \A x \in Addresses \ {a} : value'[x] = value[x]
      /\ \A x \in Addresses : value[x] \in Nat /\ value'[x] \in Nat /\ value[x] <= value'[x]
  BY <1>1, <1>2
<1>4. ASSUME NEW b, IsOld(b) PROVE IsOld(b)'
  <2>1. CASE b \in Addresses \X Nat /\ 1 <= b[2] /\ b[2] <= value[b[1]]
    <3>1. b[1] \in Addresses /\ b[2] \in Nat
      BY <2>1
    <3> QED BY <1>3, <2>1, <3>1 DEF IsOld
  <2>2. CASE b \in {None, <<>>}
    BY <2>2 DEF IsOld
  <2> QED BY <1>4, <2>1, <2>2 DEF IsOld
<1>5. ASSUME NEW x \in RowIds, NEW b, IsOld(b), WaitsTruly(x, b) PROVE WaitsTruly(x, b)'
  <2>1. CASE rows[x] = a
    <3>1. Seen(a)' = <<a, value[a] + 1>>
      BY <1>3 DEF Seen
    <3>2. b # None => b # <<a, value[a] + 1>>
      BY <1>3, <1>5 DEF IsOld
    <3> QED BY <1>1, <2>1, <3>1, <3>2 DEF WaitsTruly
  <2>2. CASE rows[x] # a
    <3>1. rows'[x] # None => rows'[x] = rows[x] /\ Seen(rows[x])' = Seen(rows[x])
      BY <1>1, <1>2, <1>3, <2>2 DEF Seen, PanelTypes
    <3>2. replied'[x] <=> replied[x]
      BY <1>1, <2>2
    <3> QED BY <1>1, <1>5, <3>1, <3>2 DEF WaitsTruly
  <2> QED BY <2>1, <2>2
<1>6. current' = current /\ current \in Nat /\ MaxJobs \in Nat /\ current <= current
  BY <1>1, Numbers DEF PanelActs, vars
<1>7. ASSUME NEW r \in net' PROVE Sound(r)'
  <2>1. Sound(r) /\ (r.kind = "read" => r.row \in RowIds)
    BY <1>1, <1>7 DEF PanelInv, Sound
  <2>2. r.kind = "read" => WaitsTruly(r.row, r.base)'
    BY <1>5, <2>1 DEF Sound
  <2>3. MayGo(r.row) => MayGo(r.row)'
    BY <1>1 DEF MayGo, PanelActs, vars
  <2> QED BY <1>1, <1>2, <1>4, <1>6, <2>1, <2>2, <2>3, SoundStays
<1>8. PanelTypes'
  <2>1. value' \in [Addresses -> Nat]
    BY <1>1, <1>2
  <2>2. replied' \in [RowIds -> BOOLEAN]
    BY <1>1, <1>2 DEF PanelTypes
  <2> QED BY <1>1, <1>2, <2>1, <2>2 DEF PanelTypes, PanelActs, vars
<1>9. RowsAreSound'
  BY <1>1, <1>4, <1>5 DEF PanelInv, RowsAreSound
<1>10. Room' /\ RowIsLeft' /\ ShownIsPolled'
  BY <1>1, <1>2 DEF PanelInv, Room, Has, RowIsLeft, ShownIsPolled
<1> QED BY <1>1, <1>7, <1>8, <1>9, <1>10, PanelActsKeep

(* The panel asks for the state when it is opened, and has no baselines yet. *)
LEMMA OpenKeeps ==
  ASSUME PanelInv, Open
  PROVE  PanelInv'
<1>1. /\ PanelActs /\ UNCHANGED <<rows, shown, polling, value, replied>> /\ ~ open /\ open' = TRUE
      /\ MaySend /\ base' = [row \in RowIds |-> None] /\ net' = net \cup {Status}
  BY DEF Open, OnMount, Server, PanelActs
<1>2. /\ PanelTypes /\ panelHabits' = panelHabits /\ current' = current
      /\ current \in Nat /\ MaxJobs \in Nat
  BY <1>1, Numbers DEF PanelInv, PanelActs, vars
<1>3. PICK q \in Request :
        net' = net \cup {q} /\ q.kind = "status" /\ q.row = None /\ q.n = 0 /\ q.base = None
  BY <1>1, <1>2, Blank DEF Status
<1>4. Sound(q)'
  <2>1. q.row \notin RowIds
    BY <1>3, PanelAssumption
  <2>2. IsOld(q.base)'
    BY <1>3 DEF IsOld
  <2>3. q.n <= current' /\ open'
    BY <1>1, <1>2, <1>3
  <2> QED BY <1>3, <2>1, <2>2, <2>3 DEF Sound
<1>5. ASSUME NEW r \in net PROVE Sound(r)'
  <2>1. Sound(r) /\ current <= current' /\ current' \in Nat
    BY <1>2, <1>5 DEF PanelInv
  <2>2. /\ \A b : IsOld(b) => IsOld(b)'
        /\ r.kind = "read" => WaitsTruly(r.row, r.base)'
        /\ MayGo(r.row) => MayGo(r.row)'
    BY <1>1, <2>1 DEF IsOld, Sound, WaitsTruly, Seen, MayGo, PanelActs, vars
  <2> QED BY <1>1, <1>2, <2>1, <2>2, SoundStays
<1>6. Room'
  BY <1>1, <1>2, RoomForOne DEF PanelInv
<1>7. PanelTypes' /\ RowIsLeft'
  BY <1>1, <1>2 DEF PanelInv, PanelTypes, RowIsLeft, PanelActs, vars
<1>8. shown = 0
  BY <1>1 DEF PanelInv, ShownIsPolled
<1>9. ShownIsPolled' /\ RowsAreSound'
  BY <1>1, <1>8 DEF ShownIsPolled, RowsAreSound, IsOld, WaitsTruly
<1> QED BY <1>1, <1>3, <1>4, <1>5, <1>6, <1>7, <1>9, PanelActsKeep

(* A panel that is closed leaves dead requests and no banner. *)
LEMMA CloseKeeps ==
  ASSUME PanelInv, Close
  PROVE  PanelInv'
<1>1. /\ PanelActs /\ UNCHANGED <<rows, base, value, replied>> /\ open' = FALSE
      /\ shown' = 0 /\ polling' = FALSE
      /\ net' = {[r EXCEPT !.dead = TRUE] : r \in net}
  BY DEF Close, Server, PanelActs
<1>2. /\ PanelTypes /\ panelHabits' = panelHabits /\ current' = current /\ current \in Nat
  BY <1>1, Numbers DEF PanelInv, PanelActs, vars
<1>3. ASSUME NEW q \in net' PROVE Sound(q)'
  <2>1. PICK r \in net : q = [r EXCEPT !.dead = TRUE]
    BY <1>1, <1>3
  <2>2. Sound(r) /\ r \in Request
    BY DEF PanelInv, Sound
  <2>3. /\ q \in Request /\ q.dead /\ q.kind = r.kind /\ q.row = r.row /\ q.at = r.at
        /\ q.n = r.n /\ q.base = r.base
    BY <2>1, <2>2 DEF Request
  <2>4. IsOld(r.base) => IsOld(r.base)'
    BY <1>1 DEF IsOld
  <2>5. WaitsTruly(r.row, r.base) => WaitsTruly(r.row, r.base)'
    BY <1>1 DEF WaitsTruly, Seen
  <2>6. Undisturbed' /\ ~ q.dead => FALSE
    BY <2>3
  <2>7. q.n <= current' /\ IsOld(q.base)' /\ (q.kind = "read" => WaitsTruly(q.row, q.base)')
    BY <1>2, <2>2, <2>3, <2>4, <2>5 DEF Sound
  <2> QED BY <2>2, <2>3, <2>6, <2>7 DEF Sound
<1>4. Room'
  BY <1>1, <1>2, RoomForDead DEF PanelInv
<1>5. shown' \in 0 .. current'
  BY <1>1, <1>2
<1>6. PanelTypes' /\ RowIsLeft' /\ ShownIsPolled' /\ RowsAreSound'
  BY <1>1, <1>2, <1>5 DEF PanelInv, PanelTypes, PanelActs, vars, RowIsLeft, ShownIsPolled,
     RowsAreSound, IsOld, WaitsTruly, Seen
<1> QED BY <1>1, <1>3, <1>4, <1>6, PanelActsKeep

(* An answer is taken, or lost.  Where a row may still have to go the requests
   take turns, so that none is left that the new banner could surprise. *)
LEMMA TakenKeeps ==
  ASSUME PanelInv, PanelActs, UNCHANGED <<open, value, replied>>,
         NEW r \in net, net' = net \ {r},
         shown' \in 0 .. current, polling' \in BOOLEAN, ShownIsPolled',
         rows' = rows \/ (r.row \in RowIds /\ rows' = Drop(r.row)),
         base' \in [RowIds -> Baselines \cup {None}],
         \A x \in RowIds : IsOld(base'[x]) /\ WaitsTruly(x, base'[x])
  PROVE  PanelInv'
<1>1. PanelTypes /\ panelHabits' = panelHabits /\ current' = current
  BY DEF PanelInv, PanelActs, vars
<1>2. /\ rows' \in [RowIds -> Addresses \cup {None}] /\ RowIsLeft'
      /\ \A x \in RowIds : rows'[x] \in {rows[x], None}
  <2>1. CASE rows' = rows
    BY <1>1, <2>1 DEF PanelTypes, PanelInv, RowIsLeft
  <2>2. CASE r.row \in RowIds /\ rows' = Drop(r.row)
    BY <2>2, DropLeaves
  <2> QED BY <2>1, <2>2
<1>3. ASSUME NEW q \in net' PROVE Sound(q)'
  <2>1. q \in net /\ q # r
    BY <1>3
  <2>2. ~ Undisturbed
    BY <2>1 DEF PanelInv, Room, Undisturbed
  <2> QED BY <1>2, <2>1, <2>2, FewerRows
<1>4. RowsAreSound'
  <2> SUFFICES ASSUME NEW x \in RowIds PROVE IsOld(base[x])' /\ WaitsTruly(x, base[x])'
    BY DEF RowsAreSound
  <2>1. PICK b : b = base'[x]
    OBVIOUS
  <2>2. IsOld(b)' /\ WaitsTruly(x, b)'
    BY <1>2, <2>1, FewerRows
  <2> QED BY <2>1, <2>2 DEF IsOld, WaitsTruly, Seen
<1>5. Room'
  BY <1>1, RoomWithoutOne DEF PanelInv
<1>6. PanelTypes'
  BY <1>1, <1>2 DEF PanelTypes, PanelActs, vars
<1> QED BY <1>2, <1>3, <1>4, <1>5, <1>6, PanelActsKeep

LEMMA TakeStatusKeeps ==
  ASSUME PanelInv, NEW r \in net, Take(r), TakeStatus(r)
  PROVE  PanelInv'
<1>1. /\ PanelActs /\ UNCHANGED <<open, value, replied, base>> /\ net' = net \ {r}
  BY DEF Take, TakeStatus, Server, PanelActs
<1>2. /\ Sound(r) /\ r \in Request /\ PanelTypes /\ ShownIsPolled /\ RowsAreSound
      /\ current \in Nat
  BY Numbers DEF PanelInv, Sound
<1>3. base' \in [RowIds -> Baselines \cup {None}]
      /\ \A x \in RowIds : IsOld(base'[x]) /\ WaitsTruly(x, base'[x])
  BY <1>1, <1>2 DEF PanelTypes, RowsAreSound
<1>4. rows' = rows \/ (r.row \in RowIds /\ rows' = Drop(r.row))
  BY <1>2 DEF TakeStatus, Request
<1>5. shown' \in 0 .. current /\ polling' \in BOOLEAN /\ ShownIsPolled'
  <2>1. CASE r.dead
    BY <1>1, <1>2, <2>1 DEF TakeStatus, PanelTypes, ShownIsPolled
  <2>2. CASE ~ r.dead
    <3>1. r.n \in Nat /\ r.n <= current /\ open
      BY <1>2, <2>2 DEF Sound, Request
    <3>2. shown' = r.n /\ polling' = (r.n # 0)
      BY <2>2 DEF TakeStatus, PollsOn
    <3>3. CASE r.n = 0
      BY <1>1, <1>2, <3>1, <3>2, <3>3 DEF ShownIsPolled
    <3>4. CASE r.n # 0
      <4>1. polling' = TRUE
        BY <3>2, <3>4
      <4> QED BY <1>1, <1>2, <3>1, <3>2, <4>1 DEF ShownIsPolled
    <3> QED BY <3>3, <3>4
  <2> QED BY <2>1, <2>2
<1> QED BY <1>1, <1>3, <1>4, <1>5, TakenKeeps

LEMMA TakeStartKeeps ==
  ASSUME PanelInv, NEW r \in net, Take(r), TakeStart(r)
  PROVE  PanelInv'
<1>1. /\ PanelActs /\ UNCHANGED <<open, value, replied, base, rows>> /\ net' = net \ {r}
  BY DEF Take, TakeStart, Server, PanelActs
<1>2. /\ Sound(r) /\ r \in Request /\ PanelTypes /\ ShownIsPolled /\ RowsAreSound
      /\ current \in Nat
  BY Numbers DEF PanelInv, Sound
<1>3. base' \in [RowIds -> Baselines \cup {None}]
      /\ \A x \in RowIds : IsOld(base'[x]) /\ WaitsTruly(x, base'[x])
  BY <1>1, <1>2 DEF PanelTypes, RowsAreSound
<1>4. shown' \in 0 .. current /\ polling' \in BOOLEAN /\ ShownIsPolled'
  <2>1. CASE ~ (r.ok /\ ~ r.dead)
    <3>1. UNCHANGED <<shown, polling>>
      BY <2>1 DEF TakeStart
    <3> QED BY <1>1, <1>2, <3>1 DEF PanelTypes, ShownIsPolled
  <2>2. CASE r.ok /\ ~ r.dead
    <3>1. r.n \in Nat /\ r.n <= current /\ open
      BY <1>2, <2>2 DEF Sound, Request
    <3>2. shown' = r.n /\ polling' = TRUE
      BY <2>2 DEF TakeStart
    <3> QED BY <1>1, <1>2, <3>1, <3>2 DEF ShownIsPolled
  <2> QED BY <2>1, <2>2
<1> QED BY <1>1, <1>3, <1>4, TakenKeeps

(* The baseline is one that Read saw, so the row waits truly. *)
LEMMA TakeReadKeeps ==
  ASSUME PanelInv, NEW r \in net, Take(r), TakeRead(r)
  PROVE  PanelInv'
<1>1. /\ PanelActs /\ UNCHANGED <<open, value, replied, shown, polling, rows>> /\ net' = net \ {r}
      /\ base' = IF r.dead THEN base ELSE [base EXCEPT ![r.row] = r.base]
  BY DEF Take, TakeRead, Baseline, Server, PanelActs
<1>2. /\ Sound(r) /\ r \in Request /\ PanelTypes /\ ShownIsPolled /\ RowsAreSound
      /\ r.row \in RowIds /\ r.base \in Baselines \cup {None}
      /\ IsOld(r.base) /\ WaitsTruly(r.row, r.base)
  BY DEF PanelInv, Sound, TakeRead, Request
<1>3. base' \in [RowIds -> Baselines \cup {None}]
      /\ \A x \in RowIds : base'[x] = base[x] \/ (x = r.row /\ base'[x] = r.base)
  BY <1>1, <1>2 DEF PanelTypes
<1>4. ASSUME NEW x \in RowIds PROVE IsOld(base'[x]) /\ WaitsTruly(x, base'[x])
  <2>1. IsOld(base[x]) /\ WaitsTruly(x, base[x])
    BY <1>2 DEF RowsAreSound
  <2> QED BY <1>2, <1>3, <2>1
<1>5. shown' \in 0 .. current /\ polling' \in BOOLEAN /\ ShownIsPolled'
  BY <1>1, <1>2 DEF PanelTypes, ShownIsPolled
<1> QED BY <1>1, <1>3, <1>4, <1>5, TakenKeeps

(* After a cancel the panel asks for the state, and the row that was to be
   removed with it may go. *)
LEMMA RefreshKeeps ==
  ASSUME PanelInv, NEW r \in net, r.kind = "cancel", Refreshes(r), PanelActs,
         UNCHANGED <<open, rows, base, shown, polling, value, replied>>,
         Undisturbed => r.stage = "down"
  PROVE  PanelInv'
<1>1. /\ Sound(r) /\ r.row \in RowIds \cup {None} /\ PanelTypes /\ ShownIsPolled /\ RowsAreSound
      /\ panelHabits' = panelHabits
  BY DEF PanelInv, Sound, Request, PanelActs
<1>2. CASE r.dead
  <2>1. net' = net \ {r}
    BY <1>2 DEF Refreshes
  <2>2. shown' \in 0 .. current /\ polling' \in BOOLEAN /\ ShownIsPolled'
    BY <1>1 DEF PanelTypes, ShownIsPolled
  <2>3. base' \in [RowIds -> Baselines \cup {None}]
        /\ \A x \in RowIds : IsOld(base'[x]) /\ WaitsTruly(x, base'[x])
    BY <1>1 DEF PanelTypes, RowsAreSound
  <2> QED BY <2>1, <2>2, <2>3, TakenKeeps
<1>3. CASE ~ r.dead
  <2>1. net' = (net \ {r}) \cup {[Status EXCEPT !.row = r.row]}
    BY <1>3 DEF Refreshes
  <2>2. open /\ (Undisturbed /\ r.row \in RowIds => MayGo(r.row))
    BY <1>1, <1>3 DEF Sound
  <2>3. Sound([Status EXCEPT !.row = r.row])
    BY <1>1, <2>2, StatusIsSound, Numbers
  <2>4. \A q \in net' : Sound(q)
    BY <2>1, <2>3 DEF PanelInv
  <2>5. ASSUME NEW q \in net' PROVE Sound(q)'
    <3>1. Sound(q)
      BY <2>4
    <3> QED BY <3>1 DEF PanelActs, vars, Sound, IsOld, WaitsTruly, Seen, MayGo, Undisturbed, Has
  <2>6. Room'
    BY <1>1, <2>1, RoomForAnswer DEF PanelInv
  <2>7. PanelTypes' /\ RowIsLeft' /\ ShownIsPolled' /\ RowsAreSound'
    BY DEF PanelInv, PanelActs, vars, PanelTypes, RowIsLeft, ShownIsPolled, RowsAreSound, IsOld,
           WaitsTruly, Seen
  <2> QED BY <2>5, <2>6, <2>7, PanelActsKeep
<1> QED BY <1>2, <1>3

LEMMA TakeCancelKeeps ==
  ASSUME PanelInv, NEW r \in net, Take(r), TakeCancel(r)
  PROVE  PanelInv'
BY RefreshKeeps DEF Take, TakeCancel, Server, PanelActs

LEMMA LoseKeeps ==
  ASSUME PanelInv, NEW r \in net, Lose(r)
  PROVE  PanelInv'
<1>1. /\ PanelActs /\ UNCHANGED <<open, base, shown, polling, value, replied>>
  BY DEF Lose, Server, PanelActs
<1>2. CASE r.kind = "cancel"
  <2>1. Has("loses") /\ Refreshes(r) /\ UNCHANGED rows
    BY <1>2 DEF Lose
  <2>2. ~ Undisturbed
    BY <2>1 DEF Undisturbed
  <2> QED BY <1>1, <1>2, <2>1, <2>2, RefreshKeeps
<1>3. CASE r.kind # "cancel"
  <2>1. net' = net \ {r}
    BY <1>3 DEF Lose
  <2>2. r.row \in RowIds \cup {None} /\ PanelTypes /\ ShownIsPolled /\ RowsAreSound
    BY DEF PanelInv, Sound, Request
  <2>3. rows' = rows \/ (r.row \in RowIds /\ rows' = Drop(r.row))
    BY <2>2 DEF Lose
  <2>4. shown' \in 0 .. current /\ polling' \in BOOLEAN /\ ShownIsPolled'
    BY <1>1, <2>2 DEF PanelTypes, ShownIsPolled
  <2>5. base' \in [RowIds -> Baselines \cup {None}]
        /\ \A x \in RowIds : IsOld(base'[x]) /\ WaitsTruly(x, base'[x])
    BY <1>1, <2>2 DEF PanelTypes, RowsAreSound
  <2> QED BY <1>1, <2>1, <2>3, <2>4, <2>5, TakenKeeps
<1> QED BY <1>2, <1>3
-----------------------------------------------------------------------------
(* It holds before the panel is first opened, with rows of any addresses. *)
LEMMA PanelInitHolds == PanelInit => PanelInv
<1> SUFFICES ASSUME PanelInit PROVE PanelInv
  OBVIOUS
<1>1. Init /\ IInv /\ current = 0
  BY InitIInv DEF PanelInit, Init
<1>2. \A j \in JobId : job[j].state \notin Active
  BY <1>1 DEF Init, NoJob, Active
<1>3. ServerInv
  BY <1>1, <1>2 DEF ServerInv, OnlyCurrentIsActive, ActiveIsRun
<1>4. PanelTypes
  <2>1. rows \in [RowIds -> Addresses \cup {None}]
    <3>1. \A f \in [RowIds -> Addresses] : f \in [RowIds -> Addresses \cup {None}]
      OBVIOUS
    <3> QED BY <3>1 DEF PanelInit
  <2>2. base \in [RowIds -> Baselines \cup {None}] /\ replied \in [RowIds -> BOOLEAN]
    BY DEF PanelInit
  <2>3. of \in [JobId -> Addresses \cup {None}] /\ value \in [Addresses -> Nat]
    BY DEF PanelInit
  <2>4. open \in BOOLEAN /\ polling \in BOOLEAN /\ shown \in 0 .. current
    <3>1. open = FALSE /\ polling = FALSE /\ shown = 0
      BY DEF PanelInit
    <3>2. 0 \in 0 .. current
      BY <1>1
    <3> QED BY <3>1, <3>2
  <2> QED BY <2>1, <2>2, <2>3, <2>4 DEF PanelTypes
<1>5. Room
  BY FS_EmptySet, PanelAssumption DEF PanelInit, Room
<1>6. RowIsLeft
  BY PanelAssumption DEF PanelInit, RowIsLeft
<1>7. StartedHaveAddress /\ ShownIsPolled /\ RowsAreSound /\ net = {}
  BY <1>1 DEF PanelInit, StartedHaveAddress, ShownIsPolled, RowsAreSound, IsOld, WaitsTruly
<1> QED BY <1>3, <1>4, <1>5, <1>6, <1>7 DEF PanelInv

(* Every step of the panel, of the server and of the network keeps it. *)
LEMMA PanelStepHolds == PanelInv /\ [PanelNext]_allVars => PanelInv'
<1> SUFFICES ASSUME PanelInv, [PanelNext]_allVars PROVE PanelInv'
  OBVIOUS
<1>1. CASE Open \/ Close \/ Poll \/ CancelClick
  BY <1>1, OpenKeeps, CloseKeeps, PollKeeps, CancelClickKeeps
<1>2. ASSUME NEW row \in RowIds, NEW schedule \in Schedules, Write(row, schedule) PROVE PanelInv'
  BY <1>2, WriteKeeps
<1>3. ASSUME NEW row \in RowIds, RemoveRow(row) \/ Read(row) PROVE PanelInv'
  BY <1>3, RemoveRowKeeps, ReadKeeps
<1>4. ASSUME NEW row \in RowIds, NEW a \in Addresses, SetAddress(row, a) PROVE PanelInv'
  BY <1>4, SetAddressKeeps
<1>5. ASSUME NEW r \in net, Handle(r) PROVE PanelInv'
  BY <1>5, HandleStatusKeeps, HandleStartKeeps, HandleCancelKeeps, HandleReadKeeps DEF Handle
<1>6. ASSUME NEW r \in net, Take(r) PROVE PanelInv'
  BY <1>6, TakeStatusKeeps, TakeStartKeeps, TakeCancelKeeps, TakeReadKeeps DEF Take
<1>7. ASSUME NEW r \in net, Lose(r) PROVE PanelInv'
  BY <1>7, LoseKeeps
<1>8. ASSUME NEW a \in Addresses, Telegram(a) PROVE PanelInv'
  BY <1>8, TelegramKeeps
<1>9. ASSUME NEW j \in JobId, ServerStep(j) PROVE PanelInv'
  BY <1>9, ServerStepKeeps
<1>10. CASE UNCHANGED allVars
  <2>1. UNCHANGED vars /\ UNCHANGED panelVars
    BY <1>10 DEF allVars
  <2>2. PanelActs /\ UNCHANGED <<open, rows, base, shown, polling, net, value, replied, panelHabits>>
    BY <2>1 DEF PanelActs, panelVars
  <2>3. \A r \in net' : Sound(r)'
    BY <2>2 DEF PanelInv, PanelActs, vars, Sound, IsOld, WaitsTruly, Seen, MayGo, Undisturbed, Has
  <2>4. PanelTypes' /\ Room' /\ RowIsLeft' /\ ShownIsPolled' /\ RowsAreSound'
    BY <2>2 DEF PanelInv, PanelActs, vars, PanelTypes, Room, Has, RowIsLeft, ShownIsPolled,
                RowsAreSound, IsOld, WaitsTruly, Seen
  <2> QED BY <2>2, <2>3, <2>4, PanelActsKeep
<1> QED BY <1>1, <1>2, <1>3, <1>4, <1>5, <1>6, <1>7, <1>8, <1>9, <1>10 DEF PanelNext

(* The invariant of the panel and the jobs under it. *)
THEOREM PanelInvariance == PanelSpec => []PanelInv
BY PanelInitHolds, PanelStepHolds, PTL DEF PanelSpec

(* The panel shows no job it does not watch, keeps a row, and claims to wait
   only for answers that are not there yet, for any rows, addresses and
   requests, lost, late or overtaking (WriteToBusPanel.tsx). *)
THEOREM TruePanel == PanelSpec => []PanelIsTrue
BY PanelInvImplies, PanelInvariance, PTL
-----------------------------------------------------------------------------
(* A row is only removed when the job in the banner is not its own, is over,
   or was cancelled. *)
LEMMA RemovalStep ==
  ASSUME PanelInv, [PanelNext]_allVars, NEW row \in RowIds,
         rows[row] # None, rows'[row] = None, shown # 0, Undisturbed
  PROVE  \/ of[shown] # rows[row]
         \/ job[shown].state \notin Active \/ task[shown].cancelled
<1>1. rows' # rows
  OBVIOUS
<1>2. SUFFICES MayGo(row)
  BY DEF MayGo
<1>3. ASSUME NEW x \in RowIds, RemoveRow(x) PROVE MayGo(row)
  <2>1. ~ Owns(x) /\ rows' = Drop(x)
    BY <1>1, <1>3 DEF RemoveRow
  <2>2. x = row
    BY <2>1, DropLeaves
  <2> QED BY <2>1, <2>2 DEF Owns, MayGo
<1>4. ASSUME NEW r \in net, r.kind = "status", ~ r.dead, rows' = Drop(r.row), r.row # None
      PROVE  MayGo(row)
  <2>1. Sound(r) /\ r.row \in RowIds
    BY <1>4 DEF PanelInv, Sound, Request
  <2>2. r.row = row
    BY <1>4, <2>1, DropLeaves
  <2> QED BY <1>4, <2>1, <2>2 DEF Sound
<1>5. ASSUME NEW r \in net, Take(r) PROVE MayGo(row)
  <2>1. TakeStatus(r) /\ ~ r.dead /\ r.row # None /\ rows' = Drop(r.row)
    BY <1>1, <1>5 DEF Take, TakeStatus, TakeStart, TakeCancel, TakeRead
  <2> QED BY <1>4, <2>1 DEF TakeStatus
<1>6. ASSUME NEW r \in net, Lose(r) PROVE MayGo(row)
  <2>1. r.kind = "status" /\ r.row # None /\ ~ r.dead /\ rows' = Drop(r.row)
    BY <1>1, <1>6 DEF Lose
  <2> QED BY <1>4, <2>1
<1>7. ASSUME NEW x \in RowIds, NEW a \in Addresses, SetAddress(x, a) PROVE FALSE
  BY <1>7, PanelAssumption DEF SetAddress, Undisturbed
<1>8. ASSUME \/ Open \/ Close \/ Poll \/ CancelClick
             \/ \E x \in RowIds, schedule \in Schedules : Write(x, schedule)
             \/ \E x \in RowIds : Read(x)
             \/ \E r \in net : Handle(r)
             \/ \E a \in Addresses : Telegram(a)
             \/ \E j \in JobId : ServerStep(j)
             \/ UNCHANGED allVars
      PROVE  FALSE
  BY <1>1, <1>8 DEF Open, Close, Poll, CancelClick, Write, Read, Handle, Telegram, ServerStep,
                    allVars, panelVars
<1> QED BY <1>3, <1>5, <1>6, <1>7, <1>8 DEF PanelNext

(* A row whose job the banner shows takes the job with it
   (WriteToBusPanel.tsx:172-181). *)
THEOREM RemovalEndsJob == PanelSpec => RemovalCancels
<1>1. PanelInv /\ [PanelNext]_allVars =>
        [\A row \in RowIds :
           rows[row] # None /\ rows'[row] = None /\ shown # 0 /\ Undisturbed
             => \/ of[shown] # rows[row]
                \/ job[shown].state \notin Active \/ task[shown].cancelled]_allVars
  BY RemovalStep
<1> QED BY <1>1, PanelInvariance, PTL DEF PanelSpec, RemovalCancels
-----------------------------------------------------------------------------
(* What the panel makes the server do the server may do by itself. *)
LEMMA PanelDrives == PanelInv /\ [PanelNext]_allVars => [Next]_vars
<1> SUFFICES ASSUME PanelInv, [PanelNext]_allVars PROVE [Next]_vars
  OBVIOUS
<1>1. ASSUME NEW r \in net, Handle(r) PROVE [Next]_vars
  <2>1. r.delayed \in BOOLEAN /\ r.cyclic \in BOOLEAN
    BY DEF PanelInv, Sound, Request
  <2>2. Start(r.delayed, r.cyclic) \/ Cancel \/ UNCHANGED vars
    BY <1>1 DEF Handle, HandleStatus, HandleStart, HandleCancel, HandleRead, Server
  <2> QED BY <2>1, <2>2 DEF Next
<1>2. ASSUME NEW j \in JobId, ServerStep(j) PROVE [Next]_vars
  BY <1>2 DEF ServerStep, Next
<1>3. ASSUME \/ Open \/ Close \/ Poll \/ CancelClick
             \/ \E x \in RowIds, schedule \in Schedules : Write(x, schedule)
             \/ \E x \in RowIds : RemoveRow(x) \/ Read(x)
             \/ \E x \in RowIds, a \in Addresses : SetAddress(x, a)
             \/ \E r \in net : Take(r) \/ Lose(r)
             \/ \E a \in Addresses : Telegram(a)
             \/ UNCHANGED allVars
      PROVE  UNCHANGED vars
  BY <1>3 DEF Open, Close, Poll, CancelClick, Write, RemoveRow, Read, SetAddress, Take, Lose,
              Telegram, Server, allVars
<1> QED BY <1>1, <1>2, <1>3 DEF PanelNext

(* Under the panel the jobs are as sound as for themselves, whatever requests
   are lost or late (cyclic_send.py). *)
THEOREM JobsUnderPanel == PanelSpec => []JobsAreSound /\ EndedIsOver
<1>1. PanelInv => JobsAreSound
  BY DEF PanelInv, ServerInv, IInv, LiveTaskIsActive, OneTaskAtATime, JobsAreSound
<1>2. PanelInv /\ [PanelNext]_allVars =>
        /\ [\A j \in JobId : job[j].state \in Finished => job'[j] = job[j]]_vars
        /\ [\A j \in JobId : task[j].cancelled => queued'[j] = queued[j]]_vars
  BY PanelDrives, FinishedStep, CancelledStep DEF PanelInv, ServerInv
<1> QED BY <1>1, <1>2, PanelInvariance, PTL
        DEF PanelSpec, EndedIsOver, NoSendAfterCancel, FinishedIsFinal
=============================================================================
