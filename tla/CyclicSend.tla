----------------------------- MODULE CyclicSend -----------------------------
(***************************************************************************)
(* cyclic_send.py: the delayed / cyclic send-to-bus job.  At most one job  *)
(* is active; its task sleeps through an optional delay, then sends once   *)
(* or at an interval until it is cancelled.                                *)
(*                                                                         *)
(* The asyncio loop runs one task at a time, from one suspension to the    *)
(* next.  A task suspends only in the two sleeps: putting a telegram into  *)
(* the unbounded queue of xknx does not.  So a step is the task's first    *)
(* run, or its resumption from a sleep that has elapsed or been cancelled; *)
(* API handlers run in between.                                            *)
(***************************************************************************)
EXTENDS Naturals

CONSTANTS
  MaxJobs,      \* bound on the jobs started
  MaxSends,     \* bound on the send attempts of one job
  EarlyCancel   \* a cancel may be handled before the task's first step

ASSUME BoundsAssumption == MaxJobs \in Nat /\ MaxSends \in Nat
ASSUME EarlyCancelAssumption == EarlyCancel \in BOOLEAN

VARIABLES
  current,      \* number of the job in current_job, 0 before the first
  job,          \* the SendJob records
  task,         \* their asyncio tasks
  queued,       \* telegrams of each job put into the send queue of xknx
  writable,     \* knx_daemon.write_enabled()
  phase         \* the application: serving, stopping (shutdown awaits), stopped

vars == <<current, job, task, queued, writable, phase>>

JobId == 1 .. MaxJobs
Active   == {"waiting", "running"}
Finished == {"done", "cancelled", "failed"}

NoJob  == [state |-> "none", delayed |-> FALSE, cyclic |-> FALSE,
           done |-> 0, skipped |-> 0, nextSend |-> FALSE]
NoTask == [pc |-> "none", elapsed |-> FALSE, cancelled |-> FALSE]

ActiveJob == current # 0 /\ job[current].state \in Active
TaskRuns(j) == task[j].pc \in {"scheduled", "delay", "interval"}

Init ==
  /\ current = 0
  /\ job = [j \in JobId |-> NoJob]
  /\ task = [j \in JobId |-> NoTask]
  /\ queued = [j \in JobId |-> 0]
  /\ writable \in BOOLEAN
  /\ phase = "serving"
-----------------------------------------------------------------------------
OnlyRunningBlocks ==                             \* deviation
  IF current = 0 THEN TRUE ELSE job[current].state # "running"
(* start_send raises while the current job is waiting or running. *)
MayStart == ~ActiveJob

(* POST /api/knx/send/scheduled: the bus must be writable, a delay or an
   interval given, and no job active; the task is created, not yet run. *)
Start(delayed, cyclic) ==
  /\ phase = "serving" /\ writable
  /\ delayed \/ cyclic
  /\ MayStart
  /\ current < MaxJobs
  /\ current' = current + 1
  /\ job' = [job EXCEPT ![current'] = [NoJob EXCEPT !.state = "waiting",
                                         !.delayed = delayed, !.cyclic = cyclic]]
  /\ task' = [task EXCEPT ![current'] = [NoTask EXCEPT !.pc = "scheduled"]]
  /\ UNCHANGED <<queued, writable, phase>>

(* Task.cancel(): noted on a task that has not ended. *)
CancelTask == task' = [task EXCEPT ![current].cancelled = @ \/ TaskRuns(current)]

(* POST /api/knx/send/scheduled/cancel, when it finds an active job. *)
Cancel ==
  /\ phase = "serving" /\ ActiveJob
  /\ EarlyCancel \/ task[current].pc # "scheduled"
  /\ CancelTask
  /\ UNCHANGED <<current, job, queued, writable, phase>>

(* shutdown(): cancels the task, if it has not ended, and awaits it. *)
Shutdown ==
  /\ phase = "serving"
  /\ phase' = "stopping"
  /\ IF current # 0 /\ TaskRuns(current) THEN CancelTask ELSE UNCHANGED task
  /\ UNCHANGED <<current, job, queued, writable>>

StopAtOnce ==                                    \* deviation
  /\ phase = "stopping"
  /\ phase' = "stopped" /\ writable' = FALSE
  /\ UNCHANGED <<current, job, task, queued>>

(* The task has ended; the lifespan goes on to knx_shutdown. *)
BusStopped ==
  /\ phase = "stopping"
  /\ current # 0 => ~TaskRuns(current)
  /\ phase' = "stopped" /\ writable' = FALSE
  /\ UNCHANGED <<current, job, task, queued>>

(* The bus connection comes and goes. *)
BusChange ==
  /\ phase # "stopped"
  /\ writable' = ~writable
  /\ UNCHANGED <<current, job, task, queued, phase>>
-----------------------------------------------------------------------------
FinishKeepsNextSend(j, rec, state) ==            \* deviation
  /\ job' = [job EXCEPT ![j] = [rec EXCEPT !.state = state]]
  /\ task' = [task EXCEPT ![j].pc = "over"]

FinishReopens(j, rec, state) ==                  \* deviation
  /\ job' = [job EXCEPT ![j] = [rec EXCEPT !.state = state, !.nextSend = FALSE]]
  /\ task' = [task EXCEPT ![j].pc = IF rec.delayed THEN "delay" ELSE "over",
                          ![j].elapsed = FALSE]

(* The task of job j ends with the job in the given state (the finally). *)
Finish(j, rec, state) ==
  /\ job' = [job EXCEPT ![j] = [rec EXCEPT !.state = state, !.nextSend = FALSE]]
  /\ task' = [task EXCEPT ![j].pc = "over"]

AlwaysRepeats(j, rec) ==                         \* deviation
  /\ job' = [job EXCEPT ![j] = [rec EXCEPT !.nextSend = TRUE]]
  /\ task' = [task EXCEPT ![j].pc = "interval", ![j].elapsed = FALSE]

(* After a send or a skip: a one-shot job is done, a cyclic one sleeps. *)
AfterAttempt(j, rec) ==
  IF ~rec.cyclic THEN Finish(j, rec, "done")
  ELSE /\ job' = [job EXCEPT ![j] = [rec EXCEPT !.nextSend = TRUE]]
       /\ task' = [task EXCEPT ![j].pc = "interval", ![j].elapsed = FALSE]

SendUncounted(j) ==                              \* deviation
  /\ job[j].done + job[j].skipped < MaxSends
  /\ LET running == [job[j] EXCEPT !.state = "running", !.nextSend = FALSE] IN
       /\ writable
       /\ queued' = [queued EXCEPT ![j] = @ + 1]
       /\ AfterAttempt(j, running)

(* One turn of the loop of _run_job: the attempt is skipped while the bus is
   not writable; a send that raises ends the job as failed. *)
SendOnce(j) ==
  /\ job[j].done + job[j].skipped < MaxSends
  /\ LET running == [job[j] EXCEPT !.state = "running", !.nextSend = FALSE] IN
       \/ /\ ~writable
          /\ AfterAttempt(j, [running EXCEPT !.skipped = @ + 1])
          /\ UNCHANGED queued
       \/ /\ writable
          /\ queued' = [queued EXCEPT ![j] = @ + 1]
          /\ AfterAttempt(j, [running EXCEPT !.done = @ + 1])
       \/ /\ writable
          /\ Finish(j, running, "failed")
          /\ UNCHANGED queued

(* The first step of the task.  A task cancelled before it ends without
   running a line of _run_job: the job record is left as it is. *)
FirstStep(j) ==
  /\ task[j].pc = "scheduled"
  /\ \/ /\ task[j].cancelled
        /\ task' = [task EXCEPT ![j].pc = "over"]
        /\ UNCHANGED <<job, queued>>
     \/ /\ ~task[j].cancelled /\ job[j].delayed
        /\ job' = [job EXCEPT ![j].nextSend = TRUE]
        /\ task' = [task EXCEPT ![j].pc = "delay"]
        /\ UNCHANGED queued
     \/ /\ ~task[j].cancelled /\ ~job[j].delayed
        /\ SendOnce(j)
  /\ UNCHANGED <<current, writable, phase>>

SleepElapses(j) ==
  /\ task[j].pc \in {"delay", "interval"} /\ ~task[j].elapsed
  /\ task' = [task EXCEPT ![j].elapsed = TRUE]
  /\ UNCHANGED <<current, job, queued, writable, phase>>

ResumeRegardless(j) ==                           \* deviation
  /\ task[j].pc \in {"delay", "interval"} /\ task[j].elapsed
  /\ SendOnce(j)
  /\ UNCHANGED <<current, writable, phase>>

(* The task runs on from a sleep.  A cancellation wins over a sleep that has
   elapsed in the meantime. *)
Resume(j) ==
  /\ task[j].pc \in {"delay", "interval"}
  /\ \/ /\ task[j].cancelled
        /\ Finish(j, job[j], "cancelled")
        /\ UNCHANGED queued
     \/ /\ ~task[j].cancelled /\ task[j].elapsed
        /\ SendOnce(j)
  /\ UNCHANGED <<current, writable, phase>>

TaskStep(j) == FirstStep(j) \/ Resume(j)

Next ==
  \/ \E delayed, cyclic \in BOOLEAN : Start(delayed, cyclic)
  \/ Cancel \/ Shutdown \/ BusStopped \/ BusChange
  \/ \E j \in JobId : TaskStep(j) \/ SleepElapses(j)

(* The event loop runs ready tasks and timers, and the lifespan proceeds. *)
Fairness ==
  /\ \A j \in JobId : WF_vars(TaskStep(j)) /\ WF_vars(SleepElapses(j))
  /\ WF_vars(BusStopped)

Spec == Init /\ [][Next]_vars /\ Fairness
-----------------------------------------------------------------------------
Job ==
  [state : {"none"} \cup Active \cup Finished, delayed : BOOLEAN, cyclic : BOOLEAN,
   done : Nat, skipped : Nat, nextSend : BOOLEAN]
Task ==
  [pc : {"none", "scheduled", "delay", "interval", "over"},
   elapsed : BOOLEAN, cancelled : BOOLEAN]

Types ==
  /\ current \in 0 .. MaxJobs
  /\ job \in [JobId -> Job]
  /\ task \in [JobId -> Task]
  /\ queued \in [JobId -> Nat]
  /\ writable \in BOOLEAN
  /\ phase \in {"serving", "stopping", "stopped"}

SendIsAnnounced(j) == job[j].nextSend => task[j].pc \in {"delay", "interval"}

(* Every variable has its type, and next_send_at is set only while the task
   sleeps towards that send. *)
TypeOK == Types /\ \A j \in JobId : SendIsAnnounced(j)

(* "A single job at a time": no two tasks are ever alive together, whatever
   the order of starts, cancels, failures and the tasks' own steps, although
   start_send only looks at the job record and never at the task. *)
OneTaskAtATime == \A i, j \in JobId : TaskRuns(i) /\ TaskRuns(j) => i = j

(* What the status endpoint reports as sent is what was put into the send
   queue: no telegram leaves uncounted, even around cancel and failure. *)
SentIsCounted == \A j \in JobId : queued[j] = job[j].done

(* Once a cancel has been accepted (cancel_send returned True) the job sends
   nothing more, even if its sleep had already elapsed. *)
NoSendAfterCancel ==
  [][\A j \in JobId : task[j].cancelled => queued'[j] = queued[j]]_vars

(* A finished job's record is history: no late step of its task changes it. *)
FinishedIsFinal ==
  [][\A j \in JobId : job[j].state \in Finished => job'[j] = job[j]]_vars

(* Nothing sends once the lifespan has gone on to stop the bus connection. *)
QuietAfterShutdown == phase = "stopped" => \A j \in JobId : ~TaskRuns(j)

(* A cancel that was accepted takes effect: the job leaves the active states,
   so that another one can be started (unless the application stops first). *)
CancelTakesEffect ==
  \A j \in JobId :
    task[j].cancelled ~> job[j].state \in Finished \/ phase # "serving"

(* A one-shot job ends, whatever the bus does meanwhile. *)
OneShotEnds ==
  \A j \in JobId :
    job[j].state \in Active /\ ~job[j].cyclic
      ~> job[j].state \in Finished \/ phase # "serving"

(* At every moment one task at most sends, every telegram that leaves is
   counted, and nothing sends after the shutdown (cyclic_send.py). *)
JobsAreSound == TypeOK /\ OneTaskAtATime /\ SentIsCounted /\ QuietAfterShutdown

(* What was cancelled sends no more, and what is over stays as it ended,
   whichever step of the task comes late (cyclic_send.py:113-211). *)
EndedIsOver == NoSendAfterCancel /\ FinishedIsFinal
=============================================================================
