------------------------ MODULE BusConnectionProofs ------------------------
(***************************************************************************)
(* Machine-checked proofs about BusConnection, for any number of keyrings, *)
(* failures, instances and tasks.                                          *)
(*                                                                         *)
(* What a client is told depends on what was broadcast before (Heard), and *)
(* what the bus is used with on when the instance was made (Credentials).  *)
(* That somebody is always connecting needs a witness that no other task   *)
(* can take its instance from (Tried); that nobody else is, that every     *)
(* reconnect waits for the task it replaces (Single); and a quiet end, that *)
(* the shutdown waits for the one that is left (Ending).                   *)
(*                                                                         *)
(* The last section proves the login in front of that bus, Auth, for any   *)
(* number of users, passwords and tokens: a switch that is on has an       *)
(* account behind it (Manned), and a session the account it was opened for.*)
(***************************************************************************)
EXTENDS BusConnection, TLAPS

States == {"none", "idle", "starting", "connected", "lost", "failed"}
Instances == [state : States, keys : Version]
Tasks == [pc : {"scheduled", "starting", "stopping", "sleeping", "over"}, on : 0 .. MaxLive, cancelled : BOOLEAN]
Activations == [pc : {"idle", "joining", "stopping"}, join : 0 .. MaxLive, old : 0 .. MaxLive]
Shown == {"none", "connecting", "connected", "disconnected"}
Logs == [connected : BOOLEAN, outage : BOOLEAN, last : Shown]
Watches == [pc : {"asleep", "over"}, seen : 0 .. MaxKeys, reading : 0 .. MaxKeys]

Types ==
  /\ env \in SUBSET Habits
  /\ xknx \in [Object -> Instances] /\ instance \in Object
  /\ retry \in [Object -> Tasks] /\ connectTask \in Object
  /\ act \in [Caller -> Activations]
  /\ keys \in Version /\ upload \in {"none", "saving", "saved"} /\ watch \in Watches
  /\ log \in Logs /\ told \in Shown /\ fails \in 0 .. MaxFails
  /\ phase \in {"running", "joinConnect", "joinWatch", "stopBus", "stopped"} /\ shutJoin \in 0 .. MaxLive

(* An ended task leaves nothing behind, one at work knows its instance, and a
   reconnect what it waits for. *)
Refers ==
  /\ \A t \in Object : ~Alive(t) => retry[t] = NoTask
  /\ \A t \in Object : retry[t].pc \in {"starting", "stopping"} => retry[t].on # 0
  /\ \A r \in Caller : act[r].pc = "stopping" => act[r].old # 0
  /\ \A r \in Caller : act[r].pc = "joining" => act[r].join # 0

(* What was broadcast last is what the clients show. *)
Heard ==
  /\ log.outage => log.last = "disconnected"
  /\ log.last # "none" => told = log.last

(* The instance in use has the credentials that are on disk, or the upload or
   the watcher still has to reconnect. *)
Credentials ==
  /\ watch.seen <= keys.file /\ watch.reading <= keys.file
  /\ phase # "stopped" => xknx[instance].keys = keys \/ upload = "saved" \/ watch.seen < keys.file

(* An upload that reconnects has saved, and none outlasts the server. *)
Uploading ==
  /\ act["upload"].pc # "idle" => upload = "saved"
  /\ phase # "running" => upload = "none"

(* A task that will start, or is starting, the instance in use. *)
Trying(t) == Alive(t) /\ ~retry[t].cancelled /\ (retry[t].pc = "starting" => retry[t].on = instance)
InUse == xknx[instance].state \in {"connected", "lost"}
Tried == phase = "running" /\ ~Reconnecting => InUse \/ \E t \in Object : Trying(t)

(* One reconnect at a time waits for the one task, which works on the instance
   in use, and nothing else is alive. *)
Single ==
  "overlap" \notin env =>
    /\ \A r, s \in Caller : act[r].pc # "idle" /\ act[s].pc # "idle" => r = s
    /\ \A t \in Object : Alive(t) => t = connectTask
    /\ \A t \in Object : retry[t].pc \in {"starting", "stopping"} => retry[t].on = instance
    /\ \A r \in Caller :
         /\ act[r].pc = "joining" => act[r].join = connectTask
         /\ act[r].pc = "stopping" => act[r].old = instance /\ ~Alive(connectTask)
    /\ \A i \in Object : Live(i) => i = instance
    /\ Alive(connectTask) => ~InUse
    /\ told = "connected" => xknx[instance].state = "connected"

(* The shutdown waits for the task there is; then nothing begins any more. *)
Ending ==
  env = {} =>
    /\ phase = "joinConnect" => shutJoin = connectTask
    /\ phase \in {"joinWatch", "stopBus", "stopped"} =>
         ~Alive(connectTask) /\ watch.pc = "over" /\ \A r \in Caller : act[r].pc = "idle"
    /\ phase = "stopped" => \A i \in Object : ~Live(i)

IInv == Types /\ Refers /\ Heard /\ Credentials /\ Uploading /\ Tried /\ Single /\ Ending
-----------------------------------------------------------------------------
LEMMA FreshIs ==
  /\ FreeInstances # {} =>
       /\ FreshInstance \in Object /\ FreshInstance # instance /\ xknx[FreshInstance].state = "none"
       /\ \A t \in Object : retry[t].on # FreshInstance
       /\ \A r \in Caller : act[r].old # FreshInstance
  /\ FreeTasks # {} =>
       /\ FreshTask \in Object /\ ~Alive(FreshTask) /\ FreshTask # connectTask /\ FreshTask # shutJoin
       /\ \A r \in Caller : act[r].join # FreshTask
<1>1. FreeInstances # {} => FreshInstance \in FreeInstances
  BY DEF FreshInstance
<1>2. FreeTasks # {} => FreshTask \in FreeTasks
  BY DEF FreshTask
<1> QED BY <1>1, <1>2 DEF FreeInstances, FreeTasks

LEMMA InitHolds == Init => IInv
<1> SUFFICES ASSUME Init PROVE IInv
  OBVIOUS
<1>1. Types
  BY BoundsAssumption, EnvAssumption DEF Init, Types, Instances, Tasks, Activations, Shown, Logs, Watches, States, Version,
     NewInstance, NoInstance, NewTask, NoTask, Task, Idle, FreshLog, Object, Caller
<1>2. Refers
  BY DEF Init, Refers, NewTask, NoTask, Task, Idle, Object, Caller, Alive
<1>3. Heard /\ Credentials /\ Uploading
  BY BoundsAssumption DEF Init, Heard, Credentials, Uploading, FreshLog, NewInstance, Idle, Caller, Object
<1>4. Tried
  BY BoundsAssumption DEF Init, Tried, Trying, Alive, NewTask, Task, Object
<1>5. Single /\ Ending
  BY BoundsAssumption DEF Init, Single, Ending, Alive, Live, InUse, NewTask, NoTask, Task, NewInstance, NoInstance, Idle, Object, Caller
<1> QED BY <1>1, <1>2, <1>3, <1>4, <1>5 DEF IInv

(* What an event of instance i does to the log and to what is shown. *)
LEMMA EventEffect ==
  ASSUME Types, Heard, NEW i \in Object, NEW s \in {"connecting", "connected", "disconnected"},
         Event(i, instance, log, s)
  PROVE  /\ log' \in Logs /\ told' \in Shown /\ Heard'
         /\ log.outage /\ log'.outage => told' = told
         /\ told' = "connected" => told = "connected" \/ (i = instance /\ s = "connected")
         /\ i = instance /\ s = "disconnected" => told' # "connected"
<1>1. CASE i # instance
  BY <1>1 DEF Event, Types, Heard
<1>2. CASE i = instance
  <2> DEFINE b == Broadcast(log, s)
  <2>1. /\ log' = [Handle(log, s) EXCEPT !.last = b] /\ told' = IF b = log.last THEN told ELSE b
    BY <1>2 DEF Event
  <2>2. log.connected \in BOOLEAN /\ log.outage \in BOOLEAN /\ log.last \in Shown /\ told \in Shown /\ log \in Logs
    BY DEF Types, Logs
  <2>3. b \in Shown \ {"none"} /\ (s # "connecting" => b = s) /\ (s = "connecting" => b = IF log.outage THEN "disconnected" ELSE s)
    BY <2>2 DEF Broadcast, Heard, Shown
  <2>4. Handle(log, s) \in Logs /\ (s = "connecting" => Handle(log, s).outage = log.outage)
        /\ (s = "connected" => ~Handle(log, s).outage)
    BY <2>2 DEF Handle, Logs
  <2> HIDE DEF b
  <2>5. log' \in Logs /\ log'.last = b /\ log'.outage = Handle(log, s).outage
    BY <2>1, <2>3, <2>4 DEF Logs
  <2>6. told' \in Shown /\ told' = b
    BY <2>1, <2>2, <2>3 DEF Heard
  <2> QED BY <1>2, <2>2, <2>3, <2>4, <2>5, <2>6 DEF Heard
<1> QED BY <1>1, <1>2

LEMMA NoEventEffect ==
  ASSUME Types, Heard, told' = told, log' = log \/ log' = FreshLog
  PROVE  log' \in Logs /\ told' \in Shown /\ Heard' /\ (log.outage /\ log'.outage => told' = told)
<1>1. CASE log' = log
  BY <1>1 DEF Types, Heard
<1>2. CASE log' = FreshLog
  <2>1. log' \in Logs /\ log'.outage = FALSE /\ log'.last = "none"
    BY <1>2 DEF FreshLog, Logs, Shown
  <2> QED BY <2>1 DEF Types, Heard
<1> QED BY <1>1, <1>2

(* What is shown after a stop of instance i is not that it is connected. *)
LEMMA StopEventEffect ==
  ASSUME Types, Heard, NEW i \in Object, StopEvent(i, log)
  PROVE  /\ log' \in Logs /\ told' \in Shown /\ Heard'
         /\ log.outage /\ log'.outage => told' = told
         /\ told' = "connected" => told = "connected"
         /\ i = instance /\ xknx[i].state = "connected" => told' # "connected"
<1>1. CASE xknx[i].state \in {"starting", "connected"}
  BY <1>1, EventEffect DEF StopEvent
<1>2. CASE xknx[i].state \notin {"starting", "connected"}
  BY <1>2, NoEventEffect DEF StopEvent
<1> QED BY <1>1, <1>2

(* Whether a task is made or cancelled, it is a task. *)
LEMMA TaskTypes ==
  /\ NoTask \in Tasks /\ NewTask \in Tasks
  /\ \A p \in {"starting", "stopping", "sleeping"}, i \in 0 .. MaxLive :
       Task(p, i) \in Tasks /\ Task(p, i).pc = p /\ Task(p, i).on = i /\ ~Task(p, i).cancelled
BY BoundsAssumption DEF Tasks, NoTask, NewTask, Task

LEMMA CancelledTask ==
  ASSUME NEW x \in Tasks, NEW y, y = [x EXCEPT !.cancelled = TRUE]
  PROVE  y \in Tasks /\ y.pc = x.pc /\ y.on = x.on /\ y.cancelled
BY DEF Tasks

LEMMA TurnKeeps ==
  ASSUME IInv, NEW t \in Object, Turn(t)
  PROVE  IInv'
<1> USE DEF IInv
<1>1. /\ retry[t].pc \in {"scheduled", "sleeping"} /\ ~retry[t].cancelled /\ instance \in Object
      /\ retry' = [retry EXCEPT ![t] = Task("starting", instance)]
      /\ xknx' = [xknx EXCEPT ![instance].state = "starting"]
      /\ UNCHANGED <<env, instance, connectTask, act, watch, fails, keys, upload, phase, shutJoin>>
  BY DEF Turn, BeginStart, disk, life, Types
<1>2. /\ log' \in Logs /\ told' \in Shown /\ Heard'
      /\ told' = "connected" => told = "connected"
  <2>1. CASE Event(instance, instance, log, "connecting")
    BY <2>1, <1>1, EventEffect
  <2>2. CASE UNCHANGED report
    BY <2>2, NoEventEffect DEF report
  <2> QED BY <2>1, <2>2 DEF Turn, BeginStart, NoEvent
<1>3. /\ retry' \in [Object -> Tasks] /\ retry'[t].pc = "starting" /\ retry'[t].on = instance /\ ~retry'[t].cancelled
      /\ \A u \in Object \ {t} : retry'[u] = retry[u]
  BY <1>1, TaskTypes, BoundsAssumption DEF Types, Object
<1>4. /\ xknx' \in [Object -> Instances] /\ xknx'[instance].state = "starting" /\ xknx'[instance].keys = xknx[instance].keys
      /\ \A i \in Object \ {instance} : xknx'[i] = xknx[i]
  BY <1>1 DEF Types, Instances, States
<1>5. Types'
  BY <1>1, <1>2, <1>3, <1>4 DEF Types, Version, Instances, Tasks, Activations, Watches
<1>6. Refers'
  BY <1>1, <1>3 DEF Refers, Alive, Types, Object
<1>7. Credentials' /\ Uploading'
  BY <1>1, <1>4 DEF Credentials, Uploading
<1>8. Tried'
  BY <1>1, <1>3 DEF Tried, Trying, Alive
<1>9. Single'
  BY <1>1, <1>2, <1>3, <1>4 DEF Single, Alive, Live, InUse
<1>10. Ending'
  BY <1>1, <1>3, <1>4 DEF Ending, Single, Alive, Live
<1> QED BY <1>2, <1>5, <1>6, <1>7, <1>8, <1>9, <1>10

LEMMA StartSucceedsKeeps ==
  ASSUME IInv, NEW t \in Object, StartSucceeds(t)
  PROVE  IInv'
<1> USE DEF IInv
<1> DEFINE i == retry[t].on
<1>1. /\ retry[t].pc = "starting" /\ ~retry[t].cancelled /\ xknx[i].state = "starting"
      /\ xknx' = [xknx EXCEPT ![i].state = "connected"] /\ retry' = [retry EXCEPT ![t] = NoTask]
      /\ Event(i, instance, log, "connected")
      /\ UNCHANGED <<env, instance, connectTask, act, watch, fails, keys, upload, phase, shutJoin>>
  BY DEF StartSucceeds, Ended, disk, life
<1>2. i \in Object
  BY <1>1, BoundsAssumption DEF Types, Refers, Tasks, Object
<1>3. /\ log' \in Logs /\ told' \in Shown /\ Heard'
      /\ told' = "connected" => told = "connected" \/ i = instance
  BY <1>1, <1>2, EventEffect
<1> HIDE DEF i
<1>4. /\ retry' \in [Object -> Tasks] /\ retry'[t] = NoTask /\ NoTask.pc = "over"
      /\ \A u \in Object \ {t} : retry'[u] = retry[u]
  BY <1>1, TaskTypes DEF Types, NoTask, Task
<1>5. /\ xknx' \in [Object -> Instances] /\ xknx'[i].state = "connected" /\ xknx'[i].keys = xknx[i].keys
      /\ \A j \in Object \ {i} : xknx'[j] = xknx[j]
  BY <1>1, <1>2 DEF Types, Instances, States
<1>6. Types'
  BY <1>1, <1>3, <1>4, <1>5 DEF Types, Version, Instances, Tasks, Activations, Watches
<1>7. Refers'
  BY <1>1, <1>4 DEF Refers, Alive, NoTask, Task
<1>8. Credentials' /\ Uploading'
  BY <1>1, <1>5 DEF Credentials, Uploading, Types
<1>9. Tried'
  <2> SUFFICES ASSUME phase = "running", ~Reconnecting, ~(InUse') PROVE \E u \in Object : Trying(u)'
    BY <1>1 DEF Tried, Reconnecting
  <2>1. i # instance /\ ~InUse
    BY <1>1, <1>2, <1>5 DEF InUse, Types
  <2>2. PICK u \in Object : Trying(u)
    BY <2>1 DEF Tried
  <2>3. u # t
    BY <1>1, <2>1, <2>2 DEF Trying, i
  <2> QED BY <1>1, <1>4, <2>2, <2>3 DEF Trying, Alive
<1>10. Single'
  <2> SUFFICES ASSUME "overlap" \notin env PROVE Single'
    BY <1>1 DEF Single
  <2>1. i = instance /\ t = connectTask
    BY <1>1 DEF Single, Alive, i
  <2> QED BY <1>1, <1>2, <1>3, <1>4, <1>5, <2>1 DEF Single, Alive, Live, InUse, Types
<1>11. Ending'
  BY <1>1, <1>4, <1>5 DEF Ending, Single, Alive, Live, Habits
<1> QED BY <1>3, <1>6, <1>7, <1>8, <1>9, <1>10, <1>11

LEMMA StartFailsKeeps ==
  ASSUME IInv, NEW t \in Object, StartFails(t)
  PROVE  IInv'
<1> USE DEF IInv
<1> DEFINE i == retry[t].on
<1>1. /\ retry[t].pc = "starting" /\ ~retry[t].cancelled /\ xknx[i].state = "starting"
      /\ xknx' = [xknx EXCEPT ![i].state = "failed"] /\ retry' = [retry EXCEPT ![t] = Task("stopping", instance)]
      /\ Event(i, instance, log, "disconnected") /\ fails < MaxFails /\ fails' = fails + 1
      /\ UNCHANGED <<env, instance, connectTask, act, watch, keys, upload, phase, shutJoin>>
  BY DEF StartFails, disk, life
<1>2. i \in Object /\ fails' \in 0 .. MaxFails
  BY <1>1, BoundsAssumption DEF Types, Refers, Tasks, Object
<1>3. /\ log' \in Logs /\ told' \in Shown /\ Heard'
      /\ told' = "connected" => told = "connected"
  BY <1>1, <1>2, EventEffect
<1> HIDE DEF i
<1>4. /\ retry' \in [Object -> Tasks] /\ retry'[t].pc = "stopping" /\ retry'[t].on = instance /\ ~retry'[t].cancelled
      /\ \A u \in Object \ {t} : retry'[u] = retry[u]
  BY <1>1, TaskTypes, BoundsAssumption DEF Types, Object
<1>5. /\ xknx' \in [Object -> Instances] /\ xknx'[i].state = "failed" /\ xknx'[i].keys = xknx[i].keys
      /\ \A j \in Object \ {i} : xknx'[j] = xknx[j]
  BY <1>1, <1>2 DEF Types, Instances, States
<1>6. Types'
  BY <1>1, <1>2, <1>3, <1>4, <1>5 DEF Types, Version, Instances, Tasks, Activations, Watches
<1>7. Refers'
  BY <1>1, <1>4 DEF Refers, Alive, Types, Object
<1>8. Credentials' /\ Uploading'
  BY <1>1, <1>5 DEF Credentials, Uploading, Types
<1>9. Tried'
  BY <1>1, <1>4 DEF Tried, Trying, Alive
<1>10. Single'
  <2> SUFFICES ASSUME "overlap" \notin env PROVE Single'
    BY <1>1 DEF Single
  <2>1. i = instance /\ t = connectTask
    BY <1>1 DEF Single, Alive, i
  <2> QED BY <1>1, <1>2, <1>3, <1>4, <1>5, <2>1 DEF Single, Alive, Live, InUse, Types
<1>11. Ending'
  BY <1>1, <1>4, <1>5 DEF Ending, Single, Alive, Live, Habits
<1> QED BY <1>3, <1>6, <1>7, <1>8, <1>9, <1>10, <1>11

LEMMA ReplaceKeeps ==
  ASSUME IInv, NEW t \in Object, Replace(t)
  PROVE  IInv'
<1> USE DEF IInv
<1> DEFINE i == retry[t].on
<1>1. /\ retry[t].pc = "stopping" /\ ~retry[t].cancelled /\ FreeInstances # {} /\ StopEvent(i, log)
      /\ instance' = FreshInstance /\ retry' = [retry EXCEPT ![t] = Task("sleeping", 0)]
      /\ xknx' = [xknx EXCEPT ![i] = NoInstance, ![instance'] = NewInstance]
      /\ UNCHANGED <<env, connectTask, act, watch, fails, keys, upload, phase, shutJoin>>
  BY DEF Replace, AfterFailure, disk, life
<1>2. i \in Object
  BY <1>1, BoundsAssumption DEF Types, Refers, Tasks, Object
<1>3. /\ log' \in Logs /\ told' \in Shown /\ Heard'
      /\ told' = "connected" => told = "connected"
  BY <1>1, <1>2, StopEventEffect
<1>a. /\ instance' \in Object /\ instance' # instance /\ instance' # i
      /\ \A u \in Object : retry[u].on # instance'
  BY <1>1, FreshIs
<1> HIDE DEF i
<1>4. /\ retry' \in [Object -> Tasks] /\ retry'[t].pc = "sleeping" /\ ~retry'[t].cancelled
      /\ \A u \in Object \ {t} : retry'[u] = retry[u]
  BY <1>1, TaskTypes, BoundsAssumption DEF Types
<1>5. /\ xknx' \in [Object -> Instances] /\ xknx'[i].state = "none"
      /\ xknx'[instance'].state = "idle" /\ xknx'[instance'].keys = keys
      /\ \A j \in Object \ {i, instance'} : xknx'[j] = xknx[j]
  <2>1. NoInstance \in Instances /\ NewInstance \in Instances /\ NoInstance.state = "none" /\ NewInstance.state = "idle"
        /\ NewInstance.keys = keys
    BY BoundsAssumption DEF NoInstance, NewInstance, Instances, States, Version, Types
  <2> QED BY <1>1, <1>2, <1>a, <2>1 DEF Types
<1>6. Types'
  BY <1>1, <1>3, <1>4, <1>5, <1>a DEF Types, Version, Instances, Tasks, Activations, Watches
<1>7. Refers'
  BY <1>1, <1>4 DEF Refers, Alive
<1>8. Credentials' /\ Uploading'
  BY <1>1, <1>5 DEF Credentials, Uploading
<1>9. Tried'
  BY <1>1, <1>4 DEF Tried, Trying, Alive
<1>10. Single'
  <2> SUFFICES ASSUME "overlap" \notin env PROVE Single'
    BY <1>1 DEF Single
  <2>1. i = instance /\ t = connectTask
    BY <1>1 DEF Single, Alive, i
  <2>2. told # "connected"
    BY <1>1, <2>1 DEF Single, InUse, Alive
  <2> QED BY <1>1, <1>2, <1>3, <1>4, <1>5, <1>a, <2>1, <2>2 DEF Single, Alive, Live, InUse, Types
<1>11. Ending'
  BY <1>1, <1>4, <1>5 DEF Ending, Single, Alive, Live, Habits
<1> QED BY <1>3, <1>6, <1>7, <1>8, <1>9, <1>10, <1>11

LEMMA UnwindKeeps ==
  ASSUME IInv, NEW t \in Object, Unwind(t)
  PROVE  IInv'
<1> USE DEF IInv
<1>1. /\ Alive(t) /\ retry[t].cancelled /\ retry' = [retry EXCEPT ![t] = NoTask]
      /\ UNCHANGED <<env, xknx, instance, connectTask, act, watch, log, told, fails, keys, upload, phase, shutJoin>>
  BY DEF Unwind, Ended, bus, report, disk, life
<1>2. /\ retry' \in [Object -> Tasks] /\ retry'[t] = NoTask /\ NoTask.pc = "over"
      /\ \A u \in Object \ {t} : retry'[u] = retry[u]
  BY <1>1, TaskTypes DEF Types, NoTask, Task
<1>3. Types' /\ Heard' /\ Credentials' /\ Uploading'
  BY <1>1, <1>2 DEF Types, Version, Instances, Tasks, Activations, Watches, Heard, Credentials, Uploading
<1>4. Refers'
  BY <1>1, <1>2 DEF Refers, Alive, NoTask, Task
<1>5. Tried'
  BY <1>1, <1>2 DEF Tried, Trying, Alive, InUse, Reconnecting
<1>6. Single'
  BY <1>1, <1>2 DEF Single, Alive, Live, InUse
<1>7. Ending'
  BY <1>1, <1>2 DEF Ending, Alive, Live
<1> QED BY <1>3, <1>4, <1>5, <1>6, <1>7

LEMMA LinkKeeps ==
  ASSUME IInv, NEW i \in Object, Lose(i) \/ AutoRetry(i) \/ Recover(i)
  PROVE  IInv'
<1> USE DEF IInv
<1>1. /\ UNCHANGED <<env, instance, connectTask, retry, act, watch, keys, upload, phase, shutJoin>>
      /\ xknx[i].state \in {"connected", "lost"}
  BY DEF Lose, AutoRetry, Recover, bus, tasks, disk, life
<1>2. /\ log' \in Logs /\ told' \in Shown /\ Heard' /\ fails' \in 0 .. MaxFails
      /\ xknx' \in [Object -> Instances] /\ xknx'[i].state \in {"connected", "lost"} /\ xknx'[i].keys = xknx[i].keys
      /\ \A j \in Object \ {i} : xknx'[j] = xknx[j]
      /\ told' = "connected" => told = "connected" \/ (i = instance /\ xknx'[i].state = "connected")
      /\ i = instance /\ told' = "connected" => 
           xknx'[i].state = "connected" \/ (xknx[i].state # "connected" /\ told = "connected")
  <2>1. CASE Lose(i)
    <3>1. /\ xknx' = [xknx EXCEPT ![i].state = "lost"] /\ Event(i, instance, log, "disconnected")
          /\ fails < MaxFails /\ fails' = fails + 1
      BY <2>1 DEF Lose
    <3>2. fails' \in 0 .. MaxFails
      BY <3>1, BoundsAssumption DEF Types
    <3>3. /\ xknx' \in [Object -> Instances] /\ xknx'[i].state = "lost" /\ xknx'[i].keys = xknx[i].keys
          /\ \A j \in Object \ {i} : xknx'[j] = xknx[j]
      BY <3>1 DEF Types, Instances, States
    <3> QED BY <3>1, <3>2, <3>3, EventEffect
  <2>2. CASE AutoRetry(i)
    <3>1. xknx' = xknx /\ fails' = fails /\ xknx[i].state = "lost" /\ Event(i, instance, log, "connecting")
      BY <2>2 DEF AutoRetry, bus
    <3>2. /\ log' \in Logs /\ told' \in Shown /\ Heard' /\ (told' = "connected" => told = "connected")
      BY <3>1, EventEffect
    <3> QED BY <3>1, <3>2, EventEffect DEF Types
  <2>3. CASE Recover(i)
    <3>1. /\ xknx' = [xknx EXCEPT ![i].state = "connected"] /\ fails' = fails /\ Event(i, instance, log, "connected")
      BY <2>3 DEF Recover
    <3>2. /\ xknx' \in [Object -> Instances] /\ xknx'[i].state = "connected" /\ xknx'[i].keys = xknx[i].keys
          /\ \A j \in Object \ {i} : xknx'[j] = xknx[j]
      BY <3>1 DEF Types, Instances, States
    <3> QED BY <3>1, <3>2, EventEffect DEF Types
  <2> QED BY <2>1, <2>2, <2>3
<1>3. Types'
  BY <1>1, <1>2 DEF Types, Version, Instances, Tasks, Activations, Watches
<1>4. Refers'
  BY <1>1 DEF Refers, Alive
<1>5. Credentials' /\ Uploading'
  BY <1>1, <1>2 DEF Credentials, Uploading, Types
<1>6. Tried'
  <2>1. InUse => InUse'
    BY <1>1, <1>2 DEF InUse, Types
  <2> QED BY <1>1, <2>1 DEF Tried, Trying, Alive, Reconnecting
<1>7. Single'
  BY <1>1, <1>2 DEF Single, Alive, Live, InUse, Types
<1>8. Ending'
  BY <1>1, <1>2 DEF Ending, Alive, Live
<1> QED BY <1>2, <1>3, <1>4, <1>5, <1>6, <1>7, <1>8

(* A reconnect begins by waiting for the task or for the instance. *)
LEMMA ReconnectEffect ==
  ASSUME IInv, NEW r \in Caller, Reconnect(r), act[r].pc = "idle", MayReconnect,
         UNCHANGED <<env, xknx, instance, connectTask, told, fails, keys, upload, phase, shutJoin>>,
         r = "upload" => upload = "saved",
         phase \in {"joinWatch", "stopBus", "stopped"} => env # {},
         watch' \in Watches, watch'.pc = watch.pc, watch'.seen = watch.seen, watch'.reading <= keys.file
  PROVE  IInv'
<1> USE DEF IInv
<1> DEFINE waits == [pc |-> "joining", join |-> connectTask, old |-> 0]
           stops == [pc |-> "stopping", join |-> 0, old |-> instance]
<1>1. connectTask \in Object /\ instance \in Object /\ connectTask # 0 /\ instance # 0 /\ waits \in Activations /\ stops \in Activations
  BY BoundsAssumption DEF Types, Activations, Object
<1>2. \/ /\ Alive(connectTask) /\ act' = [act EXCEPT ![r] = waits]
         /\ retry' = [retry EXCEPT ![connectTask].cancelled = TRUE] /\ log' = log
      \/ ~Alive(connectTask) /\ act' = [act EXCEPT ![r] = stops] /\ retry' = retry /\ log' = FreshLog
  BY DEF Reconnect, Cancelled
<1>3. /\ retry' \in [Object -> Tasks]
      /\ \A t \in Object : retry'[t].pc = retry[t].pc /\ retry'[t].on = retry[t].on
      /\ \A t \in Object : ~Alive(t) => retry'[t] = retry[t]
  <2>1. CASE retry' = [retry EXCEPT ![connectTask].cancelled = TRUE] /\ Alive(connectTask)
    <3>1. retry'[connectTask] = [retry[connectTask] EXCEPT !.cancelled = TRUE] /\ retry[connectTask] \in Tasks
      BY <1>1, <2>1 DEF Types
    <3>2. /\ retry'[connectTask] \in Tasks /\ retry'[connectTask].pc = retry[connectTask].pc
          /\ retry'[connectTask].on = retry[connectTask].on
      BY <3>1, CancelledTask
    <3>3. /\ \A t \in Object \ {connectTask} : retry'[t] = retry[t] /\ retry[t] \in Tasks
          /\ DOMAIN retry' = Object
      BY <2>1 DEF Types
    <3>4. retry' \in [Object -> Tasks]
      BY <2>1, <3>2, <3>3
    <3> QED BY <2>1, <3>2, <3>3, <3>4
  <2>2. CASE retry' = retry
    BY <2>2 DEF Types
  <2> QED BY <1>2, <2>1, <2>2
<1>4. /\ act' \in [Caller -> Activations] /\ \A s \in Caller \ {r} : act'[s] = act[s]
      /\ \/ act'[r].pc = "joining" /\ act'[r].join = connectTask /\ Alive(connectTask)
         \/ act'[r].pc = "stopping" /\ act'[r].old = instance /\ ~Alive(connectTask)
  BY <1>1, <1>2 DEF Types
<1>5. log' \in Logs /\ told' \in Shown /\ Heard'
  BY <1>2, NoEventEffect
<1>6. Types'
  BY <1>3, <1>4, <1>5 DEF Types, Version, Instances, Tasks, Activations, Watches
<1>7. Refers'
  <2>1. \A t \in Object : ~(Alive(t)') => retry'[t] = NoTask'
    BY <1>3 DEF Refers, Alive, NoTask, Task
  <2> QED BY <1>1, <1>3, <1>4, <2>1 DEF Refers
<1>8. Credentials' /\ Uploading'
  BY <1>4 DEF Credentials, Uploading, Caller
<1>9. Tried'
  BY <1>4 DEF Tried, Reconnecting
<1>10. Single'
  <2> SUFFICES ASSUME "overlap" \notin env PROVE Single'
    BY DEF Single
  <2>1. \A s \in Caller : act[s].pc = "idle"
    BY DEF MayReconnect, Reconnecting
  <2> QED BY <1>1, <1>3, <1>4, <2>1 DEF Single, Alive, Live, InUse
<1>11. Ending'
  BY <1>3 DEF Ending, Alive, Live
<1> QED BY <1>5, <1>6, <1>7, <1>8, <1>9, <1>10, <1>11

LEMMA PollKeeps ==
  ASSUME IInv, Poll
  PROVE  IInv'
<1>1. /\ watch.pc = "asleep" /\ act["watcher"].pc = "idle" /\ MayReconnect /\ Reconnect("watcher")
      /\ watch' = [watch EXCEPT !.reading = keys.file]
      /\ UNCHANGED <<env, xknx, instance, connectTask, told, fails, keys, upload, phase, shutJoin>>
  BY DEF Poll, bus, disk, life
<1>2. /\ watch' \in Watches /\ watch'.pc = watch.pc /\ watch'.seen = watch.seen /\ watch'.reading = keys.file
  BY <1>1, BoundsAssumption DEF IInv, Types, Watches, Version
<1>3. phase \in {"joinWatch", "stopBus", "stopped"} => env # {}
  BY <1>1 DEF IInv, Ending
<1>4. keys.file \in 0 .. MaxKeys
  BY DEF IInv, Types, Version
<1> QED BY <1>1, <1>2, <1>3, <1>4, BoundsAssumption, ReconnectEffect DEF Caller

LEMMA UploadReconnectsKeeps ==
  ASSUME IInv, UploadReconnects
  PROVE  IInv'
<1>1. /\ upload = "saved" /\ act["upload"].pc = "idle" /\ MayReconnect /\ Reconnect("upload")
      /\ UNCHANGED <<env, xknx, instance, connectTask, watch, told, fails, keys, upload, phase, shutJoin>>
  BY DEF UploadReconnects, bus, disk, life
<1>2. /\ watch' \in Watches /\ watch'.pc = watch.pc /\ watch'.seen = watch.seen /\ watch'.reading <= keys.file
  BY <1>1 DEF IInv, Types, Credentials
<1>3. phase = "running"
  BY <1>1 DEF IInv, Uploading
<1> QED BY <1>1, <1>2, <1>3, ReconnectEffect DEF Caller

LEMMA JoinedKeeps ==
  ASSUME IInv, NEW r \in Caller, Joined(r)
  PROVE  IInv'
<1> USE DEF IInv
<1>1. /\ act[r].pc = "joining" /\ ~Alive(act[r].join) /\ log' = FreshLog
      /\ act' = [act EXCEPT ![r] = [pc |-> "stopping", join |-> 0, old |-> instance]]
      /\ UNCHANGED <<env, xknx, instance, connectTask, retry, watch, told, fails, keys, upload, phase, shutJoin>>
  BY DEF Joined, bus, tasks, disk, life
<1>2. log' \in Logs /\ told' \in Shown /\ Heard'
  BY <1>1, NoEventEffect
<1>3. /\ act' \in [Caller -> Activations] /\ \A s \in Caller \ {r} : act'[s] = act[s]
      /\ act'[r].pc = "stopping" /\ act'[r].old = instance /\ instance # 0
  BY <1>1, BoundsAssumption DEF Types, Activations, Object
<1>4. Types'
  BY <1>1, <1>2, <1>3 DEF Types, Version, Instances, Tasks, Activations, Watches
<1>5. Refers'
  BY <1>1, <1>3 DEF Refers, Alive
<1>6. Credentials' /\ Uploading'
  BY <1>1, <1>3 DEF Credentials, Uploading, Caller
<1>7. Tried'
  BY <1>3 DEF Tried, Reconnecting
<1>8. Single'
  BY <1>1, <1>3 DEF Single, Alive, Live, InUse
<1>9. Ending'
  BY <1>1, <1>3 DEF Ending, Alive, Live
<1> QED BY <1>2, <1>4, <1>5, <1>6, <1>7, <1>8, <1>9

LEMMA ReconnectedKeeps ==
  ASSUME IInv, NEW r \in Caller, Reconnected(r)
  PROVE  IInv'
<1> USE DEF IInv
<1> DEFINE i == act[r].old
           t == connectTask'
<1>1. /\ act[r].pc = "stopping" /\ FreeInstances # {} /\ FreeTasks # {} /\ StopEvent(i, log)
      /\ ConnectJoined => "tightShutdown" \in env
      /\ instance' = FreshInstance /\ xknx' = [xknx EXCEPT ![i] = NoInstance, ![instance'] = NewInstance]
      /\ t = FreshTask /\ retry' = [retry EXCEPT ![t] = NewTask] /\ act' = [act EXCEPT ![r] = Idle]
      /\ upload' = IF r = "upload" THEN "none" ELSE upload
      /\ watch' = IF r = "watcher" THEN [watch EXCEPT !.seen = watch.reading] ELSE watch
      /\ UNCHANGED <<env, keys, fails, phase, shutJoin>>
  BY DEF Reconnected, Seen, life
<1>2. i \in Object
  BY <1>1, BoundsAssumption DEF Types, Refers, Activations, Object
<1>3. /\ log' \in Logs /\ told' \in Shown /\ Heard'
      /\ told' = "connected" => told = "connected"
      /\ i = instance /\ xknx[i].state = "connected" => told' # "connected"
  BY <1>1, <1>2, StopEventEffect
<1>4. /\ instance' \in Object /\ instance' # i /\ t \in Object /\ ~Alive(t)
  BY <1>1, FreshIs
<1> HIDE DEF i, t
<1>5. /\ retry' \in [Object -> Tasks] /\ retry'[t] = NewTask
      /\ NewTask.pc = "scheduled" /\ ~NewTask.cancelled
      /\ \A u \in Object \ {t} : retry'[u] = retry[u]
  BY <1>1, <1>4, TaskTypes DEF Types, NewTask, Task
<1>6. /\ xknx' \in [Object -> Instances] /\ xknx'[i].state = "none"
      /\ xknx'[instance'].state = "idle" /\ xknx'[instance'].keys = keys
      /\ \A j \in Object \ {i, instance'} : xknx'[j] = xknx[j]
  <2>1. NoInstance \in Instances /\ NewInstance \in Instances /\ NoInstance.state = "none" /\ NewInstance.state = "idle"
        /\ NewInstance.keys = keys
    BY BoundsAssumption DEF NoInstance, NewInstance, Instances, States, Version, Types
  <2> QED BY <1>1, <1>2, <1>4, <2>1 DEF Types
<1>7. /\ act' \in [Caller -> Activations] /\ act'[r].pc = "idle" /\ \A s \in Caller \ {r} : act'[s] = act[s]
  BY <1>1, BoundsAssumption DEF Types, Activations, Idle
<1>8. /\ watch' \in Watches /\ watch'.pc = watch.pc /\ watch'.reading = watch.reading
      /\ watch'.seen <= keys.file
  <2>1. watch \in Watches /\ watch.reading \in 0 .. MaxKeys /\ watch.reading <= keys.file /\ watch.seen <= keys.file
    BY DEF Types, Watches, Credentials
  <2>2. CASE r = "watcher"
    BY <1>1, <2>1, <2>2 DEF Watches
  <2>3. CASE r # "watcher"
    BY <1>1, <2>1, <2>3
  <2> QED BY <2>2, <2>3
<1>9. upload' \in {"none", "saving", "saved"} /\ (r # "upload" => upload' = upload) /\ (upload = "none" => upload' = "none")
  BY <1>1 DEF Types
<1>10. Types'
  BY <1>1, <1>3, <1>4, <1>5, <1>6, <1>7, <1>8, <1>9 DEF Types, Version, t
<1>11. Refers'
  BY <1>1, <1>5, <1>7 DEF Refers, Alive, NoTask
<1>12. Credentials' /\ Uploading'
  BY <1>1, <1>6, <1>7, <1>8, <1>9 DEF Credentials, Uploading, Caller
<1>13. Tried'
  BY <1>4, <1>5 DEF Tried, Trying, Alive
<1>14. Single'
  <2> SUFFICES ASSUME "overlap" \notin env PROVE Single'
    BY <1>1 DEF Single
  <2>1. /\ i = instance /\ \A u \in Object : ~Alive(u)
        /\ \A s \in Caller : act'[s].pc = "idle"
    BY <1>1, <1>7 DEF Single, i
  <2>2. told' # "connected"
    BY <1>3, <2>1 DEF Single
  <2>3. \A u \in Object : retry'[u].pc \notin {"starting", "stopping"} /\ (Alive(u)' => u = t)
    BY <1>5, <2>1 DEF Alive
  <2> QED BY <1>2, <1>4, <1>6, <2>1, <2>2, <2>3 DEF Single, Live, InUse, t
<1>15. Ending'
  <2> SUFFICES ASSUME env = {}, phase # "running" PROVE FALSE
    BY <1>1 DEF Ending
  <2>1. phase = "joinConnect" /\ shutJoin = connectTask
    BY <1>1 DEF Ending, Types
  <2>2. ~Alive(shutJoin)
    BY <1>1, <2>1 DEF Single
  <2> QED BY <1>1, <2>1, <2>2 DEF ConnectJoined
<1> QED BY <1>3, <1>10, <1>11, <1>12, <1>13, <1>14, <1>15

LEMMA KeysKeep ==
  ASSUME IInv, ReplaceKeys \/ SaveKeys \/ SavePassword
  PROVE  IInv'
<1> USE DEF IInv
<1>1. UNCHANGED <<env, xknx, instance, connectTask, retry, act, watch, log, told, fails, phase, shutJoin>>
  BY DEF ReplaceKeys, SaveKeys, SavePassword, bus, tasks, report, life
<1>2. /\ keys' \in Version /\ upload' \in {"none", "saving", "saved"}
      /\ \/ keys'.file = keys.file + 1 /\ upload = "none" /\ (upload' = "none" \/ phase = "running")
         \/ /\ keys'.file = keys.file /\ upload = "saving"
            /\ upload' = "saved" \/ (upload' = "none" /\ keys' = keys)
  <2>0. keys \in Version /\ keys.file \in 0 .. MaxKeys /\ keys.pwd \in 0 .. MaxKeys
    BY DEF Types, Version
  <2>1. CASE ReplaceKeys
    BY <2>0, <2>1, BoundsAssumption DEF ReplaceKeys, Version
  <2>2. CASE SaveKeys
    BY <2>0, <2>2, BoundsAssumption DEF SaveKeys, Version
  <2>3. CASE SavePassword
    BY <2>0, <2>3 DEF SavePassword, Saved, Version
  <2> QED BY <2>1, <2>2, <2>3
<1>3. Types'
  BY <1>1, <1>2 DEF Types, Version, Instances, Tasks, Activations, Watches
<1>4. Refers' /\ Heard' /\ Tried' /\ Single' /\ Ending'
  BY <1>1 DEF Refers, Heard, Tried, Single, Ending, Alive, Trying, Live, InUse, Reconnecting, NoTask, Task
<1>5. Credentials'
  <2>1. watch.seen \in Nat /\ watch.reading \in Nat /\ keys.file \in Nat
    BY BoundsAssumption DEF Types, Watches, Version
  <2> QED BY <1>1, <1>2, <2>1 DEF Credentials
<1>6. Uploading'
  BY <1>1, <1>2 DEF Uploading
<1> QED BY <1>3, <1>4, <1>5, <1>6

(* The watcher is only interrupted by the shutdown. *)
LEMMA WatchCancelledEffect ==
  ASSUME Types, Refers, WatchCancelled
  PROVE  /\ act' \in [Caller -> Activations] /\ watch' \in Watches
         /\ act'["upload"] = act["upload"] /\ watch'.seen = watch.seen /\ watch'.reading = watch.reading
         /\ \A r \in Caller : act'[r] = act[r] \/ act'[r].pc = "idle"
         /\ act["watcher"].pc # "joining" => watch'.pc = "over" /\ act'["watcher"].pc = "idle"
<1>1. CASE act["watcher"].pc = "joining"
  BY <1>1 DEF WatchCancelled, Types, Caller
<1>2. CASE act["watcher"].pc # "joining"
  BY <1>2, BoundsAssumption DEF WatchCancelled, Types, Caller, Watches, Activations, Idle
<1> QED BY <1>1, <1>2

LEMMA ShutdownKeeps ==
  ASSUME IInv, Shutdown
  PROVE  IInv'
<1> USE DEF IInv
<1>1. /\ phase = "running" /\ upload = "none" /\ ("tightShutdown" \in env \/ ~InWindow)
      /\ UNCHANGED <<env, xknx, instance, connectTask, log, told, fails, keys, upload>>
  BY DEF Shutdown, bus, report, disk
<1>2. connectTask \in Object /\ connectTask \in 0 .. MaxLive
  BY BoundsAssumption DEF Types, Object
<1>3. act["upload"].pc = "idle"
  BY <1>1 DEF Uploading
<1>4. CASE Alive(connectTask) /\ phase' = "joinConnect" /\ shutJoin' = connectTask /\ retry' = Cancelled(connectTask)
           /\ UNCHANGED <<watch, act>>
  <2>1. /\ retry' \in [Object -> Tasks] /\ \A t \in Object : retry'[t].pc = retry[t].pc /\ retry'[t].on = retry[t].on
        /\ \A t \in Object : ~Alive(t) => retry'[t] = retry[t]
    <3>1. retry'[connectTask] = [retry[connectTask] EXCEPT !.cancelled = TRUE] /\ retry[connectTask] \in Tasks
      BY <1>2, <1>4 DEF Types, Cancelled
    <3>2. /\ retry'[connectTask] \in Tasks /\ retry'[connectTask].pc = retry[connectTask].pc
          /\ retry'[connectTask].on = retry[connectTask].on
      BY <3>1, CancelledTask
    <3>3. /\ \A t \in Object \ {connectTask} : retry'[t] = retry[t] /\ retry[t] \in Tasks
          /\ DOMAIN retry' = Object
      BY <1>4 DEF Types, Cancelled
    <3>4. retry' \in [Object -> Tasks]
      BY <1>4, <3>2, <3>3 DEF Cancelled
    <3> QED BY <1>4, <3>2, <3>3, <3>4
  <2>2. Types'
    BY <1>1, <1>2, <1>4, <2>1 DEF Types, Version
  <2>3. \A t \in Object : ~(Alive(t)') => retry'[t] = NoTask'
    BY <2>1 DEF Refers, Alive, NoTask, Task
  <2>4. Refers' /\ Heard' /\ Credentials' /\ Uploading' /\ Tried'
    BY <1>1, <1>4, <2>1, <2>3 DEF Refers, Heard, Credentials, Uploading, Tried
  <2>5. Single'
    BY <1>1, <1>2, <1>4, <2>1 DEF Single, Alive, Live, InUse
  <2>6. Ending'
    BY <1>1, <1>4 DEF Ending
  <2> QED BY <2>2, <2>4, <2>5, <2>6
<1>5. CASE ~Alive(connectTask) /\ phase' = "joinWatch" /\ WatchCancelled /\ UNCHANGED <<retry, shutJoin>>
  <2>1. /\ act' \in [Caller -> Activations] /\ watch' \in Watches
        /\ act'["upload"] = act["upload"] /\ watch'.seen = watch.seen /\ watch'.reading = watch.reading
        /\ \A r \in Caller : act'[r] = act[r] \/ act'[r].pc = "idle"
        /\ act["watcher"].pc # "joining" => watch'.pc = "over" /\ act'["watcher"].pc = "idle"
    BY <1>5, WatchCancelledEffect
  <2>2. Types'
    BY <1>1, <1>5, <2>1 DEF Types, Version
  <2>3. Refers' /\ Heard' /\ Credentials' /\ Uploading' /\ Tried'
    BY <1>1, <1>5, <2>1 DEF Refers, Heard, Credentials, Uploading, Tried, Alive, NoTask, Task
  <2>4. Single'
    BY <1>1, <1>5, <2>1 DEF Single, Alive, Live, InUse
  <2>5. env = {} => act["watcher"].pc # "joining"
    BY <1>1, <1>5 DEF InWindow, Single, Caller
  <2>6. Ending'
    BY <1>1, <1>3, <1>5, <2>1, <2>5 DEF Ending, Alive, Caller
  <2> QED BY <2>2, <2>3, <2>4, <2>6
<1> QED BY <1>4, <1>5 DEF Shutdown, MustJoin

LEMMA CancelWatchKeeps ==
  ASSUME IInv, CancelWatch
  PROVE  IInv'
<1> USE DEF IInv
<1>1. /\ phase = "joinConnect" /\ ~Alive(shutJoin) /\ (InWindow => "tightShutdown" \in env)
      /\ phase' = "joinWatch" /\ WatchCancelled
      /\ UNCHANGED <<env, xknx, instance, connectTask, retry, log, told, fails, keys, upload, shutJoin>>
  BY DEF CancelWatch, ConnectJoined, bus, tasks, report, disk
<1>2. /\ act' \in [Caller -> Activations] /\ watch' \in Watches
      /\ act'["upload"] = act["upload"] /\ watch'.seen = watch.seen /\ watch'.reading = watch.reading
      /\ \A r \in Caller : act'[r] = act[r] \/ act'[r].pc = "idle"
      /\ act["watcher"].pc # "joining" => watch'.pc = "over" /\ act'["watcher"].pc = "idle"
  BY <1>1, WatchCancelledEffect
<1>3. act["upload"].pc = "idle"
  BY <1>1 DEF Uploading
<1>4. Types'
  BY <1>1, <1>2 DEF Types, Version
<1>5. Refers' /\ Heard' /\ Credentials' /\ Uploading' /\ Tried'
  BY <1>1, <1>2 DEF Refers, Heard, Credentials, Uploading, Tried, Alive, NoTask, Task
<1>6. Single'
  BY <1>1, <1>2 DEF Single, Alive, Live, InUse
<1>7. Ending'
  <2>1. env = {} => ~Alive(connectTask) /\ act["watcher"].pc # "joining"
    BY <1>1 DEF Ending, InWindow, Single, Caller
  <2> QED BY <1>1, <1>2, <1>3, <2>1 DEF Ending, Alive, Caller
<1> QED BY <1>4, <1>5, <1>6, <1>7

LEMMA StopBusKeeps ==
  ASSUME IInv, StopBus
  PROVE  IInv'
<1> USE DEF IInv
<1>1. /\ phase = "joinWatch" /\ phase' = "stopBus" /\ log' = FreshLog
      /\ UNCHANGED <<env, xknx, instance, connectTask, retry, act, watch, told, fails, keys, upload, shutJoin>>
  BY DEF StopBus, bus, tasks, disk
<1>2. log' \in Logs /\ told' \in Shown /\ Heard'
  BY <1>1, NoEventEffect
<1>3. Types'
  BY <1>1, <1>2 DEF Types, Version
<1>4. Refers' /\ Credentials' /\ Uploading' /\ Tried'
  BY <1>1 DEF Refers, Credentials, Uploading, Tried, Alive, NoTask, Task
<1>5. Single' /\ Ending'
  BY <1>1 DEF Single, Ending, Alive, Live, InUse
<1> QED BY <1>2, <1>3, <1>4, <1>5

LEMMA BusStoppedKeeps ==
  ASSUME IInv, BusStopped
  PROVE  IInv'
<1> USE DEF IInv
<1>1. /\ phase = "stopBus" /\ phase' = "stopped" /\ StopEvent(instance, log)
      /\ xknx' = [xknx EXCEPT ![instance] = NoInstance]
      /\ UNCHANGED <<env, instance, connectTask, retry, act, watch, fails, keys, upload, shutJoin>>
  BY DEF BusStopped, tasks, disk
<1>2. instance \in Object
  BY DEF Types
<1>3. /\ log' \in Logs /\ told' \in Shown /\ Heard'
      /\ told' = "connected" => told = "connected"
      /\ xknx[instance].state = "connected" => told' # "connected"
  BY <1>1, <1>2, StopEventEffect
<1>4. /\ xknx' \in [Object -> Instances] /\ xknx'[instance].state = "none"
      /\ \A j \in Object \ {instance} : xknx'[j] = xknx[j]
  BY <1>1, <1>2, BoundsAssumption DEF Types, NoInstance, Instances, States, Version
<1>5. Types'
  BY <1>1, <1>3, <1>4 DEF Types, Version
<1>6. Refers' /\ Credentials' /\ Uploading' /\ Tried'
  BY <1>1 DEF Refers, Credentials, Uploading, Tried, Alive, NoTask, Task
<1>7. Single'
  BY <1>1, <1>2, <1>3, <1>4 DEF Single, Alive, Live, InUse
<1>8. Ending'
  BY <1>1, <1>2, <1>4 DEF Ending, Single, Alive, Live
<1> QED BY <1>3, <1>5, <1>6, <1>7, <1>8

LEMMA StepKeeps == IInv /\ [Next]_vars => IInv'
<1> SUFFICES ASSUME IInv, [Next]_vars PROVE IInv'
  OBVIOUS
<1>1. CASE \E t \in Object : TaskStep(t) \/ StartSucceeds(t) \/ StartFails(t)
  BY <1>1, TurnKeeps, ReplaceKeeps, UnwindKeeps, StartSucceedsKeeps, StartFailsKeeps DEF TaskStep
<1>2. CASE \E i \in Object : Lose(i) \/ AutoRetry(i) \/ Recover(i)
  BY <1>2, LinkKeeps
<1>3. CASE ReconnectSteps \/ Poll \/ UploadReconnects
  BY <1>3, JoinedKeeps, ReconnectedKeeps, PollKeeps, UploadReconnectsKeeps DEF ReconnectSteps
<1>4. CASE ReplaceKeys \/ SaveKeys \/ SavePassword
  BY <1>4, KeysKeep
<1>5. CASE Shutdown \/ ShutdownSteps
  BY <1>5, ShutdownKeeps, CancelWatchKeeps, StopBusKeeps, BusStoppedKeeps DEF ShutdownSteps
<1>6. CASE UNCHANGED vars
  <2>1. Types' /\ Refers' /\ Heard' /\ Credentials' /\ Uploading'
    BY <1>6 DEF vars, IInv, Types, Refers, Heard, Credentials, Uploading, Version, Alive, NoTask, Task
  <2>2. Tried' /\ Single' /\ Ending'
    BY <1>6 DEF vars, IInv, Tried, Trying, Reconnecting, Single, Ending, Alive, Live, InUse
  <2> QED BY <2>1, <2>2 DEF IInv
<1> QED BY <1>1, <1>2, <1>3, <1>4, <1>5, <1>6 DEF Next, TaskSteps, UploadSteps
-----------------------------------------------------------------------------
(* The inductive invariant holds of every behaviour of the connection
   (knx_daemon.py). *)
THEOREM Invariance == Spec => []IInv
<1>1. Init => IInv
  BY InitHolds
<1>2. IInv /\ [Next]_vars => IInv'
  BY StepKeeps
<1> QED BY <1>1, <1>2, PTL DEF Spec

LEMMA InvImplies == IInv => ConnectionIsTrue
<1> SUFFICES ASSUME IInv PROVE ConnectionIsTrue
  OBVIOUS
<1> USE DEF IInv
<1>1. TypeOK
  BY DEF Types, Refers, TypeOK, Instances, Tasks, Activations, Watches, Logs, Shown, States
<1>2. OneConnection
  BY DEF OneConnection, Single
<1>3. NeverGivesUp
  BY DEF NeverGivesUp, Tried, InUse, Trying
<1>4. ToldTrue
  BY DEF ToldTrue, Single
<1>5. KeysCurrent
  <2>1. watch.seen = keys.file => ~(watch.seen < keys.file)
    BY BoundsAssumption DEF Types, Watches, Version
  <2> QED BY <2>1 DEF KeysCurrent, Credentials
<1>6. QuietAtEnd
  BY DEF QuietAtEnd, Ending, Single
<1> QED BY <1>1, <1>2, <1>3, <1>4, <1>5, <1>6 DEF ConnectionIsTrue

(* One connection, never given up, told as it is, with the keys that are on
   disk, and none after the shutdown, whatever the order of failed connects,
   lost connections, uploads, watcher and shutdown (knx_daemon.py). *)
THEOREM TrueConnection == Spec => []ConnectionIsTrue
BY Invariance, InvImplies, PTL

(* While an outage lasts the clients are told nothing new (_ConnectionLog). *)
THEOREM OutageIsToldOnce == Spec => OutageToldOnce
<1>1. IInv /\ [Next]_vars => [log.outage /\ log'.outage => told' = told]_<<log, told>>
  <2> SUFFICES ASSUME IInv, [Next]_vars, log.outage, log'.outage PROVE told' = told
    OBVIOUS
  <2> USE DEF IInv
  <2>1. CASE UNCHANGED told
    BY <2>1
  <2>2. CASE \E i \in Object, s \in {"connecting", "connected", "disconnected"} : Event(i, instance, log, s)
    BY <2>2, EventEffect
  <2>3. CASE \E i \in Object : StopEvent(i, log)
    BY <2>3, StopEventEffect
  <2>4. ASSUME NEW t \in Object, StartSucceeds(t) \/ StartFails(t) \/ Replace(t) PROVE retry[t].on \in Object
    BY <2>4, BoundsAssumption DEF StartSucceeds, StartFails, Replace, Types, Refers, Tasks, Object
  <2>5. ASSUME NEW r \in Caller, Reconnected(r) PROVE act[r].old \in Object
    BY <2>5, BoundsAssumption DEF Reconnected, Types, Refers, Activations, Object
  <2>6. instance \in Object
    BY DEF Types
  <2>7. CASE \E t \in Object : TaskStep(t) \/ StartSucceeds(t) \/ StartFails(t)
    <3> PICK t \in Object : TaskStep(t) \/ StartSucceeds(t) \/ StartFails(t)
      BY <2>7
    <3>1. CASE Turn(t)
      BY <2>1, <2>2, <2>6, <3>1 DEF Turn, BeginStart, NoEvent, report
    <3>2. CASE StartSucceeds(t) \/ StartFails(t)
      BY <2>2, <2>4, <3>2 DEF StartSucceeds, StartFails
    <3>3. CASE Replace(t)
      BY <2>3, <2>4, <3>3 DEF Replace
    <3>4. CASE Unwind(t)
      BY <2>1, <3>4 DEF Unwind, report
    <3> QED BY <3>1, <3>2, <3>3, <3>4 DEF TaskStep
  <2>8. CASE \E i \in Object : Lose(i) \/ AutoRetry(i) \/ Recover(i)
    BY <2>2, <2>8 DEF Lose, AutoRetry, Recover
  <2>9. CASE ReconnectSteps
    BY <2>1, <2>3, <2>5, <2>9 DEF ReconnectSteps, Joined, Reconnected
  <2>10. CASE Poll \/ UploadSteps \/ ReplaceKeys \/ SaveKeys \/ Shutdown \/ UNCHANGED vars
    BY <2>1, <2>10 DEF Poll, UploadSteps, SavePassword, UploadReconnects, ReplaceKeys, SaveKeys, Shutdown, report, vars
  <2>11. CASE ShutdownSteps
    BY <2>1, <2>3, <2>6, <2>11 DEF ShutdownSteps, CancelWatch, StopBus, BusStopped, report
  <2> QED BY <2>7, <2>8, <2>9, <2>10, <2>11 DEF Next, TaskSteps
<1> QED BY <1>1, Invariance, PTL DEF Spec, OutageToldOnce
-----------------------------------------------------------------------------
(* The login in front of the same server (Auth), for any users, browsers,
   environments and limits.  GuardHolds is not inductive by itself: that the
   login is never on without an account follows from what auth.json has
   (Manned), whatever AUTH_UI_ENABLED says at the moment. *)
CONSTANTS Users, Passwords, Browsers, MaxIssued, MaxFailures, Window, Lockout, MaxTime, AuthEnvs
VARIABLES authEnv, override, enabled, accounts, token, sessions, failures, now, issued, cookie, view, asks

Login == INSTANCE Auth WITH Envs <- AuthEnvs

(* The file never has the login on without an account. *)
Manned == enabled => Login!Configured

AuthInv == Login!TypeOK /\ Login!SessionsHaveAccounts /\ Manned
LEMMA AuthInitHolds ==
  ASSUME Login!Sized
  PROVE  Login!Init => AuthInv
<1> SUFFICES ASSUME Login!Init PROVE AuthInv
  OBVIOUS
<1>1. enabled \in BOOLEAN /\ ~enabled
  BY Zenon DEF Login!Init
<1>2. override \in {"unset", "on", "off"} /\ issued = 0 /\ now = 0 /\ DOMAIN accounts = {} /\ DOMAIN sessions = {}
  BY DEF Login!Init, Login!Sized
<1>3. token \in [Login!Keys -> 0 .. issued] /\ cookie \in [Browsers -> 0 .. issued]
  BY <1>2 DEF Login!Init
<1>4. failures \in [Browsers -> [count : 0 .. MaxFailures, first : 0 .. MaxTime]]
  BY DEF Login!Init, Login!Sized, Login!NoFailure
<1>5. asks \in [Browsers -> BOOLEAN]
  BY DEF Login!Init
<1>6. Login!TypeOK
  BY <1>1, <1>2, <1>3, <1>4, <1>5 DEF Login!TypeOK, Login!Sized
<1> QED BY <1>1, <1>2, <1>6 DEF AuthInv, Login!SessionsHaveAccounts, Manned

LEMMA Reloading ==
  ASSUME Login!TypeOK, NEW b \in Browsers, Login!Reloads(b)
  PROVE  asks' \in [Browsers -> BOOLEAN]
BY DEF Login!TypeOK, Login!Reloads

(* A session for u, whose cookie the browser keeps. *)
LEMMA SigningIn ==
  ASSUME Login!Sized, Login!TypeOK, NEW b \in Browsers, NEW u \in Users, Login!SignIn(b, u)
  PROVE  /\ issued' \in 0 .. MaxIssued /\ issued < issued' /\ \A n \in 0 .. issued : n \in 0 .. issued'
         /\ DOMAIN sessions' \subseteq 1 .. issued'
         /\ \A s \in DOMAIN sessions' : sessions'[s] = u \/ (s \in DOMAIN sessions /\ sessions'[s] = sessions[s])
         /\ failures' \in [Browsers -> [count : 0 .. MaxFailures, first : 0 .. MaxTime]]
         /\ cookie' \in [Browsers -> 0 .. issued']
<1>1. issued \in Nat /\ issued' = issued + 1 /\ issued' \in 0 .. MaxIssued
  BY DEF Login!SignIn, Login!TypeOK, Login!Sized
<1>2. DOMAIN sessions' = DOMAIN sessions \cup {issued'}
      /\ \A s \in DOMAIN sessions' : sessions'[s] = IF s = issued' THEN u ELSE sessions[s]
  BY DEF Login!SignIn
<1>3. Login!NoFailure \in [count : 0 .. MaxFailures, first : 0 .. MaxTime]
  BY DEF Login!NoFailure, Login!Sized
<1>4. failures' \in [Browsers -> [count : 0 .. MaxFailures, first : 0 .. MaxTime]]
  BY <1>3 DEF Login!SignIn, Login!TypeOK
<1>5. cookie' \in [Browsers -> 0 .. issued']
  BY <1>1 DEF Login!SignIn, Login!TypeOK
<1> QED BY <1>1, <1>2, <1>4, <1>5 DEF Login!TypeOK

(* What only touches the browser. *)
LEMMA PageKeeps ==
  ASSUME AuthInv, NEW b \in Browsers, Login!OpenPage(b) \/ Login!Load(b) \/ Login!LoadFails(b)
  PROVE  AuthInv'
<1>1. asks' \in [Browsers -> BOOLEAN]
  BY DEF Login!OpenPage, Login!Load, Login!LoadFails, Login!Reloads, AuthInv, Login!TypeOK
<1>2. UNCHANGED <<authEnv, override, enabled, accounts, token, sessions, failures, now, issued, cookie>>
  BY DEF Login!OpenPage, Login!Load, Login!LoadFails, Login!file, Login!memory
<1> QED BY <1>1, <1>2 DEF AuthInv, Login!TypeOK, Login!SessionsHaveAccounts, Manned, Login!Configured, Login!Has

LEMMA EnableKeeps ==
  ASSUME Login!Sized, AuthInv, NEW b \in Browsers,
         Login!EnableExisting(b) \/ \E u \in Users, p \in Passwords : Login!EnableFirst(b, u, p)
  PROVE  AuthInv'
<1>1. CASE Login!EnableExisting(b)
  <2>1. enabled' \in BOOLEAN /\ asks' \in [Browsers -> BOOLEAN] /\ Login!Configured
        /\ UNCHANGED <<authEnv, override, accounts, token, sessions, failures, now, issued, cookie>>
    BY <1>1, Reloading DEF Login!EnableExisting, Login!memory, AuthInv
  <2> QED BY <2>1 DEF AuthInv, Login!TypeOK, Login!SessionsHaveAccounts, Manned, Login!Configured, Login!Has
<1>2. ASSUME NEW u \in Users, NEW p \in Passwords, Login!EnableFirst(b, u, p) PROVE AuthInv'
  <2>1. /\ DOMAIN accounts' = {u} /\ accounts'[u] = p /\ DOMAIN accounts = {} /\ Login!SignIn(b, u)
        /\ UNCHANGED <<authEnv, override, token, now>>
    BY <1>2 DEF Login!EnableFirst, Login!Configured
  <2>2. enabled' \in BOOLEAN /\ asks' \in [Browsers -> BOOLEAN]
    BY <1>2, Reloading DEF Login!EnableFirst, AuthInv
  <2>3. Login!TypeOK'
    BY <2>1, <2>2, SigningIn DEF AuthInv, Login!TypeOK
  <2>4. Login!SessionsHaveAccounts'
    BY <2>1, SigningIn DEF AuthInv, Login!SessionsHaveAccounts, Login!Has
  <2> QED BY <2>1, <2>3, <2>4 DEF AuthInv, Manned, Login!Configured
<1> QED BY <1>1, <1>2

LEMMA LoginKeeps ==
  ASSUME Login!Sized, AuthInv, NEW b \in Browsers, NEW u \in Users, Login!Login(b, u)
  PROVE  AuthInv'
<1>1. u \in DOMAIN accounts /\ Login!SignIn(b, u)
      /\ UNCHANGED <<authEnv, override, enabled, accounts, token, now>>
  BY DEF Login!Login, Login!file
<1>2. asks' \in [Browsers -> BOOLEAN]
  BY Reloading DEF Login!Login, Login!SignedIn, AuthInv
<1>3. Login!TypeOK'
  BY <1>1, <1>2, SigningIn DEF AuthInv, Login!TypeOK
<1>4. Login!SessionsHaveAccounts'
  BY <1>1, SigningIn DEF AuthInv, Login!SessionsHaveAccounts, Login!Has
<1> QED BY <1>1, <1>3, <1>4 DEF AuthInv, Manned, Login!Configured

(* An address that is not throttled has tries left, or its window is over. *)
LEMMA WrongLoginKeeps ==
  ASSUME Login!Sized, AuthInv, NEW b \in Browsers, Login!WrongLogin(b) \/ Login!Forget(b)
  PROVE  AuthInv'
<1> DEFINE F == [count : 0 .. MaxFailures, first : 0 .. MaxTime]
<1>1. UNCHANGED <<authEnv, override, enabled, accounts, token, sessions, now, issued, cookie, view, asks>>
  BY DEF Login!WrongLogin, Login!Forget, Login!file, Login!browser
<1>2. failures[b] \in F /\ failures[b].count \in 0 .. MaxFailures /\ failures[b].first \in 0 .. MaxTime
      /\ now \in 0 .. MaxTime /\ Login!NoFailure \in F
  BY DEF AuthInv, Login!TypeOK, Login!NoFailure, Login!Sized
<1>3. failures' \in [Browsers -> F]
  <2>1. CASE Login!Forget(b)
    BY <1>2, <2>1 DEF Login!Forget, AuthInv, Login!TypeOK
  <2>2. CASE Login!WrongLogin(b)
    <3> DEFINE f == failures[b]
               over == f.count > 0 /\ now - f.first > Window
               n == IF over THEN 1 ELSE f.count + 1
               t == IF over \/ f.first = 0 THEN now ELSE f.first
    <3>1. ~Login!Throttled(b) /\ failures' = [failures EXCEPT ![b] = [count |-> n, first |-> t]]
      BY <2>2 DEF Login!WrongLogin
    <3>2. n \in 0 .. MaxFailures
      BY <1>2, <3>1 DEF Login!Throttled, Login!Sized
    <3>3. t \in 0 .. MaxTime
      BY <1>2
    <3> HIDE DEF n, t
    <3>4. [count |-> n, first |-> t] \in F
      BY <3>2, <3>3
    <3> QED BY <3>1, <3>4 DEF AuthInv, Login!TypeOK
  <2> QED BY <2>1, <2>2
<1> QED BY <1>1, <1>3 DEF AuthInv, Login!TypeOK, Login!SessionsHaveAccounts, Manned, Login!Configured, Login!Has

(* What ends sessions keeps the others as they are. *)
LEMMA LeavingKeeps ==
  ASSUME AuthInv, NEW b \in Browsers, Login!Logout(b) \/ Login!Disable(b)
  PROVE  AuthInv'
<1>1. /\ DOMAIN sessions' \subseteq DOMAIN sessions /\ \A s \in DOMAIN sessions' : sessions'[s] = sessions[s]
      /\ UNCHANGED <<authEnv, override, accounts, token, failures, now, issued>>
  BY DEF Login!Logout, Login!Disable, Login!Restrict, Login!file
<1>2. cookie' \in [Browsers -> 0 .. issued'] /\ asks' \in [Browsers -> BOOLEAN]
  <2>1. cookie' = [cookie EXCEPT ![b] = 0] /\ Login!Reloads(b)
    BY DEF Login!Logout, Login!Disable
  <2>2. cookie' \in [Browsers -> 0 .. issued']
    <3>1. issued' = issued /\ 0 \in 0 .. issued /\ cookie \in [Browsers -> 0 .. issued]
      BY <1>1 DEF AuthInv, Login!TypeOK
    <3> QED BY <2>1, <3>1
  <2>3. asks' \in [Browsers -> BOOLEAN]
    BY <2>1, Reloading DEF AuthInv
  <2> QED BY <2>2, <2>3
<1>3. enabled' \in BOOLEAN /\ (enabled' => enabled)
  <2>1. CASE Login!Logout(b)
    BY <2>1 DEF Login!Logout, Login!file, AuthInv, Login!TypeOK
  <2>2. CASE Login!Disable(b)
    BY <2>2 DEF Login!Disable
  <2> QED BY <2>1, <2>2
<1> QED BY <1>1, <1>2, <1>3 DEF AuthInv, Login!TypeOK, Login!SessionsHaveAccounts, Manned, Login!Configured, Login!Has

LEMMA AccountsKeep ==
  ASSUME AuthInv, NEW b \in Browsers, NEW u \in Users, NEW p \in Passwords,
         Login!AddUser(b, u, p) \/ Login!ChangePassword(b, p)
  PROVE  AuthInv'
<1>1. UNCHANGED <<authEnv, override, enabled, token, sessions, failures, now, issued, cookie, asks>>
  BY DEF Login!AddUser, Login!ChangePassword, Login!memory, Login!browser
<1>2. /\ DOMAIN accounts \subseteq DOMAIN accounts' /\ DOMAIN accounts' \subseteq Users
      /\ \A v \in DOMAIN accounts' : accounts'[v] \in Passwords
  BY DEF Login!AddUser, Login!ChangePassword, AuthInv, Login!TypeOK
<1> QED BY <1>1, <1>2 DEF AuthInv, Login!TypeOK, Login!SessionsHaveAccounts, Manned, Login!Configured, Login!Has

LEMMA DeleteUserKeeps ==
  ASSUME AuthInv, NEW b \in Browsers, NEW u \in Users, Login!DeleteUser(b, u)
  PROVE  AuthInv'
<1>1. /\ UNCHANGED <<authEnv, override, enabled, token, failures, now, issued, cookie, asks>>
      /\ u \in DOMAIN accounts /\ (DOMAIN accounts # {u} \/ ~enabled)
  BY DEF Login!DeleteUser, Login!MayDelete, Login!browser
<1>2. /\ DOMAIN accounts' = DOMAIN accounts \ {u}
      /\ \A v \in DOMAIN accounts' : accounts'[v] = accounts[v]
      /\ DOMAIN sessions' = {s \in DOMAIN sessions : sessions[s] # u}
      /\ \A s \in DOMAIN sessions' : sessions'[s] = sessions[s]
  BY DEF Login!DeleteUser, Login!Restrict, Login!Others
<1>3. Login!TypeOK'
  BY <1>1, <1>2 DEF AuthInv, Login!TypeOK
<1>4. Login!SessionsHaveAccounts'
  BY <1>1, <1>2 DEF AuthInv, Login!SessionsHaveAccounts, Login!Has
<1> QED BY <1>1, <1>2, <1>3, <1>4 DEF AuthInv, Manned, Login!Configured

LEMMA TokensKeep ==
  ASSUME Login!Sized, AuthInv, NEW b \in Browsers, NEW k \in Login!Keys, Login!NewToken(b, k) \/ Login!ClearToken(b, k)
  PROVE  AuthInv'
<1>1. UNCHANGED <<authEnv, override, enabled, accounts, sessions, failures, now, cookie>>
  BY DEF Login!NewToken, Login!ClearToken, Login!memory
<1>2. asks' \in [Browsers -> BOOLEAN]
  BY Reloading DEF Login!NewToken, Login!ClearToken, AuthInv
<1>3. issued \in Nat /\ issued' \in 0 .. MaxIssued /\ issued <= issued'
  BY DEF Login!NewToken, Login!ClearToken, AuthInv, Login!TypeOK, Login!Sized
<1>4. token' \in [Login!Keys -> 0 .. issued']
  BY <1>3 DEF Login!NewToken, Login!ClearToken, AuthInv, Login!TypeOK
<1>5. cookie' \in [Browsers -> 0 .. issued'] /\ DOMAIN sessions' \subseteq 1 .. issued'
  BY <1>1, <1>3 DEF AuthInv, Login!TypeOK
<1> QED BY <1>1, <1>2, <1>3, <1>4, <1>5 DEF AuthInv, Login!TypeOK, Login!SessionsHaveAccounts, Manned, Login!Configured, Login!Has

LEMMA OperatorKeeps ==
  ASSUME Login!Sized, AuthInv, Login!ResetFile \/ Login!Tick \/ \E o \in {"unset", "on", "off"} : Login!Restart(o)
  PROVE  AuthInv'
<1>1. CASE Login!ResetFile
  <2>1. /\ Login!Has("resets") /\ DOMAIN accounts' = {} /\ token' = [k \in Login!Keys |-> 0]
        /\ UNCHANGED <<authEnv, override, sessions, failures, now, issued, cookie, asks>>
    BY <1>1 DEF Login!ResetFile, Login!memory, Login!browser
  <2>2. enabled' \in BOOLEAN /\ ~enabled'
    BY <1>1, Zenon DEF Login!ResetFile
  <2>3. token' \in [Login!Keys -> 0 .. issued']
    BY <2>1 DEF AuthInv, Login!TypeOK
  <2> QED BY <2>1, <2>2, <2>3 DEF AuthInv, Login!TypeOK, Login!SessionsHaveAccounts, Manned, Login!Has
<1>2. CASE Login!Tick
  <2>1. now' \in 0 .. MaxTime
        /\ UNCHANGED <<authEnv, override, enabled, accounts, token, sessions, failures, issued, cookie, asks>>
    BY <1>2 DEF Login!Tick, Login!file, Login!memory, Login!browser, AuthInv, Login!TypeOK, Login!Sized
  <2> QED BY <2>1 DEF AuthInv, Login!TypeOK, Login!SessionsHaveAccounts, Manned, Login!Configured, Login!Has
<1>3. ASSUME NEW o \in {"unset", "on", "off"}, Login!Restart(o) PROVE AuthInv'
  <2>1. DOMAIN sessions' = {} /\ override' = o
        /\ UNCHANGED <<authEnv, enabled, accounts, token, now, issued, cookie, asks>>
    BY <1>3 DEF Login!Restart, Login!file, Login!browser
  <2>2. failures' \in [Browsers -> [count : 0 .. MaxFailures, first : 0 .. MaxTime]]
    BY <1>3 DEF Login!Restart, Login!NoFailure, Login!Sized
  <2> QED BY <2>1, <2>2 DEF AuthInv, Login!TypeOK, Login!SessionsHaveAccounts, Manned, Login!Configured
<1> QED BY <1>1, <1>2, <1>3

LEMMA AuthStepKeeps ==
  ASSUME Login!Sized
  PROVE  AuthInv /\ [Login!Next]_(Login!vars) => AuthInv'
<1> SUFFICES ASSUME AuthInv, [Login!Next]_(Login!vars) PROVE AuthInv'
  OBVIOUS
<1>1. CASE UNCHANGED Login!vars
  BY <1>1 DEF Login!vars, Login!file, Login!memory, Login!browser, AuthInv, Login!TypeOK, Login!SessionsHaveAccounts, Manned, Login!Configured, Login!Has
<1>2. ASSUME NEW b \in Browsers, NEW p \in Passwords, Login!ChangePassword(b, p) PROVE AuthInv'
  <2>1. \E u \in Users : TRUE
    BY <1>2 DEF Login!ChangePassword, Login!MayChange, AuthInv, Login!TypeOK
  <2> QED BY <1>2, <2>1, AccountsKeep
<1> QED BY <1>1, <1>2, PageKeeps, EnableKeeps, LoginKeeps, WrongLoginKeeps, LeavingKeeps, AccountsKeep,
           DeleteUserKeeps, TokensKeep, OperatorKeeps DEF Login!Next, Login!Request

(* The strengthened invariant of the login (auth.py). *)
THEOREM AuthInvariance ==
  ASSUME Login!Sized
  PROVE  Login!Spec => []AuthInv
<1>1. Login!Init => AuthInv
  BY AuthInitHolds
<1>2. AuthInv /\ [Login!Next]_(Login!vars) => AuthInv'
  BY AuthStepKeeps
<1> QED BY <1>1, <1>2, PTL DEF Login!Spec

(* Nothing but its own token, or the one the environment sets, opens an
   endpoint that has one. *)
LEMMA OnlyTheToken == Login!TokensGuard
<1>1. ASSUME NEW bearer \in 0 .. Login!EnvToken, Login!Required("mcp"), Login!McpAdmits(bearer)
      PROVE  bearer \in {Login!EnvToken, token["mcp"]}
  BY <1>1 DEF Login!McpAdmits, Login!Verifies
<1>2. ASSUME NEW bearer \in 0 .. Login!EnvToken, NEW b \in Browsers, Login!Required("api"), Login!External(b, bearer),
             bearer \notin {Login!EnvToken, token["api"]}
      PROVE  Login!On /\ Login!Current(b)
  BY <1>2 DEF Login!External, Login!Verifies, Login!Admitted, Login!OpenPaths
<1> QED BY <1>1, <1>2 DEF Login!TokensGuard

(* However accounts, switch, tokens and environment change: sessions are of
   accounts, someone is left who can sign in, no address tries more passwords
   than it may, and only its token opens an endpoint (auth.py). *)
THEOREM GuardAlwaysHolds ==
  ASSUME Login!Sized
  PROVE  Login!Spec => []Login!GuardHolds
<1>1. AuthInv => Login!SomeoneCanSignIn
  BY DEF AuthInv, Login!TypeOK, Manned, Login!SomeoneCanSignIn, Login!On
<1>2. AuthInv => Login!GuardHolds
  BY <1>1, OnlyTheToken DEF AuthInv, Login!GuardHolds
<1>3. Login!Spec => []AuthInv
  BY AuthInvariance
<1> QED BY <1>2, <1>3, PTL

(* While the login is on, accounts, switch and tokens change by requests of
   someone who is in, or with the file (auth.py, auth_middleware.py). *)
THEOREM ChangesAreTrusted == Login!Spec => Login!OnlyTrustedChange
<1> DEFINE Trusted ==
      Login!On /\ Login!file' # Login!file =>
        \/ /\ \E b \in Browsers : Login!Current(b)
           /\ \A b \in Browsers : cookie'[b] # cookie[b] => Login!Current(b)
        \/ Login!file' = <<FALSE, [u \in {} |-> ""], [k \in Login!Keys |-> 0]>>
<1>1. [Login!Next]_(Login!vars) => [Trusted]_(Login!vars)
  <2> SUFFICES ASSUME Login!Next, Login!On, Login!file' # Login!file PROVE Trusted
    BY DEF Login!vars
  <2>1. CASE Login!ResetFile
    BY <2>1 DEF Login!ResetFile, Login!file
  <2>2. ASSUME NEW b \in Browsers, Login!Current(b), \A c \in Browsers \ {b} : cookie'[c] = cookie[c] PROVE Trusted
    BY <2>2
  <2>3. ASSUME NEW b \in Browsers, NEW u \in Users, NEW p \in Passwords, Login!EnableFirst(b, u, p) PROVE Trusted
    <3>1. Login!Current(b)
      BY <2>3 DEF Login!EnableFirst, Login!Admitted, Login!OpenPaths
    <3>2. \A c \in Browsers \ {b} : cookie'[c] = cookie[c]
      BY <2>3 DEF Login!EnableFirst, Login!SignIn
    <3> QED BY <2>2, <3>1, <3>2
  <2>4. ASSUME NEW b \in Browsers, Login!Logout(b) PROVE UNCHANGED Login!file
    BY <2>4 DEF Login!Logout
  <2>5. ASSUME NEW b \in Browsers, Login!Disable(b) PROVE Trusted
    <3>1. Login!Current(b) /\ cookie' = [cookie EXCEPT ![b] = 0]
      BY <2>5 DEF Login!Disable
    <3>2. \A c \in Browsers \ {b} : cookie'[c] = cookie[c]
      BY <3>1
    <3> QED BY <2>2, <3>1, <3>2
  <2>6. ASSUME NEW b \in Browsers,
                \/ \E u \in Users, p \in Passwords : Login!AddUser(b, u, p)
                \/ \E k \in Login!Keys : Login!NewToken(b, k) \/ Login!ClearToken(b, k)
         PROVE  Trusted
    <3>1. Login!Current(b) /\ cookie' = cookie
      BY <2>6 DEF Login!AddUser, Login!NewToken, Login!ClearToken, Login!browser
    <3> QED BY <2>2, <3>1
  <2>7. ASSUME NEW b \in Browsers, NEW u \in Users, Login!DeleteUser(b, u) PROVE Trusted
    <3>1. Login!Current(b) /\ cookie' = cookie
      BY <2>7 DEF Login!DeleteUser, Login!browser
    <3> QED BY <2>2, <3>1
  <2>8. ASSUME NEW b \in Browsers, NEW p \in Passwords, Login!ChangePassword(b, p) PROVE Trusted
    <3>1. Login!Current(b) /\ cookie' = cookie
      BY <2>8 DEF Login!ChangePassword, Login!MayChange, Login!Current, Login!browser
    <3> QED BY <2>2, <3>1
  <2>9. ASSUME NEW b \in Browsers, Login!EnableExisting(b) PROVE FALSE
    BY <2>9 DEF Login!EnableExisting
  <2>10. UNCHANGED Login!file => Trusted
    OBVIOUS
  <2> HIDE DEF Trusted
  <2>11. ASSUME NEW b \in Browsers, Login!Request(b) PROVE Trusted
    BY <2>3, <2>4, <2>5, <2>6, <2>7, <2>8, <2>9, <2>10, <2>11 DEF Login!Request, Login!Login, Login!WrongLogin, Login!Forget
  <2> QED BY <2>1, <2>10, <2>11 DEF Login!Next, Login!OpenPage, Login!Load, Login!LoadFails, Login!Restart, Login!Tick
<1> QED BY <1>1, PTL DEF Login!Spec, Login!OnlyTrustedChange
=============================================================================
