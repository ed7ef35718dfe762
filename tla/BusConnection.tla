--------------------------- MODULE BusConnection ---------------------------
(***************************************************************************)
(* knx_daemon.py: the connection to the KNX bus.  A task retries the first *)
(* connect, each time with a new XKNX instance; a file watcher and the     *)
(* keyring upload reconnect with new credentials; the lifespan stops it    *)
(* all.  All of them replace the global xknx_instance, and each suspends   *)
(* between reading it and replacing it.                                    *)
(***************************************************************************)
EXTENDS Naturals

CONSTANTS
  MaxKeys,      \* bound on the changes of the keyring
  MaxFails,     \* bound on failed connects and lost connections
  MaxLive,      \* bound on the instances, and on the tasks, there are at a time
  Envs          \* what callers may do, as sets of habits

Habits ==
  {"overlap",        \* a reconnect may begin while another one is under way
    "tightShutdown"}  \* shutdown may run just when the connect task a reconnect
                     \* waits for has ended, and stopping may not suspend

ASSUME BoundsAssumption == MaxKeys \in Nat /\ MaxFails \in Nat /\ MaxLive \in Nat \ {0}
ASSUME EnvAssumption == Envs \subseteq SUBSET Habits

VARIABLES
  env,          \* the habits of this behaviour; fixed
  xknx,         \* the XKNX instances: state and the credentials they were built with
  instance,     \* xknx_instance
  retry,        \* the tasks running _start_with_retry ("over" when there is none)
  connectTask,  \* _connect_task
  act,          \* the activations of _reconnect_knx, by caller
  keys,         \* keyring file and password on disk, as versions
  upload,       \* POST /api/knxkeys/upload: "none", "saving", "saved"
  watch,        \* the file watcher: pc, keys_mtime, current_mtime
  log,          \* _connection_log
  told,         \* the connection state last broadcast to the clients
  fails,        \* failed connects and lost connections so far
  phase,        \* of the lifespan
  shutJoin      \* the connect task the shutdown awaits

bus == <<xknx, instance>>
tasks == <<retry, connectTask>>
report == <<log, told>>
disk == <<keys, upload>>
life == <<phase, shutJoin>>
vars == <<env, xknx, instance, retry, connectTask, act, keys, upload, watch, log,
          told, fails, phase, shutJoin>>

Caller == {"watcher", "upload"}
Idle == [pc |-> "idle", join |-> 0, old |-> 0]
FreshLog == [connected |-> FALSE, outage |-> FALSE, last |-> "none"]

Object == 1 .. MaxLive
NoInstance == [state |-> "none", keys |-> [file |-> 0, pwd |-> 0]]

Alive(t) == retry[t].pc # "over"
Reconnecting == \E r \in Caller : act[r].pc # "idle"
(* An instance whose start was called and whose stop has not completed: it
   hands every telegram it receives to telegram_received_cb. *)
Live(i) == xknx[i].state \in {"starting", "connected", "lost"}

(* _create_xknx_instance reads the credentials. *)
NewInstance == [state |-> "idle", keys |-> keys]
Task(pc, on) == [pc |-> pc, on |-> on, cancelled |-> FALSE]
NewTask == Task("scheduled", 0)
NoTask == Task("over", 0)

(* The numbers for a new instance or task are those that nothing refers to.
   Where MaxLive leaves none, no new one is made. *)
FreeInstances ==
  {i \in Object : /\ xknx[i].state = "none" /\ i # instance
                  /\ \A t \in Object : retry[t].on # i
                  /\ \A r \in Caller : act[r].old # i}
FreeTasks ==
  {t \in Object : /\ ~Alive(t) /\ t # connectTask /\ t # shutJoin
                  /\ \A r \in Caller : act[r].join # t}
FreshInstance == CHOOSE i \in FreeInstances : TRUE
FreshTask == CHOOSE t \in FreeTasks : TRUE

Init ==
  /\ env \in Envs
  /\ keys = [file |-> 0, pwd |-> 0]
  /\ xknx = [i \in Object |-> IF i = 1 THEN NewInstance ELSE NoInstance]
  /\ retry = [t \in Object |-> IF t = 1 THEN NewTask ELSE NoTask]
  /\ instance = 1 /\ connectTask = 1
  /\ act = [r \in Caller |-> Idle]
  /\ upload = "none"
  /\ watch = [pc |-> "asleep", seen |-> 0, reading |-> 0]
  /\ log = FreshLog /\ told = "none" /\ fails = 0 /\ phase = "running"
  /\ shutJoin = 0
-----------------------------------------------------------------------------
(* _ConnectionLog.handle: the log after a state change; a retry during an
   outage leaves it as it is. *)
Handle(l, state) ==
  IF state = "connecting" THEN l
  ELSE [connected |-> state = "connected", outage |-> state # "connected",
        last |-> l.last]

BroadcastAll(l, state) == state                  \* deviation
(* ... and what it broadcasts: nothing during an outage or for the state the
   clients were told last. *)
Broadcast(l, state) ==
  IF state = "connecting" /\ l.outage THEN l.last ELSE state

(* _on_state_change of instance i, when the global is cur. *)
Event(i, cur, from, state) ==
  IF i # cur THEN log' = from /\ told' = told
  ELSE LET b == Broadcast(from, state) IN
         /\ log' = [Handle(from, state) EXCEPT !.last = b]
         /\ told' = IF b = from.last THEN told ELSE b

NoEvent == UNCHANGED report

SilentStop(i, from) == log' = from /\ told' = told   \* deviation
(* xknx reports DISCONNECTED when a stop ends a connection or an attempt. *)
StopEvent(i, from) ==
  IF xknx[i].state \in {"starting", "connected"}
  THEN Event(i, instance, from, "disconnected")
  ELSE log' = from /\ told' = told
-----------------------------------------------------------------------------
(* xknx_instance.start() is called, on the instance that is global now. *)
BeginStart(t) ==
  /\ retry' = [retry EXCEPT ![t] = Task("starting", instance)]
  /\ xknx' = [xknx EXCEPT ![instance].state = "starting"]
  /\ IF xknx[instance].state = "idle" THEN Event(instance, instance, log, "connecting")
     ELSE NoEvent

(* The task's first step, and its next turn after the back-off. *)
Turn(t) ==
  /\ retry[t].pc \in {"scheduled", "sleeping"} /\ ~retry[t].cancelled
  /\ BeginStart(t)
  /\ UNCHANGED <<env, instance, connectTask, act, watch, fails, disk, life>>

EndsUncleared(t) == [retry EXCEPT ![t].pc = "over"]   \* deviation
Ended(t) == [retry EXCEPT ![t] = NoTask]

(* The gateway answers. *)
StartSucceeds(t) ==
  /\ retry[t].pc = "starting" /\ ~retry[t].cancelled
  /\ xknx[retry[t].on].state = "starting"
  /\ xknx' = [xknx EXCEPT ![retry[t].on].state = "connected"]
  /\ retry' = Ended(t)
  /\ Event(retry[t].on, instance, log, "connected")
  /\ UNCHANGED <<env, instance, connectTask, act, watch, fails, disk, life>>

(* The attempt raises; the global instance is stopped. *)
StartFails(t) ==
  /\ fails < MaxFails
  /\ retry[t].pc = "starting" /\ ~retry[t].cancelled
  /\ xknx[retry[t].on].state = "starting"
  /\ xknx' = [xknx EXCEPT ![retry[t].on].state = "failed"]
  /\ retry' = [retry EXCEPT ![t] = Task("stopping", instance)]
  /\ Event(retry[t].on, instance, log, "disconnected")
  /\ fails' = fails + 1
  /\ UNCHANGED <<env, instance, connectTask, act, watch, disk, life>>

GivesUp == "over"                                \* deviation
AfterFailure == "sleeping"

(* It is stopped, and replaced before the task sleeps. *)
Replace(t) ==
  /\ retry[t].pc = "stopping" /\ ~retry[t].cancelled /\ FreeInstances # {}
  /\ StopEvent(retry[t].on, log)
  /\ instance' = FreshInstance
  /\ xknx' = [xknx EXCEPT ![retry[t].on] = NoInstance, ![instance'] = NewInstance]
  /\ retry' = [retry EXCEPT ![t] = Task(AfterFailure, 0)]
  /\ UNCHANGED <<env, connectTask, act, watch, fails, disk, life>>

(* A cancelled task ends where it is. *)
Unwind(t) ==
  /\ Alive(t) /\ retry[t].cancelled
  /\ retry' = Ended(t)
  /\ UNCHANGED <<env, connectTask, act, watch, fails, bus, report, disk, life>>

TaskStep(t) == Turn(t) \/ Replace(t) \/ Unwind(t)
Cancelled(t) == [retry EXCEPT ![t].cancelled = TRUE]

(* A connection is lost; xknx reconnects it by itself. *)
Lose(i) ==
  /\ fails < MaxFails /\ xknx[i].state = "connected"
  /\ xknx' = [xknx EXCEPT ![i].state = "lost"]
  /\ Event(i, instance, log, "disconnected")
  /\ fails' = fails + 1
  /\ UNCHANGED <<env, instance, act, watch, tasks, disk, life>>

(* Its attempts pass through CONNECTING. *)
AutoRetry(i) ==
  /\ xknx[i].state = "lost"
  /\ Event(i, instance, log, "connecting")
  /\ UNCHANGED <<env, act, watch, fails, bus, tasks, disk, life>>

Recover(i) ==
  /\ xknx[i].state = "lost"
  /\ xknx' = [xknx EXCEPT ![i].state = "connected"]
  /\ Event(i, instance, log, "connected")
  /\ UNCHANGED <<env, instance, act, watch, fails, tasks, disk, life>>
-----------------------------------------------------------------------------
ConnectJoined == phase = "joinConnect" /\ ~Alive(shutJoin)
MayReconnect == "overlap" \in env \/ ~Reconnecting

StopWithoutJoin(r) ==                            \* deviation
  /\ act' = [act EXCEPT ![r] = [pc |-> "stopping", join |-> 0, old |-> instance]]
  /\ log' = FreshLog /\ UNCHANGED retry

(* _reconnect_knx up to its first await: the connect task is cancelled and
   awaited, or, when it has ended, the instance is stopped. *)
Reconnect(r) ==
  IF Alive(connectTask)
  THEN /\ act' = [act EXCEPT ![r] = [pc |-> "joining", join |-> connectTask, old |-> 0]]
       /\ retry' = Cancelled(connectTask) /\ UNCHANGED log
  ELSE /\ act' = [act EXCEPT ![r] = [pc |-> "stopping", join |-> 0, old |-> instance]]
       /\ log' = FreshLog /\ UNCHANGED retry

(* The cancelled task has ended. *)
Joined(r) ==
  /\ act[r].pc = "joining" /\ ~Alive(act[r].join)
  /\ act' = [act EXCEPT ![r] = [pc |-> "stopping", join |-> 0, old |-> instance]]
  /\ log' = FreshLog
  /\ UNCHANGED <<env, watch, told, fails, bus, tasks, disk, life>>

WatchesOnce(r) ==                                \* deviation
  watch' = IF r = "watcher" THEN [watch EXCEPT !.seen = watch.reading, !.pc = "over"]
           ELSE watch
(* The watcher remembers the time it read before the reconnect. *)
Seen(r) ==
  watch' = IF r = "watcher" THEN [watch EXCEPT !.seen = watch.reading] ELSE watch

(* The old instance has stopped, or raised while stopping: the new instance
   and its connect task are created. *)
Reconnected(r) ==
  /\ act[r].pc = "stopping" /\ FreeInstances # {} /\ FreeTasks # {}
  /\ ConnectJoined => "tightShutdown" \in env
  /\ StopEvent(act[r].old, log)
  /\ instance' = FreshInstance
  /\ xknx' = [xknx EXCEPT ![act[r].old] = NoInstance, ![instance'] = NewInstance]
  /\ connectTask' = FreshTask
  /\ retry' = [retry EXCEPT ![connectTask'] = NewTask]
  /\ act' = [act EXCEPT ![r] = Idle]
  /\ upload' = IF r = "upload" THEN "none" ELSE upload
  /\ Seen(r)
  /\ UNCHANGED <<env, keys, fails, life>>

(* The watcher's minute is over and the keyring has a newer time. *)
Poll ==
  /\ watch.pc = "asleep" /\ act["watcher"].pc = "idle"
  /\ keys.file > watch.seen /\ MayReconnect
  /\ watch' = [watch EXCEPT !.reading = keys.file]
  /\ Reconnect("watcher")
  /\ UNCHANGED <<env, connectTask, told, fails, bus, disk, life>>

(* Somebody replaces the keyring file on disk, keeping its password. *)
ReplaceKeys ==
  /\ keys.file < MaxKeys /\ upload = "none"
  /\ keys' = [file |-> keys.file + 1, pwd |-> keys.file + 1]
  /\ UNCHANGED <<env, act, upload, watch, fails, bus, tasks, report, life>>

(* An upload writes the keyring, then (in the same thread) its password. *)
SaveKeys ==
  /\ phase = "running" /\ upload = "none" /\ keys.file < MaxKeys
  /\ keys' = [keys EXCEPT !.file = @ + 1] /\ upload' = "saving"
  /\ UNCHANGED <<env, act, watch, fails, bus, tasks, report, life>>

SavedForWatcher == "none"                        \* deviation
Saved == "saved"

SavePassword ==
  /\ upload = "saving"
  /\ \/ keys' = [keys EXCEPT !.pwd = keys.file] /\ upload' = Saved
     \/ upload' = "none" /\ UNCHANGED keys           \* not permitted: 403
  /\ UNCHANGED <<env, act, watch, fails, bus, tasks, report, life>>

UploadReconnects ==
  /\ upload = "saved" /\ act["upload"].pc = "idle" /\ MayReconnect
  /\ Reconnect("upload")
  /\ UNCHANGED <<env, connectTask, watch, told, fails, bus, disk, life>>
-----------------------------------------------------------------------------
InWindow == \E r \in Caller : act[r].pc = "joining" /\ ~Alive(act[r].join)

WatchSurvives == UNCHANGED <<watch, act>>        \* deviation
(* Cancelling the watcher ends it, also in the middle of a reconnect, unless
   the cancellation meets it in the suppress around its own wait for the
   connect task, which swallows it. *)
WatchCancelled ==
  IF act["watcher"].pc = "joining" THEN UNCHANGED <<watch, act>>
  ELSE /\ watch' = [watch EXCEPT !.pc = "over"]
       /\ act' = [act EXCEPT !["watcher"] = Idle]

WatchOnly == FALSE                               \* deviation
MustJoin == Alive(connectTask)

(* knx_shutdown, once the server has answered all requests: the connect task
   is cancelled and awaited, or, when it has ended, the watcher is. *)
Shutdown ==
  /\ phase = "running" /\ upload = "none"
  /\ "tightShutdown" \in env \/ ~InWindow
  /\ IF MustJoin
     THEN /\ phase' = "joinConnect" /\ shutJoin' = connectTask
          /\ retry' = Cancelled(connectTask) /\ UNCHANGED <<watch, act>>
     ELSE phase' = "joinWatch" /\ WatchCancelled /\ UNCHANGED <<retry, shutJoin>>
  /\ UNCHANGED <<env, connectTask, fails, bus, report, disk>>

(* The connect task has ended; a reconnect that waits for it too is woken
   before. *)
CancelWatch ==
  /\ ConnectJoined /\ (InWindow => "tightShutdown" \in env)
  /\ phase' = "joinWatch" /\ WatchCancelled
  /\ UNCHANGED <<env, fails, shutJoin, bus, tasks, report, disk>>

StopBus ==
  /\ phase = "joinWatch" /\ watch.pc = "over"
  /\ phase' = "stopBus" /\ log' = FreshLog
  /\ UNCHANGED <<env, act, watch, told, fails, shutJoin, bus, tasks, disk>>

BusStopped ==
  /\ phase = "stopBus" /\ phase' = "stopped"
  /\ StopEvent(instance, log)
  /\ xknx' = [xknx EXCEPT ![instance] = NoInstance]
  /\ UNCHANGED <<env, instance, act, watch, fails, shutJoin, tasks, disk>>

TaskSteps == \E t \in Object : TaskStep(t)
ReconnectSteps == \E r \in Caller : Joined(r) \/ Reconnected(r)
UploadSteps == SavePassword \/ UploadReconnects
ShutdownSteps == CancelWatch \/ StopBus \/ BusStopped

Next ==
  \/ TaskSteps \/ ReconnectSteps \/ UploadSteps \/ ShutdownSteps
  \/ \E t \in Object : StartSucceeds(t) \/ StartFails(t)
  \/ \E i \in Object : Lose(i) \/ AutoRetry(i) \/ Recover(i)
  \/ Poll \/ ReplaceKeys \/ SaveKeys \/ Shutdown

(* The event loop runs what is ready, sleeps end and xknx stops when asked;
   whether the gateway ever answers is open. *)
Fairness ==
  /\ WF_vars(TaskSteps) /\ WF_vars(ReconnectSteps) /\ WF_vars(UploadSteps)
  /\ WF_vars(ShutdownSteps) /\ WF_vars(Poll)

Spec == Init /\ [][Next]_vars /\ Fairness
-----------------------------------------------------------------------------
Version == [file : 0 .. MaxKeys, pwd : 0 .. MaxKeys]

(* Every variable has its type; an ended task leaves nothing behind, and a
   reconnect that stops an instance knows which. *)
TypeOK ==
  /\ \A i \in Object :
       xknx[i] \in [state : {"none", "idle", "starting", "connected", "lost", "failed"},
                    keys : Version]
  /\ \A t \in Object :
       retry[t] \in [pc : {"scheduled", "starting", "stopping", "sleeping", "over"},
                     on : 0 .. MaxLive, cancelled : BOOLEAN]
  /\ \A t \in Object : ~Alive(t) => retry[t] = NoTask
  /\ \A r \in Caller : act[r].pc = "stopping" => act[r].old # 0
  /\ instance \in Object /\ connectTask \in Object
  /\ act \in [Caller -> [pc : {"idle", "joining", "stopping"},
                         join : 0 .. MaxLive, old : 0 .. MaxLive]]
  /\ keys \in Version /\ upload \in {"none", "saving", "saved"}
  /\ watch \in [pc : {"asleep", "over"}, seen : 0 .. MaxKeys, reading : 0 .. MaxKeys]
  /\ log \in [connected : BOOLEAN, outage : BOOLEAN,
              last : {"none", "connecting", "connected", "disconnected"}]
  /\ told \in {"none", "connecting", "connected", "disconnected"}
  /\ fails \in 0 .. MaxFails
  /\ phase \in {"running", "joinConnect", "joinWatch", "stopBus", "stopped"}
  /\ shutJoin \in 0 .. MaxLive

(* Only the global instance receives telegrams, and only one task is
   connecting: no telegram is stored and broadcast twice, whatever the order
   of failed connects, uploads, watcher and shutdown, as long as one reconnect
   ends before the next begins. *)
OneConnection ==
  "overlap" \notin env =>
    /\ \A i \in Object : Live(i) => i = instance
    /\ \A t, u \in Object : Alive(t) /\ Alive(u) => t = u

(* While the application runs somebody is connecting or xknx is: no sequence
   of failures and reconnects leaves the bus to itself. *)
NeverGivesUp ==
  phase = "running" /\ ~Reconnecting =>
    xknx[instance].state \in {"connected", "lost"} \/ \E t \in Object : Alive(t)

(* The clients show "connected" only while the bus is. *)
ToldTrue ==
  "overlap" \notin env /\ told = "connected" => xknx[instance].state = "connected"

(* "Clients are told once and keep showing disconnected": while an outage
   lasts, retries are not broadcast. *)
OutageToldOnce == [][log.outage /\ log'.outage => told' = told]_<<log, told>>

(* Once the watcher has seen the newest keyring and nothing is under way, the
   connection was built with the keyring and the password that are on disk,
   even if it was built between the writing of the two. *)
KeysCurrent ==
  phase = "running" /\ ~Reconnecting /\ upload = "none" /\ watch.seen = keys.file
    => xknx[instance].keys = keys

(* "The daemon will automatically reconnect with the new credentials." *)
KeysReach ==
  \A v \in 1 .. MaxKeys :
    keys.file >= v ~> xknx[instance].keys.file >= v \/ phase # "running"

(* After the shutdown nothing receives telegrams any more. *)
QuietAtEnd ==
  env = {} /\ phase = "stopped" =>
    /\ \A i \in Object : ~Live(i)
    /\ \A t \in Object : ~Alive(t)

(* The shutdown ends, whatever it interrupts. *)
ShutdownEnds ==
  env = {} => (phase # "running" ~> phase = "stopped")

(* One connection, never given up, told as it is, with the keys that are on
   disk, and none after the shutdown (knx_daemon.py). *)
ConnectionIsTrue == TypeOK /\ OneConnection /\ NeverGivesUp /\ ToldTrue /\ KeysCurrent /\ QuietAtEnd

=============================================================================
