------------------------------ MODULE WritePanel ------------------------------
(***************************************************************************)
(* The write panel of the browser in front of the scheduled send job of     *)
(* CyclicSend: rows that write, read and schedule, a banner that shows the  *)
(* job, and the poller that keeps the banner true.                          *)
(*                                                                          *)
(* Every handler awaits its requests.  A request is on its way up, handled  *)
(* by the server in one step, and on its way down; the panel may have been  *)
(* closed, and opened again, before the answer is there.                    *)
(***************************************************************************)
EXTENDS CyclicSend, FiniteSets

CONSTANTS
  RowIds,       \* the rows a panel can have
  Addresses,    \* group addresses
  Schedules,    \* pairs of whether a send has a delay and whether an interval
  MaxNet,       \* bound on the requests on their way
  MaxValues,    \* bound on the telegrams to an address
  None,
  PanelEnvs     \* sets of habits

ASSUME PanelAssumption ==
  /\ RowIds # {} /\ None \notin RowIds \cup Addresses
  /\ Schedules \subseteq BOOLEAN \X BOOLEAN
  /\ MaxNet \in Nat \ {0}

PanelHabits ==
  {"jobs",      \* sends are scheduled and cancelled
   "removes",   \* rows are removed
   "edits",     \* the address of a row is changed
   "reads",     \* rows are read
   "reopens",   \* the panel is closed and opened
   "overtakes", \* several requests are on their way, and their answers overtake
   "drops",     \* questions for the state are lost
   "loses"}     \* requests or answers are lost

VARIABLES
  panelHabits,  \* the habits of this behaviour; fixed
  open,         \* the panel is mounted
  rows,         \* the address of each row; None for no row
  base,         \* their readBaseline; None when nothing was read
  shown,        \* the job in the banner; 0 for none
  polling,      \* the poller runs
  net,          \* the requests
  of,           \* server: the address of each job
  value,        \* per address, how many telegrams it has had
  replied       \* per row, a telegram came to its address since Read was last
                \* clicked or the address was changed; a ghost

panelVars == <<panelHabits, open, rows, base, shown, polling, net, of, value, replied>>
allVars == <<vars, panelVars>>

Has(h) == h \in panelHabits
NoRequest == [kind |-> "status", stage |-> "up", row |-> None, at |-> None, base |-> None,
              delayed |-> FALSE, cyclic |-> FALSE, n |-> 0, ok |-> TRUE, dead |-> FALSE]

(* Requests are made while none is on its way, or whenever there is room. *)
MaySend == net = {} \/ (Has("overtakes") /\ Cardinality(net) < MaxNet)
Send(r) == net' = net \cup {r}
Status == NoRequest
Busy(row) == \E r \in net : r.row = row /\ r.kind \in {"start", "read"} /\ ~ r.dead
Server == UNCHANGED vars

-----------------------------------------------------------------------------
(* The panel. *)

AsksNothing == {}  \* deviation

OnMount == {Status}

(* Rows come from the local storage; a job that is active is picked up. *)
Open ==
  /\ ~ open /\ MaySend
  /\ open' = TRUE
  /\ base' = [row \in RowIds |-> None]
  /\ net' = net \cup OnMount
  /\ UNCHANGED <<panelHabits, rows, shown, polling, of, value, replied>> /\ Server

Close ==
  /\ open /\ Has("reopens")
  /\ open' = FALSE /\ shown' = 0 /\ polling' = FALSE
  /\ net' = {[r EXCEPT !.dead = TRUE] : r \in net}
  /\ UNCHANGED <<panelHabits, rows, base, of, value, replied>> /\ Server

Poll ==
  /\ open /\ polling /\ MaySend
  /\ Send(Status)
  /\ UNCHANGED <<panelHabits, open, rows, base, shown, polling, of, value, replied>> /\ Server

(* write, of a row with a delay or an interval: refused while the banner
   shows a job. *)
Write(row, schedule) ==
  /\ Has("jobs") /\ open /\ MaySend
  /\ rows[row] # None /\ ~ Busy(row) /\ shown = 0
  /\ Send([NoRequest EXCEPT !.kind = "start", !.row = row, !.at = rows[row],
                            !.delayed = schedule[1], !.cyclic = schedule[2]])
  /\ UNCHANGED <<panelHabits, open, rows, base, shown, polling, of, value, replied>> /\ Server

CancelClick ==
  /\ open /\ shown # 0 /\ MaySend
  /\ Send([NoRequest EXCEPT !.kind = "cancel"])
  /\ UNCHANGED <<panelHabits, open, rows, base, shown, polling, of, value, replied>> /\ Server

DropAny(row) == [rows EXCEPT ![row] = None]  \* deviation

Drop(row) == IF \E other \in RowIds \ {row} : rows[other] # None
             THEN [rows EXCEPT ![row] = None] ELSE rows

JustDrops(row) == FALSE  \* deviation

(* The row's address is that of the job in the banner. *)
Owns(row) == shown # 0 /\ of[shown] = rows[row]

(* removeRow: the job of the row is cancelled first, and the banner brought
   up to date. *)
RemoveRow(row) ==
  /\ Has("removes") /\ open /\ rows[row] # None
  /\ \E other \in RowIds \ {row} : rows[other] # None
  /\ IF Owns(row)
     THEN MaySend /\ Send([NoRequest EXCEPT !.kind = "cancel", !.row = row]) /\ UNCHANGED rows
     ELSE rows' = Drop(row) /\ UNCHANGED net
  /\ UNCHANGED <<panelHabits, open, base, shown, polling, of, value, replied>> /\ Server

SetAddress(row, a) ==
  /\ Has("edits") /\ open /\ rows[row] # None /\ rows[row] # a
  /\ rows' = [rows EXCEPT ![row] = a]
  /\ base' = [base EXCEPT ![row] = None]
  /\ replied' = [replied EXCEPT ![row] = FALSE]
  /\ UNCHANGED <<panelHabits, open, shown, polling, net, of, value>> /\ Server

(* The telegram whose value is shown for an address. *)
Seen(a) == IF value[a] = 0 THEN <<>> ELSE <<a, value[a]>>

(* read: the baseline is the value shown at the click. *)
Read(row) ==
  /\ Has("reads") /\ open /\ rows[row] # None /\ ~ Busy(row) /\ MaySend
  /\ Send([NoRequest EXCEPT !.kind = "read", !.row = row, !.at = rows[row],
                            !.base = Seen(rows[row])])
  /\ replied' = [replied EXCEPT ![row] = FALSE]
  /\ UNCHANGED <<panelHabits, open, rows, base, shown, polling, of, value>> /\ Server

-----------------------------------------------------------------------------
(* The server handles a request. *)

Down(r, answer) == net' = (net \ {r}) \cup {answer}

AnyJob == current  \* deviation

Told == IF ActiveJob THEN current ELSE 0

HandleStatus(r) ==
  /\ r.kind = "status"
  /\ Down(r, [r EXCEPT !.stage = "down", !.n = Told])
  /\ Server /\ UNCHANGED of

HandleStart(r) ==
  /\ r.kind = "start"
  /\ IF phase = "serving" /\ writable /\ MayStart
     THEN /\ Start(r.delayed, r.cyclic)
          /\ of' = [of EXCEPT ![current'] = r.at]
          /\ Down(r, [r EXCEPT !.stage = "down", !.n = current'])
     ELSE Down(r, [r EXCEPT !.stage = "down", !.ok = FALSE]) /\ Server /\ UNCHANGED of

HandleCancel(r) ==
  /\ r.kind = "cancel"
  /\ IF ActiveJob THEN Cancel ELSE Server
  /\ Down(r, [r EXCEPT !.stage = "down", !.ok = ActiveJob, !.n = current])
  /\ UNCHANGED of

HandleRead(r) ==
  /\ r.kind = "read"
  /\ Down(r, [r EXCEPT !.stage = "down"])
  /\ Server /\ UNCHANGED of

Handle(r) ==
  /\ r.stage = "up"
  /\ HandleStatus(r) \/ HandleStart(r) \/ HandleCancel(r) \/ HandleRead(r)
  /\ UNCHANGED <<panelHabits, open, rows, base, shown, polling, value, replied>>

(* A telegram to an address: the response to a read, or another. *)
Telegram(a) ==
  /\ Has("reads") /\ value[a] < MaxValues
  /\ value' = [value EXCEPT ![a] = @ + 1]
  /\ replied' = [row \in RowIds |-> replied[row] \/ rows[row] = a]
  /\ UNCHANGED <<panelHabits, open, rows, base, shown, polling, net, of>> /\ Server

-----------------------------------------------------------------------------
(* An answer is there, or the request has failed. *)

AsksOnce(n) == FALSE  \* deviation

PollsOn(n) == n # 0

(* refreshJob: the banner and the poller follow the answer; a request that
   failed leaves both alone. *)
TakeStatus(r) ==
  /\ r.kind = "status" /\ r.stage = "down"
  /\ IF r.dead THEN UNCHANGED <<shown, polling, rows>>
     ELSE /\ shown' = r.n /\ polling' = PollsOn(r.n)
          /\ rows' = IF r.row = None THEN rows ELSE Drop(r.row)
  /\ net' = net \ {r}
  /\ UNCHANGED base

TakeStart(r) ==
  /\ r.kind = "start" /\ r.stage = "down"
  /\ IF r.ok /\ ~ r.dead THEN shown' = r.n /\ polling' = TRUE ELSE UNCHANGED <<shown, polling>>
  /\ net' = net \ {r}
  /\ UNCHANGED <<rows, base>>

(* cancelJob and removeRow go on to ask for the state, whatever came. *)
Refreshes(r) == net' = (net \ {r}) \cup (IF r.dead THEN {} ELSE {[Status EXCEPT !.row = r.row]})

TakeCancel(r) ==
  /\ r.kind = "cancel" /\ r.stage = "down"
  /\ Refreshes(r)
  /\ UNCHANGED <<rows, base, shown, polling>>

AtAnswer(r) == Seen(r.at)  \* deviation

Baseline(r) == r.base

TakeRead(r) ==
  /\ r.kind = "read" /\ r.stage = "down"
  /\ base' = IF r.dead THEN base ELSE [base EXCEPT ![r.row] = Baseline(r)]
  /\ net' = net \ {r}
  /\ UNCHANGED <<rows, shown, polling>>

Take(r) ==
  /\ TakeStatus(r) \/ TakeStart(r) \/ TakeCancel(r) \/ TakeRead(r)
  /\ UNCHANGED <<panelHabits, open, of, value, replied>> /\ Server

(* Lost on the way up or down. *)
Lose(r) ==
  /\ Has("loses") \/ (Has("drops") /\ r.kind = "status")
  /\ IF r.kind = "cancel" THEN Refreshes(r) ELSE net' = net \ {r}
  /\ rows' = IF r.kind = "status" /\ r.row # None /\ ~ r.dead THEN Drop(r.row) ELSE rows
  /\ UNCHANGED <<panelHabits, open, base, shown, polling, of, value, replied>> /\ Server

-----------------------------------------------------------------------------
PanelInit ==
  /\ Init /\ writable = TRUE
  /\ panelHabits \in PanelEnvs
  /\ open = FALSE
  /\ rows \in [RowIds -> Addresses]
  /\ ~ Has("removes") => rows = CHOOSE f \in [RowIds -> Addresses] : TRUE
  /\ base = [row \in RowIds |-> None]
  /\ shown = 0 /\ polling = FALSE /\ net = {}
  /\ of = [j \in JobId |-> None]
  /\ value = [a \in Addresses |-> 0]
  /\ replied = [row \in RowIds |-> FALSE]

ServerStep(j) == (TaskStep(j) \/ SleepElapses(j)) /\ UNCHANGED panelVars

PanelNext ==
  \/ Open \/ Close \/ Poll \/ CancelClick
  \/ \E row \in RowIds, schedule \in Schedules : Write(row, schedule)
  \/ \E row \in RowIds : RemoveRow(row) \/ Read(row)
  \/ \E row \in RowIds, a \in Addresses : SetAddress(row, a)
  \/ \E r \in net : Handle(r) \/ Take(r) \/ Lose(r)
  \/ \E a \in Addresses : Telegram(a)
  \/ \E j \in JobId : ServerStep(j)

(* The interval fires, also when it has to wait for room under the bound;
   the server answers, and not every answer to a poll is lost. *)
Polls(r) == r.kind = "status" /\ ~ r.dead
PanelFairness ==
  /\ WF_allVars(Open) /\ SF_allVars(Poll)
  /\ SF_allVars(\E r \in net : Polls(r) /\ Handle(r))
  /\ SF_allVars(\E r \in net : Polls(r) /\ Take(r))
  /\ WF_allVars(\E r \in net : ~ Polls(r) /\ (Handle(r) \/ Take(r)))

PanelSpec == PanelInit /\ [][PanelNext]_allVars /\ PanelFairness

-----------------------------------------------------------------------------
(* The types of the variables; the job in the banner has been started, and
   there is always a row left. *)
PanelTypeOK ==
  /\ \E row \in RowIds : rows[row] # None
  /\ rows \in [RowIds -> Addresses \cup {None}]
  /\ shown \in 0..current /\ polling \in BOOLEAN
  /\ Cardinality(net) <= MaxNet
  /\ shown # 0 => of[shown] # None

(* A banner is never left standing: while the panel shows a job it polls
   (WriteToBusPanel.tsx:422-451). *)
ShownIsPolled == shown # 0 => open /\ polling

(* The banner of a job that is over goes away, whatever is lost or late. *)
BannerGoes ==
  \A j \in JobId : shown = j /\ ~ (ActiveJob /\ current = j) ~> shown # j

(* A job that is active is shown in an open panel, after a reload as well;
   this takes answers that are neither lost nor overtaken
   (WriteToBusPanel.tsx:156-161). *)
Steady == ~ \E h \in {"loses", "drops", "overtakes"} : Has(h)
ActiveIsShown ==
  \A j \in JobId : Steady /\ open /\ ActiveJob /\ current = j
                     ~> shown = j \/ ~ open \/ ~ (ActiveJob /\ current = j)

(* A row whose job the banner shows takes the job with it: when such a row
   is gone, no job to its address is left that was not cancelled, unless the
   cancel was lost, the address was changed in between or another row started
   a job to it (WriteToBusPanel.tsx:172-181). *)
Undisturbed == ~ \E h \in {"loses", "edits", "overtakes"} : Has(h)
RemovalCancels ==
  [][\A row \in RowIds :
       rows[row] # None /\ rows'[row] = None /\ shown # 0 /\ Undisturbed
         => \/ of[shown] # rows[row]
            \/ job[shown].state \notin Active \/ task[shown].cancelled]_allVars

(* "Waiting for a response" is only said of a row that has had none since
   Read was clicked, also when the response was faster than the answer to
   the request (WriteToBusPanel.tsx:38-45, 223-231, 292). *)
AwaitingIsTrue ==
  \A row \in RowIds : base[row] # None /\ rows[row] # None /\ base[row] = Seen(rows[row]) => ~ replied[row]

(* The panel shows no job it does not watch, and claims to wait only for
   answers that are not there yet (WriteToBusPanel.tsx). *)
PanelIsTrue == PanelTypeOK /\ ShownIsPolled /\ AwaitingIsTrue
=============================================================================
