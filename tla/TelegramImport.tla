--------------------------- MODULE TelegramImport ---------------------------
(***************************************************************************)
(* telegram_import.py and its endpoints, the export that pages through the *)
(* same store, and the page that starts an import and polls its state      *)
(* (ImportExportView).  An upload is a number of files, a file a sequence  *)
(* of records; a worker thread merges the files of a day record by record, *)
(* and the job's task awaits it, the store's query and its insert.         *)
(***************************************************************************)
EXTENDS Integers, Sequences, FiniteSets, SequencesExt

CONSTANTS
  Uploads,      \* the uploads to consider: sequences of files, of records
                \* [ts, frame, kind] of a kind in Kinds
  DedupWindow,  \* DEDUP_WINDOW
  PruneAfter,   \* seconds between two prunes of the recent frames
  Day,          \* timestamps of a day
  BatchSize,    \* BATCH_SIZE, and the page of an export
  MaxJobs,      \* bound on the jobs of a behaviour
  MaxTemps,     \* bound on the temporary files
  MaxFlights,   \* bound on the answers under way to the page
  Envs          \* sets of habits

Habits ==
  {"fails",     \* queries, inserts and temporary files fail
   "cancels",   \* imports are cancelled
   "others",    \* another client uploads as well
   "exports",   \* exports run, between imports
   "reorders",  \* answers overtake each other
   "loses"}     \* answers are lost

Kinds == {"group", "device", "ack", "corrupt", "broken"}

VARIABLES
  habits,       \* the habits of this behaviour; fixed
  upload,       \* the upload this behaviour imports, again and again; fixed
  uploading,    \* clients whose upload is being read
  temps,        \* temporary files on disk
  job,          \* current_job: state, cancel_requested and its counters
  jobs,         \* imports started so far
  pc,           \* where _run_import is
  todo,         \* groups of files still to be merged; the first is under way
  pos,          \* records read of every file
  recent,       \* frames kept lately, with their time
  lastPrune,    \* time of the last prune
  batch,        \* telegrams of the batch under way
  store,        \* the stored telegrams <<ts, frame>>, in order of insertion
  export,       \* rows of the export so far, and whether it is "none", "paging" or "over"
  shown,        \* state the page shows
  polling,      \* its interval runs
  flights       \* answers to it under way

task == <<pc, todo, pos, recent, lastPrune, batch>>
page == <<shown, polling, flights>>
const == <<habits, upload>>
vars == <<const, uploading, temps, job, jobs, task, store, export, page>>

(* What the proofs assume of the bounds and the logs: a log is whatever was
   heard, but its bytes tell a group telegram from one to a device. *)
Records == UNION {UNION {ToSet(file) : file \in ToSet(u)} : u \in Uploads}
Sized ==
  /\ Envs \subseteq SUBSET Habits /\ DedupWindow \in Nat /\ PruneAfter \in Nat /\ Day \in Nat \ {0}
  /\ BatchSize \in Nat \ {0} /\ MaxJobs \in Nat /\ MaxFlights \in Nat \ {0}
  /\ \A u \in Uploads : u \in Seq(Seq(Records))
  /\ \A r \in Records : r.ts \in Nat /\ r.kind \in Kinds
  /\ \A r, q \in Records : r.kind = "group" /\ q.kind = "device" => r.frame # q.frame

(* The members of P in the order of the relation R: each comes after those that
   R puts before it. *)
InOrder(P, R) == [k \in 1 .. Cardinality(P) |-> CHOOSE i \in P : Cardinality({j \in P : <<j, i>> \in R}) = k - 1]
Ascending(P) == InOrder(P, {w \in P \X P : w[1] < w[2]})

Counters == {"parsed", "imported", "duplicates", "acks", "nonGroup", "errors", "broken"}
NoJob == [state |-> "idle", cancel |-> FALSE, n |-> [c \in Counters |-> 0]]
Running == job.state = "running"
Count(j, c, by) == [j EXCEPT !.n[c] = @ + by]
NoExport == [rows |-> <<>>, state |-> "none"]
Long == -1000                   \* datetime.min

Init ==
  /\ habits \in Envs /\ upload \in Uploads /\ uploading = {} /\ temps = 0
  /\ job = NoJob /\ jobs = 0 /\ pc = "none" /\ todo = <<>> /\ pos = <<>>
  /\ recent = {} /\ lastPrune = Long /\ batch = <<>> /\ store = <<>> /\ export = NoExport
  /\ shown = "idle" /\ polling = FALSE /\ flights = <<"idle">>
-----------------------------------------------------------------------------
(* The page: every answer sets the state, polls run while it is "running". *)
Answer(s) == Len(flights) < MaxFlights /\ flights' = Append(flights, s)

NeverPolls(s) == FALSE                           \* deviation
PollsIn(s) == s = "running"

Show(i) ==
  /\ i = 1 \/ "reorders" \in habits
  /\ shown' = flights[i] /\ flights' = RemoveAt(flights, i) /\ polling' = PollsIn(shown')
  /\ UNCHANGED <<const, uploading, temps, job, jobs, task, store, export>>

Lose ==
  /\ "loses" \in habits /\ flights # <<>> /\ flights' = Tail(flights)
  /\ UNCHANGED <<const, uploading, temps, job, jobs, task, store, export, shown, polling>>

Poll ==
  /\ polling /\ Answer(job.state)
  /\ UNCHANGED <<const, uploading, temps, job, jobs, task, store, export, shown, polling>>

(* The page is left and opened again. *)
Mount ==
  /\ shown' = "idle" /\ polling' = FALSE /\ flights' = <<job.state>>
  /\ UNCHANGED <<const, uploading, temps, job, jobs, task, store, export>>
-----------------------------------------------------------------------------
(* start_telegram_import reads the upload into a temporary file ... *)
BeginUpload(c) ==
  /\ c \notin uploading /\ jobs < MaxJobs /\ temps < MaxTemps
  /\ IF c = "page" THEN shown # "running" ELSE "others" \in habits
  /\ export = NoExport
  /\ uploading' = uploading \cup {c} /\ temps' = temps + 1
  /\ UNCHANGED <<const, job, jobs, task, store, export, page>>

(* ... which stays behind when it cannot be written ... *)
UploadFails(c) ==
  /\ "fails" \in habits /\ c \in uploading /\ uploading' = uploading \ {c}
  /\ UNCHANGED <<const, temps, job, jobs, task, store, export, page>>

KeepsTemp == UNCHANGED temps                     \* deviation
Unlink == temps' = temps - 1

(* ... and start_import refuses it while a job runs. *)
Refuse(c) ==
  /\ c \in uploading /\ Running /\ uploading' = uploading \ {c} /\ Unlink
  /\ UNCHANGED <<const, job, jobs, task, store, export, page>>

(* _group_sources: the files by the day of their first record. *)
DayOf(f) == IF upload[f] = <<>> THEN -1 ELSE upload[f][1].ts \div Day
Groups ==
  LET days == Ascending({DayOf(f) : f \in DOMAIN upload})
  IN [i \in DOMAIN days |-> {f \in DOMAIN upload : DayOf(f) = days[i]}]

Start(c) ==
  /\ c \in uploading /\ ~Running /\ jobs < MaxJobs /\ uploading' = uploading \ {c}
  /\ job' = [NoJob EXCEPT !.state = "running"] /\ jobs' = jobs + 1
  /\ pc' = "thread" /\ todo' = Groups /\ pos' = [f \in DOMAIN upload |-> 0]
  /\ recent' = {} /\ lastPrune' = Long /\ batch' = <<>>
  /\ IF c = "page" THEN Answer("running") ELSE UNCHANGED flights
  /\ UNCHANGED <<const, temps, store, export, shown, polling>>

(* The page cancels and fetches the state. *)
Cancel ==
  /\ "cancels" \in habits /\ shown = "running"
  /\ job' = IF Running THEN [job EXCEPT !.cancel = TRUE] ELSE job
  /\ Answer(job.state)
  /\ UNCHANGED <<const, uploading, temps, jobs, task, store, export, shown, polling>>
-----------------------------------------------------------------------------
NeverEnds(j, state) ==                           \* deviation
  job' = j /\ pc' = "none" /\ todo' = <<>> /\ batch' = <<>> /\ temps' = temps - 1

(* The job ends; its temporary file is removed. *)
Finish(j, state) ==
  /\ job' = [j EXCEPT !.state = state] /\ pc' = "none" /\ todo' = <<>> /\ batch' = <<>>
  /\ temps' = temps - 1

(* heapq.merge takes the earliest of the files' next records. *)
Left == {f \in todo[1] : pos[f] < Len(upload[f])}
NextOf(f) == upload[f][pos[f] + 1]
Turn == CHOOSE f \in Left : \A g \in Left :
          NextOf(f).ts < NextOf(g).ts \/ (NextOf(f).ts = NextOf(g).ts /\ f <= g)

Refreshes(r, dup) == TRUE                        \* deviation
(* A frame is remembered when it is kept, not when a copy of it comes. *)
Remembers(r, dup) == ~dup

PrunesAll(seen, t) == {}                         \* deviation
Pruned(seen, t) == {x \in seen : t - x.ts <= DedupWindow}

(* One record of the merged stream: counted, and kept, skipped or refused. *)
Read ==
  LET r == NextOf(Turn)
      heard == r.kind \in {"group", "device"}
      kept == {x \in recent : x.frame = r.frame}
      dup == heard /\ \E x \in kept : r.ts - x.ts <= DedupWindow
      noted == IF heard /\ Remembers(r, dup) THEN (recent \ kept) \cup {[frame |-> r.frame, ts |-> r.ts]}
               ELSE recent
      prune == heard /\ ~dup /\ r.ts - lastPrune > PruneAfter
      fate == IF dup THEN "duplicates" ELSE IF r.kind = "device" THEN "nonGroup"
              ELSE IF r.kind = "ack" THEN "acks" ELSE "errors"
      counted == Count(job, "parsed", 1)
  IN /\ pc = "thread" /\ todo # <<>> /\ Left # {} /\ ~job.cancel
     /\ IF r.kind = "broken"          \* the parser gives this file up
        THEN /\ pos' = [pos EXCEPT ![Turn] = Len(upload[Turn])]
             /\ job' = Count(Count(job, "errors", 1), "broken", 1)
             /\ UNCHANGED <<recent, lastPrune, batch, pc>>
        ELSE /\ pos' = [pos EXCEPT ![Turn] = @ + 1]
             /\ recent' = IF prune THEN Pruned(noted, r.ts) ELSE noted
             /\ lastPrune' = IF prune THEN r.ts ELSE lastPrune
             /\ IF r.kind = "group" /\ ~dup
                THEN batch' = Append(batch, <<r.ts, r.frame>>) /\ job' = counted
                ELSE UNCHANGED batch /\ job' = Count(counted, fate, 1)
             /\ pc' = IF Len(batch') = BatchSize THEN "query" ELSE pc
     /\ UNCHANGED <<const, uploading, temps, jobs, todo, store, export, page>>

(* The generator is exhausted: a last batch, then the next group. *)
EndOfGroup ==
  /\ pc = "thread" /\ todo # <<>> /\ Left = {}
  /\ IF batch # <<>> THEN pc' = "query" /\ UNCHANGED <<todo, recent, lastPrune>>
     ELSE pc' = "thread" /\ todo' = Tail(todo) /\ recent' = {} /\ lastPrune' = Long
  /\ UNCHANGED <<const, uploading, temps, job, jobs, pos, batch, store, export, page>>

(* The thread notices a cancel at a record, the task between two groups. *)
StopThread ==
  /\ pc = "thread" /\ job.cancel /\ todo # <<>> /\ Left # {} /\ Finish(job, "cancelled")
  /\ UNCHANGED <<const, uploading, jobs, pos, recent, lastPrune, store, export, page>>

Done ==
  /\ pc = "thread" /\ todo = <<>> /\ Finish(job, "done")
  /\ UNCHANGED <<const, uploading, jobs, pos, recent, lastPrune, store, export, page>>

NothingStored == {}                              \* deviation
(* _existing_keys: what the store has between the batch's first and last. *)
Existing == {t \in ToSet(store) : batch[1][1] <= t[1] /\ t[1] <= Last(batch)[1]}

Uncounted(n) == job                              \* deviation
Skipped(n) == Count(job, "duplicates", n)

(* The query is answered; what it does not list goes to the store. *)
Query ==
  /\ pc = "query" /\ pc' = "insert"
  /\ LET fresh == Ascending({i \in DOMAIN batch : batch[i] \notin Existing})
     IN batch' = [k \in DOMAIN fresh |-> batch[fresh[k]]]
  /\ job' = Skipped(Len(batch) - Len(batch'))
  /\ UNCHANGED <<const, uploading, temps, jobs, todo, pos, recent, lastPrune, store, export, page>>

Insert ==
  LET counted == Count(job, "imported", Len(batch))
  IN /\ pc = "insert" /\ store' = store \o batch
     /\ IF job.cancel THEN Finish(counted, "cancelled")
        ELSE job' = counted /\ pc' = "thread" /\ batch' = <<>> /\ UNCHANGED <<temps, todo>>
     /\ UNCHANGED <<const, uploading, jobs, pos, recent, lastPrune, export, page>>

Fail ==
  /\ "fails" \in habits /\ pc \in {"query", "insert"} /\ Finish(job, "failed")
  /\ UNCHANGED <<const, uploading, jobs, pos, recent, lastPrune, store, export, page>>
-----------------------------------------------------------------------------
(* export_telegrams: pages of the store in order of time, until one is short. *)
BeginExport ==
  /\ "exports" \in habits /\ ~Running /\ uploading = {} /\ export = NoExport /\ store # <<>>
  /\ export' = [export EXCEPT !.state = "paging"]
  /\ UNCHANGED <<const, uploading, temps, job, jobs, task, store, page>>

AtStart == 0                                     \* deviation
Offset == Len(export.rows)
Rows ==
  LET at == DOMAIN store
      order == InOrder(at, {w \in at \X at : LET s == store[w[1]] t == store[w[2]]
                                            IN s[1] < t[1] \/ (s[1] = t[1] /\ w[1] < w[2])})
  IN [k \in at |-> store[order[k]]]
ExportPage ==
  LET rows == Rows
      chunk == SubSeq(rows, Offset + 1, Min({Offset + BatchSize, Len(rows)}))
  IN /\ export.state = "paging"
     /\ export' = [rows |-> export.rows \o chunk,
                   state |-> IF Len(chunk) = BatchSize /\ Len(export.rows) < Len(rows)
                             THEN "paging" ELSE "over"]
     /\ UNCHANGED <<const, uploading, temps, job, jobs, task, store, page>>

EndExport ==
  /\ export.state = "over" /\ export' = NoExport
  /\ UNCHANGED <<const, uploading, temps, job, jobs, task, store, page>>

TaskStep == Read \/ EndOfGroup \/ StopThread \/ Done \/ Query \/ Insert
PageStep == Poll \/ \E i \in DOMAIN flights : Show(i)

Next ==
  \/ \E c \in {"page", "other"} : BeginUpload(c) \/ UploadFails(c) \/ Refuse(c) \/ Start(c)
  \/ TaskStep \/ Fail \/ Cancel \/ PageStep \/ Lose \/ Mount
  \/ BeginExport \/ ExportPage \/ EndExport

(* The event loop runs the job, the browser polls and is answered. *)
Fairness == WF_vars(TaskStep) /\ WF_vars(PageStep)

Spec == Init /\ [][Next]_vars /\ Fairness
-----------------------------------------------------------------------------
(* Every variable has its type, and the task is there while the job runs. *)
TypeOK ==
  /\ job.state \in {"idle", "running", "done", "failed", "cancelled"} /\ job.n \in [Counters -> Nat]
  /\ pc \in {"none", "thread", "query", "insert"} /\ Running = (pc # "none")
  /\ Len(batch) <= BatchSize /\ jobs \in 0 .. MaxJobs /\ Len(flights) <= MaxFlights
  /\ polling \in BOOLEAN

Sorted == \A f \in DOMAIN upload : \A i \in 2 .. Len(upload[f]) : upload[f][i - 1].ts <= upload[f][i].ts
Whole == \A f \in DOMAIN upload : \A i \in DOMAIN upload[f] : upload[f][i].kind # "broken"

(* A temporary file belongs to an upload being read or to the job, however
   uploads, refusals and jobs end; only a failed write leaves one behind. *)
NoTempLeft ==
  "fails" \in habits \/ temps = Cardinality(uploading) + (IF Running THEN 1 ELSE 0)

(* "Idempotent re-import": no telegram is stored twice, wherever an earlier
   import of the same log was cancelled or failed, if the log is in order. *)
NeverTwice == Sorted => IsInjective(store)

(* The copies of a telegram on two media become one: files of one day leave no
   frame twice within the window. *)
Daily == \A f \in DOMAIN upload : \A i \in DOMAIN upload[f] : upload[f][i].ts \div Day = DayOf(f)
OncePerWindow ==
  Sorted /\ Daily => \A i, j \in DOMAIN store :
    LET s == store[i] t == store[j]
    IN i # j /\ s[2] = t[2] /\ s[1] \div Day = t[1] \div Day /\ s[1] <= t[1] => t[1] - s[1] > DedupWindow

(* When a job is done, every telegram of its log is stored, or a copy at most
   the window older: a second import completes what a first one began. *)
DoneMeansStored ==
  job.state = "done" /\ Sorted /\ Whole =>
    \A f \in DOMAIN upload : \A i \in DOMAIN upload[f] :
      LET r == upload[f][i]
      IN r.kind = "group" => \E t \in ToSet(store) : t[2] = r.frame /\ r.ts - t[1] \in 0 .. DedupWindow

(* The counters of a finished job account for every record it parsed. *)
CountersAddUp ==
  job.state = "done" =>
    job.n["parsed"] + job.n["broken"] =
      job.n["imported"] + job.n["duplicates"] + job.n["acks"] + job.n["nonGroup"] + job.n["errors"]

(* An export has every stored telegram once, in order, across its pages. *)
ExportExact ==
  export.state = "over" =>
    /\ Len(export.rows) = Len(store) /\ ToSet(export.rows) = ToSet(store)
    /\ \A i \in 2 .. Len(store) : export.rows[i - 1][1] <= export.rows[i][1]

(* A page that shows a running import comes to show how it ended, although it
   polls no longer than that; unless the page is opened anew, or answers
   overtake each other or get lost. *)
OutcomeShown ==
  \A j \in 1 .. MaxJobs :
    jobs = j /\ shown = "running" /\ habits \cap {"reorders", "loses"} = {}
      ~> jobs > j \/ shown = "idle" \/ (~Running /\ shown = job.state)

(* Imports and exports over one another, cancelled, failed and repeated: what
   they store, count, leave behind and hand out (telegram_import.py, telegram_export.py). *)
ImportIsExact ==
  TypeOK /\ NoTempLeft /\ NeverTwice /\ OncePerWindow /\ DoneMeansStored /\ CountersAddUp /\ ExportExact
=============================================================================
