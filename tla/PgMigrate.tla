------------------------------ MODULE PgMigrate ------------------------------
(***************************************************************************)
(* The add-on's database service (ha-addon postgres/run), the major upgrade *)
(* it runs (pg-migrate/migrate.sh), and the application service that waits *)
(* for the database.  A directory holds nothing, a cluster or the beginning *)
(* of one; every command that leaves a trace on disk is a step of its own,  *)
(* so that the container can stop between any two of them.                  *)
(***************************************************************************)
EXTENDS Integers, FiniteSets

CONSTANTS
  MaxRows,      \* bound on the telegrams written
  MaxRestarts,  \* bound on the restarts of the container
  Envs          \* sets of habits

Habits ==
  {"fresh",     \* there is no database yet
   "tight",     \* the disk holds two copies of the database, not three
   "fails",     \* commands fail
   "torn",      \* the container also stops between the two renames and
                \* within the first initialisation
   "switches"}  \* the add-on is updated, and put back, more than once

Majors == 1..2
Dirs == {"data", "new", "old"}  \* DATADIR, NEW_DATADIR, BACKUP_DATADIR

Sized == MaxRows \in Nat \ {0} /\ MaxRestarts \in Nat /\ Envs \subseteq SUBSET Habits

VARIABLES
  habits,       \* the habits of this behaviour; fixed
  image,        \* major the add-on bundles
  dirs,         \* what every directory holds
  found,        \* what the data directory held when this boot began
  step,         \* where the database service is
  marker,       \* postgres.incompatible exists
  app,          \* the application service: "waiting", "refused" or "up"
  written,      \* telegrams written so far
  restarts      \* restarts of the container so far

vars == <<habits, image, dirs, found, step, marker, app, written, restarts>>

Dir(is, major, rows, ready, ext) ==
  [is |-> is, major |-> major, rows |-> rows, ready |-> ready, ext |-> ext]
Absent == Dir("none", 0, {}, FALSE, 0)
Empty == Dir("empty", 0, {}, FALSE, 0)
Partial(m) == Dir("partial", m, {}, FALSE, 0)    \* PG_VERSION exists, the rest may not
Cluster(m, rows, ready, ext) == Dir("cluster", m, rows, ready, ext)
Has(d) == dirs[d].is \in {"partial", "cluster"}  \* a non-empty PG_VERSION

Init ==
  /\ habits \in Envs /\ image \in Majors
  /\ IF "fresh" \in habits
       THEN written = 0 /\ dirs = [d \in Dirs |-> Absent]
       ELSE written = 1 /\ dirs = [d \in Dirs |-> IF d = "data" THEN Cluster(1, {1}, TRUE, 1) ELSE Absent]
  /\ found = dirs["data"] /\ step = "start" /\ marker = FALSE /\ app = "waiting" /\ restarts = 0

Goes(s) == step' = s /\ UNCHANGED <<habits, image, found, written, restarts, app>>
Stays(s) == Goes(s) /\ UNCHANGED <<dirs, marker>>
Puts(d, c) == dirs' = [dirs EXCEPT ![d] = c]
-----------------------------------------------------------------------------
(* postgres/run: the directory exists and an old marker does not; *)
Prepare ==
  /\ step = "start" /\ marker' = FALSE
  /\ dirs' = IF dirs["data"].is = "none" THEN [dirs EXCEPT !["data"] = Empty] ELSE dirs
  /\ found' = dirs'["data"] /\ step' = "check"
  /\ UNCHANGED <<habits, image, written, restarts, app>>

FreshWhenOther == IF Has("data") /\ dirs["data"].major = image THEN "serve" ELSE "initdb"   \* deviation

(* an empty one is initialised, one of this major served, another migrated. *)
WhatToDo ==
  IF ~Has("data") THEN "initdb" ELSE IF dirs["data"].major = image THEN "serve" ELSE "preflight"
Check == step = "check" /\ Stays(WhatToDo)

InitData == step = "initdb" /\ Puts("data", Partial(image)) /\ Goes("initing") /\ UNCHANGED marker
InitDone ==
  step = "initing" /\ Puts("data", Cluster(image, {}, FALSE, image)) /\ Goes("create") /\ UNCHANGED marker
Create == step = "create" /\ Puts("data", [dirs["data"] EXCEPT !.ready = TRUE]) /\ Goes("serve") /\ UNCHANGED marker

(* Half a cluster does not start, and the service begins again. *)
Serve == step = "serve" /\ Stays(IF dirs["data"].is = "cluster" THEN "running" ELSE "start")
-----------------------------------------------------------------------------
HoldsSilently == UNCHANGED marker                \* deviation
Marks == marker' = TRUE

(* pg-migrate exits with an error: the service leaves a marker and holds. *)
Hold == Goes("held") /\ Marks
Fails == "fails" \in habits

Used == Cardinality({d \in Dirs : Has(d)})
Room == IF "tight" \in habits THEN 2 ELSE 3

MayMigrate ==
  /\ dirs["data"].major < image /\ dirs["old"].is = "none" /\ Used < Room

Preflight ==
  /\ step = "preflight"
  /\ \/ MayMigrate /\ Stays("prepare")
     \/ (Fails \/ ~MayMigrate) /\ Hold /\ UNCHANGED dirs

(* The old cluster runs to have its extension brought up to date.  Up to   *)
(* here, and until pg_upgrade, an error removes the new directory.          *)
Trap == Puts("new", Absent) /\ Hold
PrepareOld ==
  /\ step = "prepare"
  /\ Puts("data", IF dirs["data"].is = "cluster" THEN [dirs["data"] EXCEPT !.ext = image] ELSE dirs["data"])
  /\ IF dirs["data"].is = "cluster" THEN Goes("init") /\ UNCHANGED marker ELSE Goes("held") /\ Marks
OldFails == step = "prepare" /\ Fails /\ Trap

OverWhatIsThere == dirs["new"].is = "none"       \* deviation
RemovesFirst == TRUE

(* rm -rf, initdb: a directory that is not empty could not be initialised. *)
InitNew ==
  /\ step = "init"
  /\ IF RemovesFirst THEN Puts("new", Partial(image)) /\ Goes("upgrade") /\ UNCHANGED marker ELSE Trap
InitFails == step = "init" /\ Fails /\ Trap

(* pg_upgrade in copy mode; its failure exits, which is not an error to the trap. *)
EmptyCopy == Cluster(image, {}, TRUE, image)     \* deviation
Upgraded == Cluster(image, dirs["data"].rows, dirs["data"].ready, dirs["data"].ext)
Upgrade == step = "upgrade" /\ Puts("new", Upgraded) /\ Goes("swap") /\ UNCHANGED marker
Links == Puts("data", [dirs["data"] EXCEPT !.ready = FALSE])   \* deviation
Copies == UNCHANGED dirs
UpgradeFails == step = "upgrade" /\ Fails /\ Hold /\ Copies

SetAside ==
  /\ step = "swap" /\ dirs' = [dirs EXCEPT !["old"] = dirs["data"], !["data"] = Absent]
  /\ Goes("swapping") /\ UNCHANGED marker
CopiesBack == Puts("data", dirs["new"])           \* deviation
MovesBack == dirs' = [dirs EXCEPT !["data"] = dirs["new"], !["new"] = Absent]
PutInPlace ==
  /\ step = "swapping" /\ MovesBack
  /\ Goes("post") /\ UNCHANGED marker

(* The extension and the statistics, then the service starts the database. *)
Post == step = "post" /\ Puts("data", [dirs["data"] EXCEPT !.ext = image]) /\ Goes("serve") /\ UNCHANGED marker
PostFails == step = "post" /\ Fails /\ Hold /\ UNCHANGED dirs
-----------------------------------------------------------------------------
(* spectrum_knx/run polls: the database, or else the marker. *)
AppChecks ==
  /\ app = "waiting"
  /\ app' = CASE step = "running" -> "up" [] step # "running" /\ marker -> "refused" [] OTHER -> "waiting"
  /\ UNCHANGED <<habits, image, dirs, found, step, marker, written, restarts>>

Write ==
  /\ app = "up" /\ step = "running" /\ dirs["data"].ready /\ written < MaxRows
  /\ written' = written + 1 /\ Puts("data", [dirs["data"] EXCEPT !.rows = @ \cup {written + 1}])
  /\ UNCHANGED <<habits, image, found, step, marker, app, restarts>>

(* The user deletes the old cluster, once satisfied. *)
DeleteOld ==
  /\ step = "running" /\ dirs["old"].is # "none" /\ dirs["old"].rows \subseteq dirs["data"].rows
  /\ Puts("old", Absent) /\ UNCHANGED <<habits, image, found, step, marker, app, written, restarts>>

(* The container stops anywhere, and starts with the same or another image. *)
Torn == step \in {"swapping", "initing", "create"}
Restart ==
  /\ restarts < MaxRestarts /\ restarts' = restarts + 1
  /\ Torn => "torn" \in habits
  /\ image' \in IF "switches" \in habits THEN Majors ELSE {image, 2}
  /\ step' = "start" /\ app' = "waiting"
  /\ UNCHANGED <<habits, dirs, found, marker, written>>

Script ==
  \/ Prepare \/ Check \/ InitData \/ InitDone \/ Create \/ Serve \/ Preflight \/ PrepareOld
  \/ InitNew \/ Upgrade \/ SetAside \/ PutInPlace \/ Post
Next ==
  \/ Script \/ OldFails \/ InitFails \/ UpgradeFails \/ PostFails
  \/ AppChecks \/ Write \/ DeleteOld \/ Restart

Fairness == WF_vars(Script) /\ WF_vars(AppChecks)
Spec == Init /\ [][Next]_vars /\ Fairness
-----------------------------------------------------------------------------
TypeOK ==
  /\ habits \subseteq Habits /\ image \in Majors /\ written \in 0..MaxRows /\ restarts \in 0..MaxRestarts
  /\ \A c \in {dirs[d] : d \in Dirs} \cup {found} :
        /\ c.is \in {"none", "empty", "partial", "cluster"} /\ c.major \in 0..2 /\ c.ext \in 0..2
        /\ c.rows \subseteq 1..written /\ c.ready \in BOOLEAN
  /\ step \in {"start", "check", "initdb", "initing", "create", "serve", "preflight", "prepare",
               "init", "upgrade", "swap", "swapping", "post", "running", "held"}
  /\ marker \in BOOLEAN /\ app \in {"waiting", "refused", "up"}

(* The disk is asked to hold two copies of the database, never a third.     *)
FitsOnDisk == "torn" \notin habits => Used <= 2

(* "refuses to start with an explanation rather than coming up with an     *)
(* empty database": what runs has every telegram ever written.  Taken       *)
(* literally it is false, because of a stop between the two renames; ...    *)
ComesUpWhole == step = "running" => dirs["data"].rows = 1..written

(* ... with that window left out, whatever else fails or stops, and however *)
(* often the add-on is updated and put back, it holds.                      *)
ServesEverything ==
  "torn" \notin habits => ComesUpWhole /\ (step = "running" => dirs["data"].ready)

(* No telegram is ever only in a directory that a step removes: even torn,  *)
(* every one is in a directory that is still there.                         *)
NothingLost == 1..written \subseteq UNION {dirs[d].rows : d \in Dirs}

(* A migration that gave up before the swap left the cluster as it was, the *)
(* extension's version apart, and one that gave up after it kept the old.   *)
Unchanged(c, d) == c.is = d.is /\ c.major = d.major /\ c.rows = d.rows /\ c.ready = d.ready
LeftAsFound ==
  step = "held" => \/ Unchanged(dirs["data"], found)
                   \/ dirs["data"].major = image /\ Unchanged(dirs["old"], found)

(* Unless commands fail or the disk is too small, the database comes up,    *)
(* whatever an interrupted migration left behind; only data of a newer      *)
(* major holds it off, or a directory set aside by an earlier migration.    *)
HeldRightly == step = "held" /\ (dirs["data"].major > image \/ dirs["old"].is # "none")
RetrySucceeds ==
  habits \cap {"fails", "torn", "tight"} = {} => []<>(step = "running" \/ HeldRightly)

(* "Without this check we would wait here forever": the application either  *)
(* finds the database or says why it will not.                              *)
NobodyWaitsForever == "torn" \notin habits => []<>(app # "waiting")

(* Whatever stops, fails or is put back during a major upgrade, no telegram is
   lost, what runs has them all, and giving up changes nothing (migrate.sh). *)
UpgradeIsSafe == TypeOK /\ FitsOnDisk /\ ServesEverything /\ NothingLost /\ LeftAsFound
=============================================================================
