------------------------------ MODULE MC_Server ------------------------------
(* The server's other jobs, none of which touches another's state: the hold of
   a backup, the import of logs, the upgrades of the database, the project's
   files and the check for updates.  `part` names the one that
   runs, the others stay as they start. *)
EXTENDS BackupHold

VARIABLES
  part,
  imHabits, upload, uploading, temps, imJob, jobs, imPc, todo, pos, recent, lastPrune, imBatch, store, export,
  imShown, polling, flights,
  pgHabits, image, pgDirs, found, pgStep, marker, app, written, pgRestarts,
  fails, cmMajor, cmRows, cmSeq, script, copied, before, printed, cmEnv, stack, runs,
  pfHabits, proj, pwd, meta, loaded, phase, unseen, overlapped, byHand, pfRestarts,
  upHabits, current, releases, cache, life, since, upAsks, holder, upPage, upSeen, upShown, again

(* Logs of one and two days, on one and two media, and one out of order. *)
Rec(ts, frame, kind) == [ts |-> ts, frame |-> frame, kind |-> kind]
ImUploads == {
  << <<Rec(1, "A", "group"), Rec(3, "B", "group"), Rec(4, "A", "group"), Rec(4, "D", "device")>>,
     <<Rec(2, "A", "group"), Rec(2, "A", "ack"), Rec(4, "B", "group")>> >>,
  << <<Rec(1, "A", "group"), Rec(2, "A", "broken"), Rec(3, "A", "group")>>,
     <<Rec(11, "A", "group"), Rec(12, "A", "group"), Rec(13, "A", "group"), Rec(13, "C", "corrupt")>>, <<>> >>,
  << <<Rec(5, "A", "group"), Rec(3, "B", "group"), Rec(6, "A", "group")>> >>,
  << <<Rec(1, "A", "group"), Rec(5, "B", "group"), Rec(5, "C", "group"), Rec(6, "B", "group"), Rec(7, "A", "group"),
       Rec(7, "B", "group")>> >> }
ImEnvs == {{"cancels", "fails"}, {"others", "exports"}, {"reorders", "loses"}}
Im == INSTANCE TelegramImport WITH
  Uploads <- ImUploads, DedupWindow <- 1, PruneAfter <- 2, Day <- 10, BatchSize <- 2, MaxJobs <- 2, MaxTemps <- 2,
  MaxFlights <- 2, Envs <- ImEnvs, habits <- imHabits, job <- imJob, pc <- imPc, batch <- imBatch, shown <- imShown

(* Three telegrams and four restarts. *)
PgEnvs == {{"switches"}, {"switches", "tight", "fails"}, {"fails"}, {"torn"}, {"fresh"}, {"fresh", "torn"}}
Pg == INSTANCE PgMigrate WITH
  MaxRows <- 3, MaxRestarts <- 4, Envs <- PgEnvs,
  habits <- pgHabits, dirs <- pgDirs, step <- pgStep, restarts <- pgRestarts

Cm == INSTANCE ComposeMigrate WITH
  Tables <- {"string_lookup", "telegrams"}, Serial <- "string_lookup", MaxRows <- 4, MaxRuns <- 3,
  major <- cmMajor, rows <- cmRows, env <- cmEnv, seq <- cmSeq

(* Two projects and a file that does not open. *)
PfEnvs ==
  {{"several", "restarts"}, {"byHand", "restarts"}, {"byHand", "custom", "restarts"}, {"readonly"},
   {"custom", "password"}, {"password"}}
OpensWith(file, password) == file # "bad" /\ file = password
Pf == INSTANCE ProjectFiles WITH
  Uploads <- {"house", "garage", "bad"}, Opens <- OpensWith, MaxRestarts <- 2, Envs <- PfEnvs,
  habits <- pfHabits, restarts <- pfRestarts

(* 1.0, 2.0-beta.1, 2.0-beta.2 and 2.0. *)
Ver(n, pre) == [n |-> n, pre |-> pre]
UpEnvs == {{"mislabels"}, {"backports", "fails"}, {"tabs"}}
Up == INSTANCE UpdateCheck WITH
  Versions <- {Ver(1, 0), Ver(2, 1), Ver(2, 2), Ver(2, 0)}, Current <- {Ver(1, 0), Ver(2, 1)}, Clients <- {"tab1", "tab2"},
  Ttl <- 3, ErrorTtl <- 2, MaxReleases <- 3, Envs <- UpEnvs,
  habits <- upHabits, asks <- upAsks, page <- upPage, seen <- upSeen, shown <- upShown

(* These instances are among those the theorems of the parts speak of. *)
ASSUME SizedAssumption == Im!Sized /\ Pg!Sized /\ Cm!Sized /\ Pf!Sized /\ Up!Sized

imVars == <<imHabits, upload, uploading, temps, imJob, jobs, imPc, todo, pos, recent, lastPrune, imBatch, store, export,
            imShown, polling, flights>>
pgVars == <<pgHabits, image, pgDirs, found, pgStep, marker, app, written, pgRestarts>>
cmVars == <<fails, cmMajor, cmRows, cmSeq, script, copied, before, printed, cmEnv, stack, runs>>
pfVars == <<pfHabits, proj, pwd, meta, loaded, phase, unseen, overlapped, byHand, pfRestarts>>
upVars == <<upHabits, current, releases, cache, life, since, upAsks, holder, upPage, upSeen, upShown, again>>
unionVars == <<part, vars, imVars, pgVars, cmVars, pfVars, upVars>>
Starting(of, choice, envs) == part # of => choice = CHOOSE e \in envs : TRUE

MCInit ==
  /\ part \in {"hold", "import", "addon", "compose", "project", "update"}
  /\ Init
  /\ Im!Init /\ Starting("import", <<imHabits, upload>>, ImEnvs \X ImUploads)
  /\ Pg!Init /\ Starting("addon", <<pgHabits, image>>, PgEnvs \X {1})
  /\ Cm!Init /\ Starting("compose", fails, BOOLEAN)
  /\ Pf!Init /\ Starting("project", pfHabits, PfEnvs)
  /\ Up!Init /\ Starting("update", <<upHabits, current>>, UpEnvs \X {Ver(1, 0)})

MCNext ==
  /\ UNCHANGED part
  /\ \/ part = "hold" /\ Next /\ UNCHANGED <<imVars, pgVars, cmVars, pfVars, upVars>>
     \/ part = "import" /\ Im!Next /\ UNCHANGED <<vars, pgVars, cmVars, pfVars, upVars>>
     \/ part = "addon" /\ Pg!Next /\ UNCHANGED <<vars, imVars, cmVars, pfVars, upVars>>
     \/ part = "compose" /\ Cm!Next /\ UNCHANGED <<vars, imVars, pgVars, pfVars, upVars>>
     \/ part = "project" /\ Pf!Next /\ UNCHANGED <<vars, imVars, pgVars, cmVars, upVars>>
     \/ part = "update" /\ Up!Next /\ UNCHANGED <<vars, imVars, pgVars, cmVars, pfVars>>

MCSpec == MCInit /\ [][MCNext]_unionVars
-----------------------------------------------------------------------------
(* Writes are never held off for good (database.py, api.py:751-800). *)
HoldEnds == part = "hold" /\ Fairness => WritesResume

(* Imports and exports: see TelegramImport (telegram_import.py). *)
ImportIsExact == part = "import" => Im!ImportIsExact

(* The upgrades of the add-on and of Compose: see PgMigrate, ComposeMigrate. *)
UpgradeIsSafe ==
  /\ part = "addon" => Pg!UpgradeIsSafe
  /\ part = "compose" => Cm!StackIsSafe

(* An upgrade that was interrupted comes to an end, nobody waits for it for
   good, and one that says it is complete carried everything across
   (migrate.sh, compose-migrate.sh). *)
UpgradeEnds ==
  /\ part = "addon" /\ Pg!Fairness => Pg!RetrySucceeds
  /\ part = "addon" /\ Pg!Fairness => Pg!NobodyWaitsForever
  /\ Cm!CompleteMeansAll

(* The project's files: see ProjectFiles (api.py, knx_daemon.py). *)
FilesAgree == part = "project" => Pf!FilesAgree

(* The updates: see UpdateCheck (update_check.py). *)
OffersTruly == part = "update" => Up!OffersTruly

(* A project is not forgotten for a broken file, and GitHub is asked once per
   validity of an answer (knx_daemon.py, update_check.py). *)
ServerKeeps == Pf!KeepsNames /\ Up!AsksRarely

(* What changed on the server is noticed: the outcome of an import by the page,
   a project file by the watcher, and a release by every page
   (ImportExportView.tsx, knx_daemon.py, useUpdateCheck.ts). *)
ChangesAreNoticed ==
  /\ part = "import" /\ Im!Fairness => Im!OutcomeShown
  /\ part = "project" /\ Pf!Fairness => Pf!WatcherCatchesUp
  /\ part = "update" /\ Up!Fairness => Up!Noticed
=============================================================================
