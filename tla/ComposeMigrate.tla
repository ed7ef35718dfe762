---------------------------- MODULE ComposeMigrate ----------------------------
(***************************************************************************)
(* pg-migrate/compose-migrate.sh, which copies the tables of a Compose      *)
(* deployment into a second volume, and the db-precheck of                  *)
(* docker-compose.yml, which compares a volume with the configured image.   *)
(***************************************************************************)
EXTENDS Integers, FiniteSets

CONSTANTS
  Tables,       \* the tables carried across
  Serial,       \* the table whose rows are numbered by a sequence
  MaxRows,      \* bound on the rows of a table
  MaxRuns       \* bound on the runs of the script

Sized == MaxRows \in Nat /\ Serial \in Tables

Volumes == {"source", "target"}

VARIABLES
  fails,        \* commands of the script fail; fixed
  major,        \* major whose cluster a volume holds, 0 for none
  rows,         \* rows of every table of a volume
  seq,          \* position of the sequence of a volume
  script,       \* "off", "starting", "copying", "verifying"
  copied,       \* tables done by this run
  before,       \* rows counted at its start
  printed,      \* a run said "Migration complete"
  env,          \* the volume and the major Compose is configured for
  stack,        \* the stack is up
  runs          \* runs of the script so far

vars == <<fails, major, rows, seq, script, copied, before, printed, env, stack, runs>>

Old == 1
New == 2
None == [t \in Tables |-> {}]
Config(v, m) == [volume |-> v, major |-> m]
Highest(s) == CHOOSE n \in s \cup {0} : \A m \in s : m <= n

Init ==
  /\ fails \in BOOLEAN /\ runs = 0 /\ script = "off" /\ copied = {} /\ printed = FALSE
  /\ major = [v \in Volumes |-> IF v = "source" THEN Old ELSE 0]
  /\ rows = [v \in Volumes |-> IF v = "source" THEN [t \in Tables |-> {1, 2}] ELSE None]
  /\ seq = [v \in Volumes |-> IF v = "source" THEN 2 ELSE 0]
  /\ before = [t \in Tables |-> 0] /\ env = Config("source", New) /\ stack = FALSE
-----------------------------------------------------------------------------
OnlyNumbered == {Serial}                         \* deviation
Carried == Tables               \* TABLES, those that exist

MayStart == major["source"] # New /\ major["target"] = 0

(* The stack is down, as documented, and the target holds no cluster. *)
Start ==
  /\ script = "off" /\ ~stack /\ runs < MaxRuns /\ MayStart
  /\ script' = "starting" /\ copied' = {} /\ runs' = runs + 1
  /\ UNCHANGED <<fails, major, rows, seq, before, printed, env, stack>>

(* Both clusters, the counts, and the schema. *)
Ready ==
  /\ script = "starting" /\ script' = "copying"
  /\ major' = [major EXCEPT !["target"] = New]
  /\ before' = [t \in Tables |-> Cardinality(rows["source"][t])]
  /\ UNCHANGED <<fails, rows, seq, copied, printed, env, stack, runs>>

Copy(t) ==
  /\ script = "copying" /\ t \in Carried \ copied
  /\ rows' = [rows EXCEPT !["target"][t] = @ \cup rows["source"][t]] /\ copied' = copied \cup {t}
  /\ UNCHANGED <<fails, major, seq, script, before, printed, env, stack, runs>>

LeavesBehind == UNCHANGED seq                    \* deviation
Advances == seq' = [seq EXCEPT !["target"] = Highest(rows["target"][Serial] \cup {1})]

Sequences ==
  /\ script = "copying" /\ copied = Carried /\ script' = "verifying" /\ Advances
  /\ UNCHANGED <<fails, major, rows, copied, before, printed, env, stack, runs>>

(* A command fails, or the script is stopped: it exits, what it wrote stays. *)
Exit ==
  /\ fails /\ script # "off" /\ script' = "off"
  /\ \/ UNCHANGED <<major, rows>>
     \/ script = "starting" /\ major' = [major EXCEPT !["target"] = New] /\ UNCHANGED rows
     \/ /\ script = "copying"
        /\ \E t \in Carried \ copied : \E s \in SUBSET rows["source"][t] :
              rows' = [rows EXCEPT !["target"][t] = @ \cup s]
        /\ UNCHANGED major
  /\ UNCHANGED <<fails, seq, copied, before, printed, env, stack, runs>>

Verify ==
  /\ script = "verifying" /\ script' = "off"
  /\ printed' = (printed \/ \A t \in Carried : Cardinality(rows["target"][t]) = before[t])
  /\ UNCHANGED <<fails, major, rows, seq, copied, before, env, stack, runs>>
-----------------------------------------------------------------------------
(* The user removes an incomplete target; points Compose at the migrated   *)
(* volume once told to, stays on the old version, or goes back.             *)
Remove ==
  /\ script = "off" /\ ~printed /\ major["target"] # 0
  /\ major' = [major EXCEPT !["target"] = 0] /\ rows' = [rows EXCEPT !["target"] = None]
  /\ seq' = [seq EXCEPT !["target"] = 0]
  /\ UNCHANGED <<fails, script, copied, before, printed, env, stack, runs>>

Edit ==
  /\ ~stack /\ env' \in {Config(v, m) : v \in Volumes, m \in {Old, New}}
  /\ env'.volume = "target" => printed
  /\ UNCHANGED <<fails, major, rows, seq, script, copied, before, printed, stack, runs>>

Trusts == TRUE                                   \* deviation
Precheck == major[env.volume] \in {0, env.major}

Up ==
  /\ ~stack /\ script = "off" /\ Precheck /\ stack' = TRUE
  /\ major' = [major EXCEPT ![env.volume] = IF @ = 0 THEN env.major ELSE @]
  /\ UNCHANGED <<fails, rows, seq, script, copied, before, printed, env, runs>>

Down ==
  /\ stack /\ stack' = FALSE
  /\ UNCHANGED <<fails, major, rows, seq, script, copied, before, printed, env, runs>>

(* The application stores rows; the sequence numbers those of Serial. *)
Write(t) ==
  LET v == env.volume
      id == IF t = Serial THEN seq[v] + 1 ELSE Highest(rows[v][t]) + 1 IN
  /\ stack /\ id <= MaxRows /\ id \notin rows[v][t]
  /\ rows' = [rows EXCEPT ![v][t] = @ \cup {id}]
  /\ seq' = IF t = Serial THEN [seq EXCEPT ![v] = id] ELSE seq
  /\ UNCHANGED <<fails, major, script, copied, before, printed, env, stack, runs>>

Next ==
  \/ Start \/ Ready \/ Sequences \/ Verify \/ Exit \/ Remove \/ Edit \/ Up \/ Down
  \/ \E t \in Tables : Copy(t) \/ Write(t)
Spec == Init /\ [][Next]_vars
-----------------------------------------------------------------------------
(* A database serves a volume of its own major, whatever is configured.     *)
ServesOwnMajor == stack => major[env.volume] = env.major

(* A run that says it is complete left every row of the original in the     *)
(* migrated volume, whichever runs failed before.                           *)
CompleteMeansAll ==
  [][printed' /\ ~printed => \A t \in Tables : rows["target"][t] = rows["source"][t]]_vars

(* The next number of the migrated sequence is one no row has: inserts into *)
(* it do not collide.                                                       *)
NumbersFresh == stack => seq[env.volume] + 1 \notin rows[env.volume][Serial]

(* The stack runs on data of its own major, and its next number is free
   (compose-migrate.sh). *)
StackIsSafe == ServesOwnMajor /\ NumbersFresh
=============================================================================
