----------------------------- MODULE ProjectFiles -----------------------------
(***************************************************************************)
(* The ETS project: the upload endpoint and the three files it writes,     *)
(* _load_project_data, the file watcher's half for the project, and the    *)
(* status the page decides the upload wizard by.  A handler runs alone      *)
(* between awaits; the threads that write the files do not.  An upload is   *)
(* a project with the password that came with it; it opens if both belong   *)
(* together.                                                                *)
(***************************************************************************)
EXTENDS Integers

CONSTANTS
  Uploads,      \* what may be uploaded or put in place by hand
  Opens(_, _),  \* the project of an upload opens with the password of another
  MaxRestarts,  \* bound on the restarts of the server
  Envs          \* sets of habits

Habits ==
  {"several",   \* uploads overlap
   "byHand",    \* files are also replaced outside the application
   "restarts",  \* the server restarts
   "readonly",  \* the project file cannot be written
   "custom",    \* KNX_PROJECT_PATH is set
   "password"}  \* KNX_PASSWORD is set

None == "none"
Torn == "torn"
Sized == MaxRestarts \in Nat /\ Envs \subseteq SUBSET Habits /\ Uploads \cap {None, Torn} = {}
Phases == {"new", "saving", "writing", "locking", "saved", "noting", "ok", "failed", "refused"}

VARIABLES
  habits,       \* the habits of this behaviour; fixed
  proj,         \* the project file: None, Torn or an upload
  pwd,          \* whose password the sidecar holds
  meta,         \* whose name and date the other sidecar holds
  loaded,       \* the project in memory
  phase,        \* phase of every upload
  unseen,       \* the file changed after the time the watcher remembers
  overlapped,   \* two uploads were in flight at once
  byHand,       \* the file was replaced by hand after the last load of it
  restarts      \* restarts of the server so far

vars == <<habits, proj, pwd, meta, loaded, phase, unseen, overlapped, byHand, restarts>>

(* KNX_PASSWORD is the password of every upload, as its owner intended.  It *)
(* keeps the default path from being looked for at all.                     *)
Custom == "custom" \in habits
EnvPassword == "password" \in habits
Looks == Custom \/ ~EnvPassword
(* What _load_project_data would open now; None if it fails. *)
Parsed ==
  IF /\ Looks /\ proj \in Uploads
     /\ pwd # None \/ Custom
     /\ Opens(proj, IF EnvPassword THEN proj ELSE pwd)
  THEN proj ELSE None

InFlight == {u \in Uploads : phase[u] \in {"saving", "writing", "locking", "saved", "noting"}}

Init ==
  /\ habits \in Envs /\ proj = None /\ pwd = None /\ meta = None /\ loaded = None
  /\ phase = [u \in Uploads |-> "new"] /\ unseen = FALSE /\ overlapped = FALSE /\ byHand = FALSE /\ restarts = 0

Moves(u, p) == phase' = [phase EXCEPT ![u] = p]
Writing == {u \in Uploads : phase[u] \in {"writing", "locking"}}
-----------------------------------------------------------------------------
Begin(u) ==
  /\ phase[u] = "new" /\ (InFlight # {} => "several" \in habits)
  /\ Moves(u, "saving") /\ overlapped' = (overlapped \/ InFlight # {})
  /\ UNCHANGED <<habits, proj, pwd, meta, loaded, unseen, byHand, restarts>>

(* save_project_files, in its thread: the file is emptied, ... *)
Truncate(u) ==
  /\ phase[u] = "saving"
  /\ IF "readonly" \in habits
       THEN Moves(u, "refused") /\ UNCHANGED <<proj, unseen>>
       ELSE Moves(u, "writing") /\ proj' = Torn /\ unseen' = TRUE
  /\ UNCHANGED <<habits, pwd, meta, loaded, overlapped, byHand, restarts>>

(* ... written, ... *)
WriteProject(u) ==
  /\ phase[u] = "writing" /\ Moves(u, "locking") /\ unseen' = TRUE
  /\ proj' \in {u} \cup (IF Writing # {u} THEN {Torn} ELSE {})
  /\ UNCHANGED <<habits, pwd, meta, loaded, overlapped, byHand, restarts>>

(* ... and the password saved, unless a custom path comes with KNX_PASSWORD. *)
HasSidecar == ~(Custom /\ EnvPassword)
WritePassword(u) ==
  /\ phase[u] = "locking" /\ Moves(u, "saved") /\ pwd' = IF HasSidecar THEN u ELSE pwd
  /\ UNCHANGED <<habits, proj, meta, loaded, unseen, overlapped, byHand, restarts>>

KeepsMeta == UNCHANGED meta                      \* deviation
DropsMeta == meta' = None

AssignsBeforeParsing == loaded' = IF proj = None THEN loaded ELSE proj   \* deviation
ForgetsOnError == loaded' = Parsed               \* deviation
AssignsIfParsed == loaded' = IF Parsed # None THEN Parsed ELSE loaded

(* Back on the loop: load, and on failure remove what was written. *)
Load(u) ==
  /\ phase[u] = "saved" /\ AssignsIfParsed
  /\ IF Parsed # None
       THEN Moves(u, "noting") /\ UNCHANGED <<proj, pwd, meta>> /\ byHand' = FALSE
       ELSE /\ Moves(u, "failed") /\ DropsMeta
            /\ proj' = IF Custom THEN proj ELSE None
            /\ pwd' = IF HasSidecar THEN None ELSE pwd
            /\ UNCHANGED byHand
  /\ UNCHANGED <<habits, unseen, overlapped, restarts>>

(* save_meta, in a thread too; failing is not fatal. *)
Note(u) ==
  /\ phase[u] = "noting" /\ Moves(u, "ok") /\ meta' = u
  /\ UNCHANGED <<habits, proj, pwd, loaded, unseen, overlapped, byHand, restarts>>
-----------------------------------------------------------------------------
(* Somebody copies a project, with its password, over the one in use. *)
Replace(u) ==
  /\ "byHand" \in habits /\ InFlight = {} /\ proj # u
  /\ proj' = u /\ unseen' = TRUE /\ byHand' = TRUE
  /\ pwd' = IF HasSidecar THEN u ELSE pwd
  /\ UNCHANGED <<habits, meta, loaded, phase, overlapped, restarts>>

SeesOnce == ~\E u \in Uploads : loaded = u       \* deviation
Sees == Looks /\ proj # None /\ unseen

(* _watch_files: a newer file is loaded, and its time remembered. *)
Watch ==
  /\ Sees /\ AssignsIfParsed /\ unseen' = FALSE
  /\ UNCHANGED <<habits, proj, pwd, meta, phase, overlapped, byHand, restarts>>

Restart ==
  /\ "restarts" \in habits /\ restarts < MaxRestarts /\ restarts' = restarts + 1
  /\ InFlight = {} /\ loaded' = Parsed /\ unseen' = FALSE
  /\ UNCHANGED <<habits, proj, pwd, meta, phase, overlapped, byHand>>

(* An upload answered can be tried again. *)
Again(u) ==
  /\ phase[u] \in {"ok", "failed", "refused"} /\ Moves(u, "new")
  /\ UNCHANGED <<habits, proj, pwd, meta, loaded, unseen, overlapped, byHand, restarts>>

UploadSteps(u) == Truncate(u) \/ WriteProject(u) \/ WritePassword(u) \/ Load(u) \/ Note(u)
Next ==
  \/ \E u \in Uploads : Begin(u) \/ UploadSteps(u) \/ Replace(u) \/ Again(u)
  \/ Watch \/ Restart

Fairness == WF_vars(Watch) /\ \A u \in Uploads : WF_vars(UploadSteps(u))
Spec == Init /\ [][Next]_vars /\ Fairness
-----------------------------------------------------------------------------
TypeOK ==
  /\ habits \subseteq Habits /\ proj \in Uploads \cup {None, Torn} /\ restarts \in 0..MaxRestarts
  /\ {pwd, meta, loaded} \subseteq Uploads \cup {None} /\ phase \in [Uploads -> Phases]
  /\ {unseen, overlapped, byHand} \subseteq BOOLEAN
  /\ HasSidecar \/ pwd = None

(* The name and date shown describe the project in use: when nothing is     *)
(* under way and no two uploads overlapped, they are those of the file that *)
(* a restart would load, unless it was replaced by hand.  Uploads that      *)
(* overlap break it: the one that fails removes the file of the other.      *)
MetaTells ==
  ~overlapped /\ InFlight = {} /\ ~byHand /\ meta # None => meta = Parsed

(* A broken or unreadable file never takes the project away while the       *)
(* server runs: telegrams keep their names.                                 *)
KeepsNames == [][loaded # None /\ loaded' = None => restarts' # restarts]_vars

(* What is in memory is what the file holds, once uploads have ended, if it *)
(* opens at all: the watcher sees to it.                                    *)
WatcherCatchesUp ==
  \A u \in Uploads : <>[](Parsed = u /\ InFlight = {}) => <>[](loaded = u)

(* The files on disk and what is said of them agree (api.py, knx_daemon.py). *)
FilesAgree == TypeOK /\ MetaTells
=============================================================================
