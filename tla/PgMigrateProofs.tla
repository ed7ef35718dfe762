--------------------------- MODULE PgMigrateProofs ---------------------------
(***************************************************************************)
(* Machine-checked proofs about PgMigrate, for any number of telegrams and *)
(* restarts and any choice of habits; and, behind them, about the other    *)
(* upgrade, that of a Compose deployment (ComposeMigrate).                 *)
(*                                                                         *)
(* What the properties say of a boot that serves or has given up depends   *)
(* on what every command before it left on disk: which directory has the   *)
(* telegrams while the script is under way (Accounted, WholeUnlessTorn)    *)
(* and what was there when the boot began (AsFound).                       *)
(***************************************************************************)
EXTENDS PgMigrate, FiniteSetTheorems, NaturalsInduction, WellFoundedInduction, TLAPS

Steps == {"start", "check", "initdb", "initing", "create", "serve", "preflight", "prepare",
          "init", "upgrade", "swap", "swapping", "post", "running", "held"}
Contents ==
  [is : {"none", "empty", "partial", "cluster"}, major : 0 .. 2, rows : SUBSET (1 .. written),
   ready : BOOLEAN, ext : 0 .. 2]

Types ==
  /\ habits \in SUBSET Habits /\ image \in Majors /\ written \in 0 .. MaxRows /\ restarts \in 0 .. MaxRestarts
  /\ dirs \in [Dirs -> Contents] /\ found \in Contents
  /\ \A d \in Dirs : dirs[d].is # "cluster" => dirs[d].rows = {}
  /\ step \in Steps /\ marker \in BOOLEAN /\ app \in {"waiting", "refused", "up"}

Migrating == {"prepare", "init", "upgrade", "swap"}

(* Every telegram is in use or set aside, and a step that replaces a directory
   is only reached while the directory has none. *)
Accounted ==
  /\ 1 .. written \subseteq dirs["data"].rows \cup dirs["old"].rows
  /\ step \in Migrating => Has("data") /\ dirs["old"].is = "none"
  /\ step = "preflight" => Has("data")
  /\ step = "initdb" => ~Has("data")
  /\ step = "initing" => dirs["data"].rows = {}
  /\ step = "swapping" => dirs["data"] = Absent
  /\ step = "running" => dirs["data"].is = "cluster"

(* What this boot found is still there, in its place or set aside. *)
AsFound ==
  /\ step \in {"check", "preflight"} => dirs["data"] = found
  /\ step \in Migrating => Unchanged(dirs["data"], found)
  /\ step \in {"swapping", "post"} => Unchanged(dirs["old"], found)
  /\ step \in {"swap", "swapping"} => dirs["new"].major = image
  /\ step = "post" => dirs["data"].major = image
  /\ LeftAsFound

Whole(c) == c.is = "cluster" /\ c.rows = 1 .. written /\ c.ready
Fresh == written = 0 /\ \A d \in Dirs : ~Has(d)

(* Unless torn, the data directory is whole whenever the script may stop. *)
WholeUnlessTorn ==
  "torn" \notin habits =>
    /\ step \notin {"initdb", "initing", "create", "swapping"} => Whole(dirs["data"]) \/ Fresh
    /\ step \in {"serve", "running", "post"} \cup Migrating => Whole(dirs["data"])
    /\ step = "initdb" => Fresh
    /\ step \in {"initing", "create"} => written = 0 /\ ~Has("new") /\ ~Has("old")
    /\ step = "create" => dirs["data"].is = "cluster" /\ dirs["data"].rows = {}
    /\ step \in {"swap", "swapping"} => Whole(dirs["new"])
    /\ step # "swapping" => ~(Has("new") /\ Has("old"))

IInv == Types /\ Accounted /\ AsFound /\ WholeUnlessTorn

-----------------------------------------------------------------------------
(* What a directory can be given. *)
LEMMA ContentsPut ==
  /\ Absent \in Contents /\ Absent.is = "none" /\ Absent.rows = {} /\ Absent.major = 0
  /\ Empty \in Contents /\ Empty.is = "empty" /\ Empty.rows = {} /\ Empty.major = 0
  /\ \A m \in 0 .. 2 : /\ Partial(m) \in Contents /\ Partial(m).is = "partial"
                        /\ Partial(m).rows = {} /\ Partial(m).major = m
  /\ \A m, e \in 0 .. 2, r \in SUBSET (1 .. written), b \in BOOLEAN :
        LET c == Cluster(m, r, b, e) IN
        c \in Contents /\ c.is = "cluster" /\ c.rows = r /\ c.ready = b /\ c.major = m /\ c.ext = e
<1>1. ASSUME NEW w \in {"none", "empty", "partial", "cluster"}, NEW m \in 0 .. 2, NEW e \in 0 .. 2,
             NEW r \in SUBSET (1 .. written), NEW b \in BOOLEAN
      PROVE  LET c == Dir(w, m, r, b, e) IN
             c \in Contents /\ c.is = w /\ c.rows = r /\ c.ready = b /\ c.major = m /\ c.ext = e
  BY DEF Dir, Contents
<1>2. {} \in SUBSET (1 .. written) /\ 0 \in 0 .. 2 /\ FALSE \in BOOLEAN
  OBVIOUS
<1>3. Absent \in Contents /\ Absent.is = "none" /\ Absent.rows = {} /\ Absent.major = 0
  BY DEF Absent, Dir, Contents
<1>4. Empty \in Contents /\ Empty.is = "empty" /\ Empty.rows = {} /\ Empty.major = 0
  BY DEF Empty, Dir, Contents
<1>5. ASSUME NEW m \in 0 .. 2
      PROVE  /\ Partial(m) \in Contents /\ Partial(m).is = "partial"
             /\ Partial(m).rows = {} /\ Partial(m).major = m
  BY DEF Partial, Dir, Contents
<1> QED BY <1>1, <1>3, <1>4, <1>5 DEF Cluster

LEMMA InitHolds ==
  ASSUME Sized
  PROVE  Init => IInv
<1> SUFFICES ASSUME Init PROVE IInv
  OBVIOUS
<1> USE DEF Dirs
<1>0. /\ habits \in SUBSET Habits /\ image \in Majors /\ written \in 0 .. MaxRows
      /\ restarts \in 0 .. MaxRestarts /\ step \in Steps /\ marker \in BOOLEAN
      /\ app \in {"waiting", "refused", "up"}
  <2>1. marker \in BOOLEAN
    BY Zenon DEF Init
  <2>2. habits \in SUBSET Habits
    BY DEF Init, Sized
  <2>3. written \in {0, 1} /\ restarts = 0
    BY DEF Init
  <2>4. image \in Majors /\ step \in Steps /\ app \in {"waiting", "refused", "up"}
    BY DEF Init, Steps
  <2> QED BY <2>1, <2>2, <2>3, <2>4 DEF Sized
<1>1. CASE "fresh" \in habits
  <2>1. written = 0 /\ dirs = [d \in Dirs |-> Absent] /\ found = dirs["data"] /\ step = "start"
    BY <1>1 DEF Init
  <2>2. \A d \in Dirs : dirs[d] \in Contents /\ dirs[d].rows = {} /\ dirs[d].is = "none"
    BY <2>1, ContentsPut
  <2>3. Types
    BY <1>0, <2>1, <2>2 DEF Types
  <2> QED BY <2>1, <2>2, <2>3 DEF IInv, Accounted, AsFound, LeftAsFound, WholeUnlessTorn, Fresh, Has, Migrating
<1>2. CASE "fresh" \notin habits
  <2> DEFINE c == Cluster(1, {1}, TRUE, 1)
  <2>1. written = 1 /\ dirs = [d \in Dirs |-> IF d = "data" THEN c ELSE Absent] /\ found = c /\ step = "start"
    BY <1>2 DEF Init
  <2>2. 1 .. written = {1}
    BY <2>1
  <2>3. c \in Contents /\ c.is = "cluster" /\ c.rows = {1} /\ c.ready
    BY <2>2 DEF Cluster, Dir, Contents
  <2>4. Absent \in Contents /\ Absent.is = "none" /\ Absent.rows = {}
    BY ContentsPut
  <2> HIDE DEF c
  <2>5. Types
    BY <1>0, <2>1, <2>3, <2>4 DEF Types
  <2> QED BY <2>1, <2>2, <2>3, <2>4, <2>5
          DEF IInv, Accounted, AsFound, LeftAsFound, WholeUnlessTorn, Fresh, Has, Migrating, Whole
<1> QED BY <1>1, <1>2
-----------------------------------------------------------------------------
Kept == WholeUnlessTorn /\ Accounted /\ AsFound

(* One directory is given new contents, or none is. *)
LEMMA PutTypes ==
  ASSUME Types, NEW d \in Dirs, NEW c \in Contents, c.is # "cluster" => c.rows = {},
         Puts(d, c), written' = written
  PROVE  /\ dirs' \in [Dirs -> Contents'] /\ \A e \in Dirs : dirs'[e].is # "cluster" => dirs'[e].rows = {}
         /\ dirs'[d] = c /\ \A e \in Dirs \ {d} : dirs'[e] = dirs[e]
<1>1. dirs' = [dirs EXCEPT ![d] = c] /\ dirs \in [Dirs -> Contents] /\ Contents' = Contents
  BY DEF Types, Puts, Contents
<1> QED BY <1>1 DEF Types

LEMMA ExtendedIsUnchanged ==
  ASSUME NEW c \in Contents, NEW e \in 0 .. 2, NEW x, x = [c EXCEPT !.ext = e]
  PROVE  x \in Contents /\ Unchanged(x, c) /\ x.is = c.is /\ x.rows = c.rows
<1>1. x \in Contents
  BY DEF Contents
<1>2. x.is = c.is /\ x.rows = c.rows /\ x.major = c.major
  BY DEF Contents
<1>3. x.ready = c.ready
  BY DEF Contents
<1> QED BY <1>1, <1>2, <1>3 DEF Unchanged

LEMMA GoesTypes ==
  ASSUME Types, NEW s \in Steps, Goes(s), marker' \in BOOLEAN, dirs' \in [Dirs -> Contents'],
         \A d \in Dirs : dirs'[d].is # "cluster" => dirs'[d].rows = {}
  PROVE  Types'
<1>1. found' \in Contents'
  BY DEF Types, Goes, Contents
<1> QED BY <1>1 DEF Types, Goes

LEMMA PutKeepsTypes ==
  ASSUME Types, NEW s \in Steps, Goes(s), marker' \in BOOLEAN,
         NEW d \in Dirs, NEW c \in Contents, c.is # "cluster" => c.rows = {}, Puts(d, c)
  PROVE  /\ Types'
         /\ dirs'[d] = c /\ \A e \in Dirs \ {d} : dirs'[e] = dirs[e]
<1>1. written' = written
  BY DEF Goes
<1> QED BY <1>1, PutTypes, GoesTypes

LEMMA StayKeepsTypes ==
  ASSUME Types, NEW s \in Steps, Goes(s), marker' \in BOOLEAN, dirs' = dirs
  PROVE  Types'
<1>1. written' = written /\ Contents' = Contents
  BY DEF Goes, Contents
<1> QED BY <1>1, GoesTypes DEF Types
-----------------------------------------------------------------------------
LEMMA PrepareKeeps ==
  ASSUME IInv, Prepare
  PROVE  IInv'
<1>1. /\ dirs' \in [Dirs -> Contents'] /\ \A d \in Dirs : dirs'[d].is # "cluster" => dirs'[d].rows = {}
      /\ dirs'["new"] = dirs["new"] /\ dirs'["old"] = dirs["old"]
      /\ dirs["data"].is = "none" => dirs'["data"] = Empty
      /\ dirs["data"].is # "none" => dirs'["data"] = dirs["data"]
  <2>1. CASE dirs["data"].is = "none"
    <3>1. Puts("data", Empty) /\ written' = written /\ "data" \in Dirs
      BY <2>1 DEF Prepare, Puts, Dirs
    <3> QED BY <2>1, <3>1, PutTypes, ContentsPut DEF IInv, Dirs
  <2>2. CASE dirs["data"].is # "none"
    BY <2>2 DEF Prepare, IInv, Types, Contents
  <2> QED BY <2>1, <2>2
<1>2. Types'
  <2>1. found' \in Contents'
    BY <1>1 DEF Prepare, Dirs
  <2>2. marker' \in BOOLEAN
    BY Zenon DEF Prepare
  <2> QED BY <1>1, <2>1, <2>2 DEF IInv, Types, Prepare, Steps
<1>3. Accounted'
  BY <1>1, ContentsPut DEF IInv, Types, Accounted, Prepare, Migrating, Dirs
<1>4. AsFound'
  BY <1>1, ContentsPut DEF IInv, AsFound, LeftAsFound, Prepare, Migrating
<1>5. WholeUnlessTorn'
  BY <1>1, ContentsPut DEF IInv, WholeUnlessTorn, Prepare, Migrating, Whole, Fresh, Has, Dirs
<1> QED BY <1>2, <1>3, <1>4, <1>5 DEF IInv

LEMMA CheckKeeps ==
  ASSUME IInv, Check
  PROVE  IInv'
<1>0. /\ WhatToDo \in {"initdb", "serve", "preflight"}
      /\ WhatToDo = "initdb" <=> ~Has("data")
  BY DEF WhatToDo
<1>1. /\ step = "check" /\ Goes(WhatToDo) /\ step' = WhatToDo /\ dirs' = dirs /\ marker' = marker
  BY DEF Check, Stays, Goes
<1>2. Types'
  BY <1>0, <1>1, StayKeepsTypes DEF IInv, Types, Steps
<1> QED BY <1>0, <1>1, <1>2 DEF IInv, Accounted, AsFound, LeftAsFound, WholeUnlessTorn, Whole, Fresh, Has, Goes, Migrating, Dirs

LEMMA InitialisingKeeps ==
  ASSUME IInv, InitData \/ InitDone \/ Create
  PROVE  IInv'
<1>a. image \in 0 .. 2 /\ dirs["data"] \in Contents /\ "data" \in Dirs /\ marker \in BOOLEAN
  BY DEF IInv, Types, Majors, Dirs
<1>1. CASE InitData
  <2>1. Types' /\ dirs'["data"] = Partial(image) /\ \A e \in Dirs \ {"data"} : dirs'[e] = dirs[e]
    BY <1>a, <1>1, ContentsPut, PutKeepsTypes DEF InitData, IInv, Steps
  <2> QED BY <1>1, <1>a, <2>1, ContentsPut DEF InitData, Goes, IInv, Types, Accounted, AsFound, LeftAsFound,
             WholeUnlessTorn, Whole, Fresh, Has, Migrating, Dirs
<1>2. CASE InitDone
  <2> DEFINE c == Cluster(image, {}, FALSE, image)
  <2>0. c \in Contents /\ c.is = "cluster" /\ c.rows = {}
    BY <1>a DEF Cluster, Dir, Contents
  <2> HIDE DEF c
  <2>1. Types' /\ dirs'["data"] = c /\ \A e \in Dirs \ {"data"} : dirs'[e] = dirs[e]
    BY <1>a, <1>2, <2>0, PutKeepsTypes DEF InitDone, IInv, Steps, c
  <2> QED BY <1>2, <1>a, <2>0, <2>1 DEF InitDone, Goes, IInv, Types, Accounted, AsFound, LeftAsFound,
             WholeUnlessTorn, Whole, Fresh, Has, Migrating, Dirs
<1>3. CASE Create
  <2> DEFINE c == [dirs["data"] EXCEPT !.ready = TRUE]
  <2>0. c \in Contents /\ c.is = dirs["data"].is /\ c.rows = dirs["data"].rows /\ c.ready
    BY <1>a DEF Contents
  <2>00. c.is # "cluster" => c.rows = {}
    BY <2>0, <1>a DEF IInv, Types
  <2> HIDE DEF c
  <2>1. Types' /\ dirs'["data"] = c /\ \A e \in Dirs \ {"data"} : dirs'[e] = dirs[e]
    BY <1>a, <1>3, <2>0, <2>00, PutKeepsTypes DEF Create, IInv, Steps, c
  <2> QED BY <1>3, <1>a, <2>0, <2>1 DEF Create, Goes, IInv, Types, Accounted, AsFound, LeftAsFound,
             WholeUnlessTorn, Whole, Fresh, Has, Migrating, Dirs
<1> QED BY <1>1, <1>2, <1>3

LEMMA ServeKeeps ==
  ASSUME IInv, Serve
  PROVE  IInv'
<1> DEFINE s == IF dirs["data"].is = "cluster" THEN "running" ELSE "start"
<1>1. step = "serve" /\ Goes(s) /\ step' = s /\ s \in {"running", "start"} /\ dirs' = dirs /\ marker' = marker
      /\ (s = "running" => dirs["data"].is = "cluster")
  BY DEF Serve, Stays, Goes
<1> HIDE DEF s
<1>2. Types'
  BY <1>1, StayKeepsTypes DEF IInv, Types, Steps
<1> QED BY <1>1, <1>2 DEF IInv, Accounted, AsFound, LeftAsFound, WholeUnlessTorn, Whole, Fresh, Has, Goes, Migrating, Dirs

LEMMA PreflightKeeps ==
  ASSUME IInv, Preflight
  PROVE  IInv'
<1>1. CASE MayMigrate /\ Stays("prepare")
  <2>1. Goes("prepare") /\ dirs' = dirs /\ marker' = marker
    BY <1>1 DEF Stays
  <2>2. Types'
    BY <2>1, StayKeepsTypes DEF IInv, Types, Steps
  <2> QED BY <1>1, <2>1, <2>2 DEF Preflight, MayMigrate, IInv, Accounted, AsFound, LeftAsFound, Unchanged,
             WholeUnlessTorn, Whole, Fresh, Has, Goes, Migrating, Dirs
<1>2. CASE Hold /\ UNCHANGED dirs
  <2>1. Goes("held") /\ dirs' = dirs /\ marker' \in BOOLEAN
    BY <1>2 DEF Hold, Marks
  <2>2. Types'
    BY <2>1, StayKeepsTypes DEF IInv, Types, Steps
  <2> QED BY <1>2, <2>1, <2>2 DEF Preflight, IInv, Accounted, AsFound, LeftAsFound, Unchanged,
             WholeUnlessTorn, Whole, Fresh, Has, Goes, Migrating, Dirs
<1> QED BY <1>1, <1>2 DEF Preflight
-----------------------------------------------------------------------------
(* An error before pg_upgrade: nothing but the new directory goes. *)
LEMMA TrapKeeps ==
  ASSUME IInv, step \in {"prepare", "init"}, Trap
  PROVE  IInv'
<1>1. Goes("held") /\ Puts("new", Absent) /\ marker' \in BOOLEAN
  BY DEF Trap, Hold, Marks
<1>2. Types' /\ dirs'["new"] = Absent /\ \A e \in Dirs \ {"new"} : dirs'[e] = dirs[e]
  BY <1>1, ContentsPut, PutKeepsTypes DEF IInv, Steps, Dirs
<1> QED BY <1>1, <1>2, ContentsPut DEF IInv, Accounted, AsFound, LeftAsFound,
           WholeUnlessTorn, Whole, Fresh, Has, Goes, Migrating, Dirs

LEMMA PrepareOldKeeps ==
  ASSUME IInv, PrepareOld
  PROVE  IInv'
<1> DEFINE c == IF dirs["data"].is = "cluster" THEN [dirs["data"] EXCEPT !.ext = image] ELSE dirs["data"]
           s == IF dirs["data"].is = "cluster" THEN "init" ELSE "held"
<1>1. dirs["data"] \in Contents /\ image \in 0 .. 2 /\ marker \in BOOLEAN
      /\ (dirs["data"].is # "cluster" => dirs["data"].rows = {})
  BY DEF IInv, Types, Majors, Dirs
<1>2. c \in Contents /\ Unchanged(c, dirs["data"]) /\ c.is = dirs["data"].is /\ c.rows = dirs["data"].rows
  <2>1. CASE dirs["data"].is = "cluster"
    <3>1. c = [dirs["data"] EXCEPT !.ext = image]
      BY <2>1
    <3> HIDE DEF c
    <3> QED BY <1>1, <3>1, ExtendedIsUnchanged
  <2>2. CASE dirs["data"].is # "cluster"
    <3>1. c = dirs["data"]
      BY <2>2
    <3> HIDE DEF c
    <3> QED BY <1>1, <3>1 DEF Unchanged
  <2> QED BY <2>1, <2>2
<1>3. step = "prepare" /\ Puts("data", c) /\ Goes(s) /\ s \in {"init", "held"}
  BY DEF PrepareOld
<1>0. marker' \in BOOLEAN
  <2>1. CASE dirs["data"].is = "cluster"
    BY <1>1, <2>1 DEF PrepareOld
  <2>2. CASE dirs["data"].is # "cluster"
    BY <1>1, <2>2 DEF PrepareOld, Marks
  <2> QED BY <2>1, <2>2
<1> HIDE DEF c, s
<1>4. Types' /\ dirs'["data"] = c /\ \A e \in Dirs \ {"data"} : dirs'[e] = dirs[e]
  <2>2. s \in Steps /\ "data" \in Dirs /\ Types
    BY <1>3 DEF IInv, Steps, Dirs
  <2> QED BY <1>1, <1>2, <1>0, <1>3, <2>2, PutKeepsTypes
<1> QED BY <1>2, <1>3, <1>4 DEF IInv, Accounted, AsFound, LeftAsFound, Unchanged,
           WholeUnlessTorn, Whole, Fresh, Has, Goes, Migrating, Dirs

LEMMA NewClusterKeeps ==
  ASSUME IInv, InitNew \/ Upgrade \/ UpgradeFails
  PROVE  IInv'
<1>a. image \in 0 .. 2 /\ dirs["data"] \in Contents /\ "new" \in Dirs /\ marker \in BOOLEAN
  BY DEF IInv, Types, Majors, Dirs
<1>1. CASE InitNew
  <2>1. step = "init" /\ Puts("new", Partial(image)) /\ Goes("upgrade") /\ marker' = marker
    BY <1>1 DEF InitNew, RemovesFirst
  <2>2. Types' /\ dirs'["new"] = Partial(image) /\ \A e \in Dirs \ {"new"} : dirs'[e] = dirs[e]
    BY <1>a, <2>1, ContentsPut, PutKeepsTypes DEF IInv, Steps
  <2> QED BY <2>1, <2>2, ContentsPut DEF IInv, Accounted, AsFound, LeftAsFound,
             WholeUnlessTorn, Whole, Fresh, Has, Goes, Migrating, Dirs
<1>2. CASE Upgrade
  <2>0. Upgraded \in Contents /\ Upgraded.is = "cluster" /\ Upgraded.rows = dirs["data"].rows
        /\ Upgraded.ready = dirs["data"].ready /\ Upgraded.major = image
    BY <1>a DEF Upgraded, Cluster, Dir, Contents
  <2>1. step = "upgrade" /\ Puts("new", Upgraded) /\ Goes("swap") /\ marker' = marker
    BY <1>2 DEF Upgrade
  <2>2. Types' /\ dirs'["new"] = Upgraded /\ \A e \in Dirs \ {"new"} : dirs'[e] = dirs[e]
    BY <1>a, <2>0, <2>1, PutKeepsTypes DEF IInv, Steps
  <2> QED BY <2>0, <2>1, <2>2 DEF IInv, Accounted, AsFound, LeftAsFound, Unchanged,
             WholeUnlessTorn, Whole, Fresh, Has, Goes, Migrating, Dirs
<1>3. CASE UpgradeFails
  <2>1. step = "upgrade" /\ Goes("held") /\ dirs' = dirs /\ marker' \in BOOLEAN
    BY <1>3 DEF UpgradeFails, Hold, Marks, Copies
  <2>2. Types'
    BY <2>1, StayKeepsTypes DEF IInv, Types, Steps
  <2> QED BY <2>1, <2>2 DEF IInv, Accounted, AsFound, LeftAsFound, Unchanged,
             WholeUnlessTorn, Whole, Fresh, Has, Goes, Migrating, Dirs
<1> QED BY <1>1, <1>2, <1>3

(* The two renames. *)
LEMMA SwapKeeps ==
  ASSUME IInv, SetAside \/ PutInPlace
  PROVE  IInv'
<1>a. dirs \in [Dirs -> Contents] /\ marker' = marker /\ marker \in BOOLEAN /\ written' = written
      /\ Contents' = Contents
  BY DEF IInv, Types, SetAside, PutInPlace, Goes, Contents
<1>1. CASE SetAside
  <2>1. dirs' = [dirs EXCEPT !["old"] = dirs["data"], !["data"] = Absent] /\ step = "swap" /\ Goes("swapping")
    BY <1>1 DEF SetAside
  <2>2. dirs'["old"] = dirs["data"] /\ dirs'["data"] = Absent /\ dirs'["new"] = dirs["new"]
        /\ dirs' \in [Dirs -> Contents']
    BY <1>a, <2>1, ContentsPut DEF Dirs
  <2>3. \A d \in Dirs : dirs'[d].is # "cluster" => dirs'[d].rows = {}
    BY <2>2, ContentsPut DEF IInv, Types, Dirs
  <2>4. Types'
    BY <1>a, <2>1, <2>2, <2>3, GoesTypes DEF IInv, Steps
  <2>5. dirs["old"].is = "none" => dirs["old"].rows = {}
    BY DEF IInv, Types, Dirs
  <2> QED BY <1>a, <2>1, <2>2, <2>4, <2>5, ContentsPut DEF IInv, Accounted, AsFound, LeftAsFound, Unchanged,
             WholeUnlessTorn, Whole, Fresh, Has, Goes, Migrating, Dirs
<1>2. CASE PutInPlace
  <2>1. dirs' = [dirs EXCEPT !["data"] = dirs["new"], !["new"] = Absent] /\ step = "swapping" /\ Goes("post")
    BY <1>2 DEF PutInPlace, MovesBack
  <2>2. dirs'["data"] = dirs["new"] /\ dirs'["new"] = Absent /\ dirs'["old"] = dirs["old"]
        /\ dirs' \in [Dirs -> Contents']
    BY <1>a, <2>1, ContentsPut DEF Dirs
  <2>3. \A d \in Dirs : dirs'[d].is # "cluster" => dirs'[d].rows = {}
    BY <2>2, ContentsPut DEF IInv, Types, Dirs
  <2>4. Types'
    BY <1>a, <2>1, <2>2, <2>3, GoesTypes DEF IInv, Steps
  <2> QED BY <1>a, <2>1, <2>2, <2>4, ContentsPut DEF IInv, Accounted, AsFound, LeftAsFound, Unchanged,
             WholeUnlessTorn, Whole, Fresh, Has, Goes, Migrating, Dirs
<1> QED BY <1>1, <1>2

LEMMA PostKeeps ==
  ASSUME IInv, Post \/ PostFails
  PROVE  IInv'
<1>a. image \in 0 .. 2 /\ dirs["data"] \in Contents /\ "data" \in Dirs /\ marker \in BOOLEAN
      /\ (dirs["data"].is # "cluster" => dirs["data"].rows = {})
  BY DEF IInv, Types, Majors, Dirs
<1>1. CASE Post
  <2> DEFINE c == [dirs["data"] EXCEPT !.ext = image]
  <2>0. c \in Contents /\ Unchanged(c, dirs["data"]) /\ c.is = dirs["data"].is /\ c.rows = dirs["data"].rows
    <3>1. c = [dirs["data"] EXCEPT !.ext = image]
      OBVIOUS
    <3> HIDE DEF c
    <3> QED BY <1>a, <3>1, ExtendedIsUnchanged
  <2> HIDE DEF c
  <2>1. step = "post" /\ Puts("data", c) /\ Goes("serve") /\ marker' = marker
    BY <1>1 DEF Post, c
  <2>2. Types' /\ dirs'["data"] = c /\ \A e \in Dirs \ {"data"} : dirs'[e] = dirs[e]
    BY <1>a, <2>0, <2>1, PutKeepsTypes DEF IInv, Steps
  <2> QED BY <2>0, <2>1, <2>2 DEF IInv, Accounted, AsFound, LeftAsFound, Unchanged,
             WholeUnlessTorn, Whole, Fresh, Has, Goes, Migrating, Dirs
<1>2. CASE PostFails
  <2>1. step = "post" /\ Goes("held") /\ dirs' = dirs /\ marker' \in BOOLEAN
    BY <1>2 DEF PostFails, Hold, Marks
  <2>2. Types'
    BY <2>1, StayKeepsTypes DEF IInv, Types, Steps
  <2> QED BY <2>1, <2>2 DEF IInv, Accounted, AsFound, LeftAsFound, Unchanged,
             WholeUnlessTorn, Whole, Fresh, Has, Goes, Migrating, Dirs
<1> QED BY <1>1, <1>2
-----------------------------------------------------------------------------
LEMMA AppChecksKeeps ==
  ASSUME IInv, AppChecks
  PROVE  IInv'
<1>1. app' \in {"waiting", "refused", "up"}
  BY DEF AppChecks
<1>2. UNCHANGED <<habits, image, dirs, found, step, marker, written, restarts>>
  BY DEF AppChecks
<1>3. Types'
  BY <1>1, <1>2 DEF IInv, Types, Contents
<1> QED BY <1>2, <1>3 DEF IInv, Accounted, AsFound, LeftAsFound, Unchanged,
           WholeUnlessTorn, Whole, Fresh, Has, Migrating

LEMMA WriteKeeps ==
  ASSUME Sized, IInv, Write
  PROVE  IInv'
<1> DEFINE c == [dirs["data"] EXCEPT !.rows = @ \cup {written + 1}]
<1>1. /\ step = "running" /\ dirs["data"].ready /\ written' = written + 1 /\ written \in Nat /\ written < MaxRows
      /\ Puts("data", c) /\ dirs["data"] \in Contents /\ "data" \in Dirs
      /\ UNCHANGED <<habits, image, found, step, marker, app, restarts>>
  BY DEF Write, IInv, Types, Dirs
<1>2. 1 .. written' = (1 .. written) \cup {written + 1} /\ \A x \in Contents : x \in Contents'
  BY <1>1 DEF Contents
<1>3. /\ c \in Contents' /\ c.is = dirs["data"].is /\ c.rows = dirs["data"].rows \cup {written + 1}
      /\ c.ready = dirs["data"].ready
  BY <1>1, <1>2 DEF Contents
<1> HIDE DEF c
<1>4. /\ dirs' = [dirs EXCEPT !["data"] = c] /\ dirs' \in [Dirs -> Contents'] /\ dirs'["data"] = c
      /\ \A d \in Dirs \ {"data"} : dirs'[d] = dirs[d]
  BY <1>1, <1>2, <1>3 DEF Puts, IInv, Types
<1>5. \A d \in Dirs : dirs'[d].is # "cluster" => dirs'[d].rows = {}
  BY <1>1, <1>2, <1>3, <1>4 DEF IInv, Types, Accounted, Dirs
<1>6. Types'
  BY <1>1, <1>2, <1>3, <1>4, <1>5 DEF Sized, IInv, Types, Dirs
<1> QED BY <1>1, <1>2, <1>3, <1>4, <1>6 DEF IInv, Accounted, AsFound, LeftAsFound,
           WholeUnlessTorn, Whole, Fresh, Has, Migrating, Dirs

LEMMA DeleteOldKeeps ==
  ASSUME IInv, DeleteOld
  PROVE  IInv'
<1>1. step = "running" /\ step' = step /\ dirs["old"].rows \subseteq dirs["data"].rows /\ Puts("old", Absent)
      /\ written' = written /\ "old" \in Dirs /\ UNCHANGED <<habits, image, found, step, marker, app, restarts>>
  BY DEF DeleteOld, Dirs
<1>2. /\ dirs' \in [Dirs -> Contents'] /\ \A e \in Dirs : dirs'[e].is # "cluster" => dirs'[e].rows = {}
      /\ dirs'["old"] = Absent /\ \A e \in Dirs \ {"old"} : dirs'[e] = dirs[e]
  BY <1>1, ContentsPut, PutTypes DEF IInv
<1>3. Types'
  BY <1>1, <1>2 DEF IInv, Types, Contents
<1> QED BY <1>1, <1>2, <1>3, ContentsPut DEF IInv, Accounted, AsFound, LeftAsFound,
           WholeUnlessTorn, Whole, Fresh, Has, Migrating, Dirs

LEMMA RestartKeeps ==
  ASSUME Sized, IInv, Restart
  PROVE  IInv'
<1>1. step' = "start" /\ UNCHANGED <<habits, dirs, found, marker, written>> /\ (Torn => "torn" \in habits)
  BY DEF Restart
<1>2. image' \in Majors /\ restarts' \in 0 .. MaxRestarts /\ app' = "waiting"
  BY DEF Restart, Sized, IInv, Types, Majors
<1>3. Types'
  BY <1>1, <1>2 DEF IInv, Types, Contents, Steps
<1> QED BY <1>1, <1>3 DEF IInv, Accounted, AsFound, LeftAsFound, Torn,
           WholeUnlessTorn, Whole, Fresh, Has, Migrating, Dirs
-----------------------------------------------------------------------------
LEMMA StepKeeps ==
  ASSUME Sized
  PROVE  IInv /\ [Next]_vars => IInv'
<1> SUFFICES ASSUME IInv, [Next]_vars PROVE IInv'
  OBVIOUS
<1>1. CASE UNCHANGED vars
  BY <1>1 DEF vars, IInv, Types, Contents, Accounted, AsFound, LeftAsFound, Unchanged,
              WholeUnlessTorn, Whole, Fresh, Has
<1>2. CASE OldFails \/ InitFails
  BY <1>2, TrapKeeps DEF OldFails, InitFails
<1>3. CASE Script
  BY <1>3, PrepareKeeps, CheckKeeps, InitialisingKeeps, ServeKeeps, PreflightKeeps, PrepareOldKeeps,
     NewClusterKeeps, SwapKeeps, PostKeeps DEF Script
<1> QED BY <1>1, <1>2, <1>3, NewClusterKeeps, PostKeeps, AppChecksKeeps, WriteKeeps, DeleteOldKeeps, RestartKeeps
        DEF Next

(* The strengthened invariant of the upgrade, at every step of the scripts. *)
THEOREM Invariance ==
  ASSUME Sized
  PROVE  Spec => []IInv
<1>1. Init => IInv
  BY InitHolds
<1>2. IInv /\ [Next]_vars => IInv'
  BY StepKeeps
<1> QED BY <1>1, <1>2, PTL DEF Spec

(* Two directories of three hold a cluster at most. *)
LEMMA TwoCopies ==
  ASSUME NEW d \in Dirs, ~Has(d)
  PROVE  Used <= 2
<1> DEFINE S == {e \in Dirs : Has(e)}
<1>1. \E a, b \in Dirs : S \subseteq {a, b}
  BY DEF Dirs
<1>2. PICK a \in Dirs, b \in Dirs : S \subseteq {a, b}
  BY <1>1
<1>3. IsFiniteSet({a, b}) /\ Cardinality({a, b}) <= 2
  <2>1. {a, b} = {a} \cup {b} /\ IsFiniteSet({a}) /\ Cardinality({a}) = 1
    BY FS_Singleton
  <2>2. IsFiniteSet({a} \cup {b}) /\ (Cardinality({a} \cup {b}) = 1 \/ Cardinality({a} \cup {b}) = 2)
    BY <2>1, FS_AddElement
  <2> QED BY <2>1, <2>2
<1>4. Cardinality(S) <= Cardinality({a, b}) /\ Cardinality(S) \in Nat /\ Cardinality({a, b}) \in Nat
  BY <1>2, <1>3, FS_Subset, FS_CardinalityType
<1> QED BY <1>3, <1>4 DEF Used

LEMMA InvImplies == IInv => UpgradeIsSafe
<1> SUFFICES ASSUME IInv PROVE UpgradeIsSafe
  OBVIOUS
<1>1. TypeOK
  BY DEF IInv, Types, TypeOK, Contents, Steps
<1>2. FitsOnDisk
  <2> SUFFICES ASSUME "torn" \notin habits PROVE \E d \in Dirs : ~Has(d)
    BY TwoCopies DEF FitsOnDisk
  <2> QED BY ContentsPut DEF IInv, WholeUnlessTorn, Accounted, Has, Dirs
<1>3. ServesEverything
  BY DEF IInv, WholeUnlessTorn, ServesEverything, ComesUpWhole, Whole
<1>4. NothingLost
  BY DEF IInv, Accounted, NothingLost, Dirs
<1> QED BY <1>1, <1>2, <1>3, <1>4 DEF UpgradeIsSafe, IInv, AsFound

(* Whatever stops, fails or is put back during a major upgrade, and however
   often: no telegram is lost, what runs has them all, a third copy never needs
   room, and a migration that gives up changes nothing (migrate.sh). *)
THEOREM SafeUpgrade ==
  ASSUME Sized
  PROVE  Spec => []UpgradeIsSafe
<1>1. Spec => []IInv
  BY Invariance
<1> QED BY <1>1, InvImplies, PTL
-----------------------------------------------------------------------------
(* The upgrade of a Compose deployment (ComposeMigrate), for any tables,
   number of rows and runs of its script. *)
CONSTANTS Tables, Serial, MaxRuns
VARIABLES fails, cmMajor, cmRows, cmSeq, script, copied, before, printed, cmEnv, stack, runs

Cm == INSTANCE ComposeMigrate WITH major <- cmMajor, rows <- cmRows, seq <- cmSeq, env <- cmEnv

Numbers == 1 .. MaxRows + 2

CmTypes ==
  /\ cmMajor \in [Cm!Volumes -> 0 .. 2]
  /\ cmRows \in [Cm!Volumes -> [Tables -> SUBSET Numbers]]
  /\ cmSeq \in [Cm!Volumes -> Nat]
  /\ cmEnv \in [volume : Cm!Volumes, major : 1 .. 2]
  /\ script \in {"off", "starting", "copying", "verifying"}
  /\ copied \in SUBSET Tables
  /\ printed \in BOOLEAN /\ stack \in BOOLEAN

(* The script and the stack do not meet, and the stack runs on the migrated
   volume only once the script said it is complete. *)
Apart ==
  /\ stack => script = "off" /\ cmMajor[cmEnv.volume] = cmEnv.major
  /\ script # "off" => ~printed
  /\ cmEnv.volume = "target" => printed
  /\ printed \/ script \in {"copying", "verifying"} => cmMajor["target"] # 0

(* How far a run has come with the tables: what it has not reached is empty,
   what it has done holds the rows of the original. *)
Done(t) == cmRows["target"][t] = cmRows["source"][t]
Progress ==
  /\ cmMajor["target"] = 0 \/ script = "starting" => \A t \in Tables : cmRows["target"][t] = {}
  /\ script = "starting" => copied = {}
  /\ script = "copying" => \A t \in Tables : IF t \in copied THEN Done(t) ELSE cmRows["target"][t] = {}
  /\ script = "verifying" => \A t \in Tables : Done(t)

(* The sequence of a volume that can be served is ahead of its rows. *)
Ahead(v) == \A n \in cmRows[v][Serial] : n <= cmSeq[v]
Numbered ==
  /\ Ahead("source")
  /\ printed \/ script = "verifying" => Ahead("target")

CmInv == CmTypes /\ Apart /\ Progress /\ Numbered
-----------------------------------------------------------------------------
(* The numbers of a table have a highest, which is what max() returns. *)
LEMMA HighestIs ==
  ASSUME MaxRows \in Nat, NEW s \in SUBSET Numbers
  PROVE  Cm!Highest(s) \in Nat /\ \A m \in s : m <= Cm!Highest(s)
<1> DEFINE Above == {n \in Nat : \A m \in s : m <= n}
<1>1. MaxRows + 2 \in Above
  BY DEF Numbers
<1>2. IsWellFoundedOn(OpToRel(<, Nat), Nat)
  BY NatLessThanWellFounded
<1>3. PICK n \in Above : \A k \in Above : <<k, n>> \notin OpToRel(<, Nat)
  BY <1>1, <1>2, WFMin
<1>4. \A k \in Above : n <= k
  <2>1. \A k \in Above : ~(k < n)
    BY <1>3 DEF OpToRel
  <2> QED BY <2>1
<1>5. n \in s \cup {0}
  <2> SUFFICES ASSUME n \notin s, n # 0 PROVE FALSE
    OBVIOUS
  <2>1. n - 1 \in Above
    BY DEF Numbers
  <2> QED BY <1>4, <2>1
<1>6. \A x \in s \cup {0} : x \in Nat
  BY DEF Numbers
<1> HIDE DEF Above
<1>7. \E x \in s \cup {0} : \A m \in s : m <= x
  BY <1>3, <1>5 DEF Above
<1> QED BY <1>6, <1>7 DEF Cm!Highest

LEMMA CmInitHolds ==
  ASSUME Cm!Sized
  PROVE  Cm!Init => CmInv
<1> SUFFICES ASSUME Cm!Init PROVE CmInv
  OBVIOUS
<1>1. {1, 2} \in SUBSET Numbers
  BY DEF Cm!Sized, Numbers
<1>2. /\ cmMajor["source"] = 1 /\ cmMajor["target"] = 0
      /\ \A t \in Tables : cmRows["source"][t] = {1, 2} /\ cmRows["target"][t] = {}
      /\ cmSeq["source"] = 2 /\ cmEnv.volume = "source"
  BY DEF Cm!Init, Cm!Volumes, Cm!Old, Cm!None, Cm!Config
<1>3. CmTypes
  <2>1. cmMajor \in [Cm!Volumes -> 0 .. 2] /\ cmSeq \in [Cm!Volumes -> Nat]
    BY DEF Cm!Init, Cm!Volumes, Cm!Old
  <2>2. cmRows \in [Cm!Volumes -> [Tables -> SUBSET Numbers]]
    BY <1>1 DEF Cm!Init, Cm!None
  <2>3. cmEnv \in [volume : Cm!Volumes, major : 1 .. 2]
    BY DEF Cm!Init, Cm!Config, Cm!Volumes, Cm!New
  <2>4. stack = FALSE /\ printed = FALSE /\ script = "off" /\ copied = {}
    BY DEF Cm!Init
  <2> QED BY <2>1, <2>2, <2>3, <2>4 DEF CmTypes
<1>4. stack = FALSE /\ printed = FALSE /\ script = "off"
  BY DEF Cm!Init
<1> QED BY <1>2, <1>3, <1>4 DEF CmInv, Apart, Progress, Numbered, Ahead, Cm!Sized

(* The script, command by command. *)
LEMMA CmScriptKeeps ==
  ASSUME Cm!Sized, CmInv, Cm!Start \/ Cm!Ready \/ Cm!Sequences \/ Cm!Verify
  PROVE  CmInv'
<1>0. CmTypes /\ Apart /\ Progress /\ Numbered /\ Serial \in Tables /\ MaxRows \in Nat
  BY DEF CmInv, Cm!Sized
<1>1. CASE Cm!Start
  <2>1. CmTypes'
    BY <1>0, <1>1 DEF CmTypes, Cm!Start
  <2> QED BY <1>0, <1>1, <2>1 DEF CmInv, Apart, Progress, Done, Numbered, Ahead, Cm!Start, Cm!MayStart
<1>2. CASE Cm!Ready
  <2>1. CmTypes' /\ cmMajor'["target"] = 2 /\ cmMajor'["source"] = cmMajor["source"]
    BY <1>0, <1>2 DEF CmTypes, Cm!Ready, Cm!Volumes, Cm!New
  <2> QED BY <1>0, <1>2, <2>1 DEF CmInv, Apart, Progress, Done, Numbered, Ahead, Cm!Ready
<1>3. CASE Cm!Sequences
  <2> DEFINE top == Cm!Highest(cmRows["target"][Serial] \cup {1})
  <2>1. cmRows["target"][Serial] \cup {1} \in SUBSET Numbers
    BY <1>0 DEF CmTypes, Cm!Volumes, Numbers
  <2>2. top \in Nat /\ \A m \in cmRows["target"][Serial] : m <= top
    BY <1>0, <2>1, HighestIs
  <2>3. cmSeq' = [cmSeq EXCEPT !["target"] = top]
    BY <1>3 DEF Cm!Sequences, Cm!Advances
  <2> HIDE DEF top
  <2>4. CmTypes' /\ cmSeq'["target"] = top /\ cmSeq'["source"] = cmSeq["source"]
    BY <1>0, <1>3, <2>2, <2>3 DEF CmTypes, Cm!Sequences, Cm!Volumes
  <2>5. /\ script = "copying" /\ script' = "verifying" /\ copied = Tables
        /\ UNCHANGED <<cmMajor, cmRows, copied, printed, cmEnv, stack>>
    BY <1>3 DEF Cm!Sequences, Cm!Carried
  <2> QED BY <1>0, <2>2, <2>4, <2>5 DEF CmInv, Apart, Progress, Done, Numbered, Ahead
<1>4. CASE Cm!Verify
  <2>1. /\ script = "verifying" /\ script' = "off" /\ printed' \in BOOLEAN
        /\ UNCHANGED <<cmMajor, cmRows, cmSeq, copied, cmEnv, stack>> /\ (printed => printed')
    BY <1>0, <1>4 DEF Cm!Verify, CmTypes
  <2>2. CmTypes'
    BY <1>0, <2>1 DEF CmTypes
  <2> QED BY <1>0, <2>1, <2>2 DEF CmInv, Apart, Progress, Done, Numbered, Ahead
<1> QED BY <1>1, <1>2, <1>3, <1>4

(* A table is copied, as a whole or, by a command that fails, in part. *)
LEMMA CmCopyKeeps ==
  ASSUME Cm!Sized, CmInv, NEW t \in Tables, Cm!Copy(t)
  PROVE  CmInv'
<1>0. CmTypes /\ Apart /\ Progress /\ Numbered /\ Serial \in Tables
  BY DEF CmInv, Cm!Sized
<1>1. /\ script = "copying" /\ t \notin copied /\ copied' = copied \cup {t}
      /\ cmRows' = [cmRows EXCEPT !["target"][t] = cmRows["target"][t] \cup cmRows["source"][t]]
      /\ UNCHANGED <<cmMajor, cmSeq, script, printed, cmEnv, stack>>
  BY DEF Cm!Copy, Cm!Carried
<1>2. cmRows["target"][t] = {} /\ ~printed
  BY <1>0, <1>1 DEF Progress, Apart
<1>3. /\ cmRows'["source"] = cmRows["source"]
      /\ cmRows'["target"] = [cmRows["target"] EXCEPT ![t] = cmRows["source"][t]]
  BY <1>0, <1>1, <1>2 DEF CmTypes, Cm!Volumes
<1>4. CmTypes'
  BY <1>0, <1>1 DEF CmTypes, Cm!Volumes
<1>5. /\ cmRows'["target"][t] = cmRows["source"][t]
      /\ \A x \in Tables \ {t} : cmRows'["target"][x] = cmRows["target"][x]
  BY <1>0, <1>3 DEF CmTypes, Cm!Volumes
<1>6. Progress'
  BY <1>0, <1>1, <1>3, <1>5 DEF Progress, Done, Apart
<1> QED BY <1>0, <1>1, <1>2, <1>3, <1>4, <1>6 DEF CmInv, Apart, Numbered, Ahead

LEMMA CmExitKeeps ==
  ASSUME Cm!Sized, CmInv, Cm!Exit
  PROVE  CmInv'
<1>0. CmTypes /\ Apart /\ Progress /\ Numbered /\ Serial \in Tables
  BY DEF CmInv, Cm!Sized
<1>1. /\ script # "off" /\ script' = "off"
      /\ UNCHANGED <<cmSeq, copied, printed, cmEnv, stack>> /\ ~printed
  BY <1>0 DEF Cm!Exit, Apart
<1>2. CASE UNCHANGED <<cmMajor, cmRows>>
  <2>1. CmTypes'
    BY <1>0, <1>1, <1>2 DEF CmTypes
  <2> QED BY <1>0, <1>1, <1>2, <2>1 DEF CmInv, Apart, Progress, Done, Numbered, Ahead
<1>3. CASE cmMajor' = [cmMajor EXCEPT !["target"] = Cm!New] /\ UNCHANGED cmRows
  <2>1. CmTypes' /\ cmMajor'["target"] = 2
    BY <1>0, <1>1, <1>3 DEF CmTypes, Cm!Volumes, Cm!New
  <2> QED BY <1>0, <1>1, <1>3, <2>1 DEF CmInv, Apart, Progress, Done, Numbered, Ahead
<1>4. CASE /\ script = "copying" /\ UNCHANGED cmMajor
           /\ \E t \in Tables : \E s \in SUBSET cmRows["source"][t] :
                cmRows' = [cmRows EXCEPT !["target"][t] = cmRows["target"][t] \cup s]
  <2>1. PICK t \in Tables : \E s \in SUBSET cmRows["source"][t] :
          cmRows' = [cmRows EXCEPT !["target"][t] = cmRows["target"][t] \cup s]
    BY <1>4
  <2>2. PICK s \in SUBSET cmRows["source"][t] :
          cmRows' = [cmRows EXCEPT !["target"][t] = cmRows["target"][t] \cup s]
    BY <2>1
  <2>3. CmTypes' /\ cmRows'["source"] = cmRows["source"]
    BY <1>0, <1>1, <1>4, <2>2 DEF CmTypes, Cm!Volumes
  <2> QED BY <1>0, <1>1, <1>4, <2>3 DEF CmInv, Apart, Progress, Numbered, Ahead
<1>5. \/ UNCHANGED <<cmMajor, cmRows>>
      \/ cmMajor' = [cmMajor EXCEPT !["target"] = Cm!New] /\ UNCHANGED cmRows
      \/ /\ script = "copying" /\ UNCHANGED cmMajor
         /\ \E t \in Tables : \E s \in SUBSET cmRows["source"][t] :
              cmRows' = [cmRows EXCEPT !["target"][t] = cmRows["target"][t] \cup s]
  BY DEF Cm!Exit, Cm!Carried
<1> QED BY <1>2, <1>3, <1>4, <1>5

(* The user and the application. *)
LEMMA CmUserKeeps ==
  ASSUME Cm!Sized, CmInv, Cm!Remove \/ Cm!Edit \/ Cm!Up \/ Cm!Down
  PROVE  CmInv'
<1>0. CmTypes /\ Apart /\ Progress /\ Numbered /\ Serial \in Tables
  BY DEF CmInv, Cm!Sized
<1>1. CASE Cm!Remove
  <2>1. /\ cmMajor' = [cmMajor EXCEPT !["target"] = 0]
        /\ cmRows' = [cmRows EXCEPT !["target"] = [t \in Tables |-> {}]]
        /\ cmSeq' = [cmSeq EXCEPT !["target"] = 0]
        /\ script = "off" /\ ~printed /\ UNCHANGED <<script, copied, printed, cmEnv, stack>>
    BY <1>1 DEF Cm!Remove, Cm!None
  <2>2. /\ cmMajor' \in [Cm!Volumes -> 0 .. 2] /\ cmSeq' \in [Cm!Volumes -> Nat]
        /\ cmMajor'["target"] = 0 /\ cmMajor'["source"] = cmMajor["source"]
        /\ cmSeq'["source"] = cmSeq["source"]
    BY <1>0, <2>1 DEF CmTypes, Cm!Volumes
  <2>3. /\ cmRows' \in [Cm!Volumes -> [Tables -> SUBSET Numbers]]
        /\ cmRows'["source"] = cmRows["source"] /\ \A t \in Tables : cmRows'["target"][t] = {}
    <3>1. [t \in Tables |-> {}] \in [Tables -> SUBSET Numbers]
      OBVIOUS
    <3> QED BY <1>0, <2>1, <3>1 DEF CmTypes, Cm!Volumes
  <2>4. cmEnv.volume = "source"
    BY <1>0, <2>1 DEF CmTypes, Apart, Cm!Volumes
  <2>5. CmTypes'
    BY <1>0, <2>1, <2>2, <2>3 DEF CmTypes
  <2> QED BY <1>0, <2>1, <2>2, <2>3, <2>4, <2>5 DEF CmInv, Apart, Progress, Numbered, Ahead
<1>2. CASE Cm!Edit
  <2>1. /\ ~stack /\ UNCHANGED <<cmMajor, cmRows, cmSeq, script, copied, printed, stack>>
        /\ cmEnv'.volume = "target" => printed
    BY <1>2 DEF Cm!Edit
  <2>2. cmEnv' \in [volume : Cm!Volumes, major : 1 .. 2]
    BY <1>2 DEF Cm!Edit, Cm!Config, Cm!Old, Cm!New
  <2>3. CmTypes'
    BY <1>0, <2>1, <2>2 DEF CmTypes
  <2> QED BY <1>0, <2>1, <2>3 DEF CmInv, Apart, Progress, Done, Numbered, Ahead
<1>3. CASE Cm!Up
  <2>1. cmEnv.volume \in Cm!Volumes /\ cmEnv.major \in 1 .. 2
    BY <1>0 DEF CmTypes
  <2>2. /\ script = "off" /\ stack' = TRUE /\ cmMajor[cmEnv.volume] \in {0, cmEnv.major}
        /\ cmMajor' = [cmMajor EXCEPT ![cmEnv.volume] = IF cmMajor[cmEnv.volume] = 0 THEN cmEnv.major
                                                        ELSE cmMajor[cmEnv.volume]]
        /\ UNCHANGED <<cmRows, cmSeq, script, copied, printed, cmEnv>>
    BY <1>3 DEF Cm!Up, Cm!Precheck
  <2>3. /\ cmMajor' \in [Cm!Volumes -> 0 .. 2] /\ cmMajor'[cmEnv.volume] = cmEnv.major
        /\ cmMajor'["target"] = cmMajor["target"]
    BY <1>0, <2>1, <2>2 DEF CmTypes, Apart, Cm!Volumes
  <2>4. CmTypes'
    BY <1>0, <2>2, <2>3 DEF CmTypes
  <2> QED BY <1>0, <2>2, <2>3, <2>4 DEF CmInv, Apart, Progress, Done, Numbered, Ahead
<1>4. CASE Cm!Down
  <2>1. stack' = FALSE /\ UNCHANGED <<cmMajor, cmRows, cmSeq, script, copied, printed, cmEnv>>
    BY <1>4 DEF Cm!Down
  <2>2. CmTypes'
    BY <1>0, <2>1 DEF CmTypes
  <2> QED BY <1>0, <2>1, <2>2 DEF CmInv, Apart, Progress, Done, Numbered, Ahead
<1> QED BY <1>1, <1>2, <1>3, <1>4

(* A row gets the next number of the volume in use, which is never one that a
   script is about to copy. *)
LEMMA CmWriteKeeps ==
  ASSUME Cm!Sized, CmInv, NEW t \in Tables, Cm!Write(t)
  PROVE  CmInv'
<1>0. CmTypes /\ Apart /\ Progress /\ Numbered /\ Serial \in Tables /\ MaxRows \in Nat
  BY DEF CmInv, Cm!Sized
<1> DEFINE v == cmEnv.volume
           id == IF t = Serial THEN cmSeq[v] + 1 ELSE Cm!Highest(cmRows[v][t]) + 1
<1>1. /\ stack /\ id <= MaxRows
      /\ cmRows' = [cmRows EXCEPT ![v][t] = cmRows[v][t] \cup {id}]
      /\ cmSeq' = IF t = Serial THEN [cmSeq EXCEPT ![v] = id] ELSE cmSeq
      /\ UNCHANGED <<cmMajor, script, copied, printed, cmEnv, stack>>
  BY DEF Cm!Write
<1>2. v \in Cm!Volumes /\ script = "off"
  BY <1>0, <1>1 DEF CmTypes, Apart
<1>3. id \in Nat /\ id \in Numbers
  <2>1. cmRows[v][t] \in SUBSET Numbers /\ cmSeq[v] \in Nat
    BY <1>0, <1>2 DEF CmTypes
  <2>2. Cm!Highest(cmRows[v][t]) \in Nat
    BY <1>0, <2>1, HighestIs
  <2> HIDE DEF v
  <2> QED BY <1>0, <1>1, <2>1, <2>2 DEF Numbers
<1>4. t = Serial => id = cmSeq[v] + 1
  OBVIOUS
<1> HIDE DEF v, id
<1>5. cmRows' \in [Cm!Volumes -> [Tables -> SUBSET Numbers]] /\ cmSeq' \in [Cm!Volumes -> Nat]
  BY <1>0, <1>1, <1>2, <1>3 DEF CmTypes
<1>6. CmTypes'
  BY <1>0, <1>1, <1>5 DEF CmTypes
<1>7. ASSUME NEW w \in Cm!Volumes, Ahead(w) PROVE Ahead(w)'
  <2>1. CASE w = v /\ t = Serial
    <3>1. cmRows'[w][Serial] = cmRows[w][Serial] \cup {id} /\ cmSeq'[w] = id
      BY <1>0, <1>1, <1>2, <2>1 DEF CmTypes
    <3>2. cmRows[w][Serial] \in SUBSET Numbers /\ cmSeq[w] \in Nat
      BY <1>0 DEF CmTypes
    <3> QED BY <1>0, <1>3, <1>4, <1>7, <2>1, <3>1, <3>2 DEF Ahead, Numbers
  <2>2. CASE ~ (w = v /\ t = Serial)
    <3>1. cmRows'[w][Serial] = cmRows[w][Serial] /\ cmSeq'[w] = cmSeq[w]
      BY <1>0, <1>1, <1>2, <2>2 DEF CmTypes
    <3> QED BY <1>7, <3>1 DEF Ahead
  <2> QED BY <2>1, <2>2
<1>8. Numbered'
  BY <1>0, <1>1, <1>2, <1>7 DEF Numbered, Cm!Volumes
<1>9. Progress'
  <2>1. v = "target" => cmMajor["target"] # 0
    BY <1>0 DEF Apart, v
  <2>2. v # "target" => cmRows'["target"] = cmRows["target"]
    BY <1>0, <1>1, <1>2 DEF CmTypes, Cm!Volumes
  <2> QED BY <1>0, <1>1, <1>2, <2>1, <2>2 DEF Progress
<1> QED BY <1>0, <1>1, <1>6, <1>8, <1>9 DEF CmInv, Apart

LEMMA CmStepKeeps ==
  ASSUME Cm!Sized
  PROVE  CmInv /\ [Cm!Next]_(Cm!vars) => CmInv'
<1> SUFFICES ASSUME CmInv, [Cm!Next]_(Cm!vars) PROVE CmInv'
  OBVIOUS
<1>1. CASE UNCHANGED Cm!vars
  BY <1>1 DEF Cm!vars, CmInv, CmTypes, Apart, Progress, Done, Numbered, Ahead
<1> QED BY <1>1, CmScriptKeeps, CmCopyKeeps, CmExitKeeps, CmUserKeeps, CmWriteKeeps DEF Cm!Next

(* The inductive invariant of the upgrade of a Compose deployment. *)
THEOREM CmInvariance ==
  ASSUME Cm!Sized
  PROVE  Cm!Spec => []CmInv
<1>1. Cm!Init => CmInv
  BY CmInitHolds
<1>2. CmInv /\ [Cm!Next]_(Cm!vars) => CmInv'
  BY CmStepKeeps
<1> QED BY <1>1, <1>2, PTL DEF Cm!Spec

(* Whichever commands fail, and however often the script is run, the stack is
   stopped, started and pointed at one volume or the other: a database serves a
   volume of its own major, and the next number it gives to a row is free
   (compose-migrate.sh). *)
THEOREM SafeStack ==
  ASSUME Cm!Sized
  PROVE  Cm!Spec => [](Cm!StackIsSafe)
<1>1. CmInv => Cm!StackIsSafe
  <2> SUFFICES ASSUME CmInv, stack PROVE Cm!ServesOwnMajor /\ Cm!NumbersFresh
    BY DEF Cm!StackIsSafe, Cm!ServesOwnMajor, Cm!NumbersFresh
  <2>1. Ahead(cmEnv.volume) /\ cmEnv.volume \in Cm!Volumes
    BY DEF CmInv, CmTypes, Apart, Numbered, Cm!Volumes
  <2>2. cmRows[cmEnv.volume][Serial] \in SUBSET Numbers /\ cmSeq[cmEnv.volume] \in Nat
    BY <2>1 DEF CmInv, CmTypes, Cm!Sized
  <2>3. cmSeq[cmEnv.volume] + 1 \notin cmRows[cmEnv.volume][Serial]
    BY <2>1, <2>2 DEF Ahead, Numbers
  <2> QED BY <2>3 DEF CmInv, Apart, Cm!ServesOwnMajor, Cm!NumbersFresh
<1> QED BY <1>1, CmInvariance, PTL

(* No other command says so. *)
LEMMA OnlyVerifyPrints == Cm!Next => Cm!Verify \/ printed' = printed
<1>1. Cm!Start \/ Cm!Ready \/ Cm!Sequences => printed' = printed
  BY DEF Cm!Start, Cm!Ready, Cm!Sequences
<1>2. Cm!Exit \/ Cm!Remove \/ Cm!Edit => printed' = printed
  BY DEF Cm!Exit, Cm!Remove, Cm!Edit
<1>3. Cm!Up \/ Cm!Down => printed' = printed
  BY DEF Cm!Up, Cm!Down
<1>4. ASSUME NEW t \in Tables, Cm!Copy(t) \/ Cm!Write(t) PROVE printed' = printed
  BY <1>4 DEF Cm!Copy, Cm!Write
<1> QED BY <1>1, <1>2, <1>3, <1>4 DEF Cm!Next

(* A run that says it is complete has every row of the original in the migrated
   volume, although it only compares how many there are
   (compose-migrate.sh). *)
THEOREM CompleteIsComplete ==
  ASSUME Cm!Sized
  PROVE  Cm!Spec => Cm!CompleteMeansAll
<1>1. CmInv /\ [Cm!Next]_(Cm!vars) =>
        [printed' /\ ~printed => \A t \in Tables : cmRows["target"][t] = cmRows["source"][t]]_(Cm!vars)
  <2> SUFFICES ASSUME CmInv, Cm!Next, printed', ~printed
               PROVE  \A t \in Tables : cmRows["target"][t] = cmRows["source"][t]
    OBVIOUS
  <2>1. Cm!Verify
    BY OnlyVerifyPrints
  <2> QED BY <2>1 DEF Cm!Verify, CmInv, Progress, Done
<1> QED BY <1>1, CmInvariance, PTL DEF Cm!Spec, Cm!CompleteMeansAll
=============================================================================
