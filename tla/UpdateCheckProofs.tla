--------------------------- MODULE UpdateCheckProofs ---------------------------
(***************************************************************************)
(* Machine-checked proofs about UpdateCheck, for any set of versions, pages *)
(* and validities of an answer; and, behind them, about the rest of App's   *)
(* state, its workspace (Workspace).                                        *)
(*                                                                          *)
(* What a page shows was answered before, so the invariant says of every    *)
(* answer that is still around, in the cache or on a page, that it was      *)
(* right (Right).  That a version pops up once relates what was remembered  *)
(* to the releases and to the cached answer (Once): neither is ever older   *)
(* than what was shown last.                                                *)
(***************************************************************************)
EXTENDS UpdateCheck, SequenceTheorems, WellFoundedInduction, TLAPS

Known == Versions \cup {NoVersion}
Answers == [known : BOOLEAN, latest : Known, newer : SUBSET Versions]
Pages == [info : Answers, popup : {"quiet", "shown", "closed"}, seen : Known]

Types ==
  /\ habits \in SUBSET Habits /\ current \in Current
  /\ releases \in Seq([v : Versions, flag : BOOLEAN])
  /\ cache \in Answers /\ life \in {0, ErrorTtl, Ttl} /\ since \in 0 .. Ttl
  /\ asks \in SUBSET Clients /\ holder \in asks \cup {None}
  /\ page \in [Clients -> Pages]
  /\ seen \in Known /\ shown \in SUBSET Versions /\ again \in BOOLEAN

(* No version is published twice, and unless lower ones are published after
   higher ones the list is in order. *)
Listed ==
  /\ \A i, j \in DOMAIN releases : releases[i].v = releases[j].v => i = j
  /\ "backports" \notin habits => \A i, j \in DOMAIN releases : i < j => Newer(releases[i].v, releases[j].v)

(* An answer is in the channel of the user, and names the newest. *)
Right(a) ==
  /\ a.newer # {} => a.latest \in Versions
  /\ ~Pre(current) => ~Pre(a.latest) /\ \A v \in a.newer : ~Pre(v)
  /\ "backports" \notin habits =>
       \A v \in a.newer : Newer(a.latest, current) /\ ~Newer(v, a.latest)
AllRight == Right(cache) /\ \A c \in Clients : Right(page[c].info)

First == CHOOSE d \in Clients : TRUE
Published(v) == \E i \in Offered : releases[i].v = v
Follows(v, w) == v = w \/ Newer(v, w)

(* A single page is open: it and what is remembered agree. *)
SinglePage ==
  /\ asks \subseteq {First}
  /\ \A d \in Clients : page[d].popup = "shown" => page[d].info.newer # {}
  /\ \A d \in Clients \ {First} : page[d].info.newer = {}
  /\ page[First].info.newer # {} => page[First].info.latest = seen
  /\ First \in asks => page[First].seen = seen /\ page[First].info.newer = {}

(* What was shown, what is cached and what is published follow each other. *)
Once ==
  habits \cap {"tabs", "backports"} = {} =>
    /\ SinglePage
    /\ shown # {} => Published(seen) /\ \A v \in shown : Follows(seen, v)
    /\ shown = {} => seen = NoVersion
    /\ cache.newer # {} => Published(cache.latest) /\ (shown # {} => Follows(cache.latest, seen))
    /\ ~again

(* Since the last request no more time has passed than the answer is valid. *)
Timed ==
  /\ ~cache.known /\ holder = None => since = Ttl
  /\ cache.known => life \in {ErrorTtl, Ttl}

IInv == Types /\ Listed /\ AllRight /\ Once /\ Timed
-----------------------------------------------------------------------------
Ver == [n : Nat, pre : Nat]

(* Newer is a strict order. *)
LEMMA NewerIsOrder ==
  /\ \A a, b \in Ver : Newer(a, b) => ~Newer(b, a) /\ a # b
  /\ \A a, b, c \in Ver : Newer(a, b) /\ Newer(b, c) => Newer(a, c)
BY DEF Ver, Newer, Pre

LEMMA VersionTypes ==
  ASSUME Sized
  PROVE  /\ NoVersion \in Ver /\ ~Pre(NoVersion) /\ NoVersion \notin Versions
         /\ Versions \subseteq Ver /\ Known \subseteq Ver /\ Current \subseteq Ver
BY DEF Sized, Ver, NoVersion, Known, Pre

Below == {p \in Nat \X Nat : p[1] < p[2]}

LEMMA LeastExists ==
  ASSUME NEW S, S \subseteq Nat, S # {}
  PROVE  \E i \in S : \A j \in S : i <= j
<1>1. IsWellFoundedOn(Below, Nat)
  BY NatLessThanWellFounded DEF OpToRel, Below
<1>2. PICK i \in S : \A j \in S : <<j, i>> \notin Below
  BY <1>1, WFMin
<1>3. ASSUME NEW j \in S PROVE i <= j
  <2>1. <<j, i>> \notin Below /\ i \in Nat /\ j \in Nat
    BY <1>2
  <2>2. ~(j < i)
    BY <2>1 DEF Below
  <2> QED BY <2>1, <2>2
<1> QED BY <1>3

Releases == [v : Versions, flag : BOOLEAN]

LEMMA ReleasesAre ==
  ASSUME Types
  PROVE  /\ DOMAIN releases = 1 .. Len(releases) /\ Len(releases) \in Nat
         /\ \A i \in DOMAIN releases : i \in Nat /\ releases[i] \in Releases /\ releases[i].v \in Versions
         /\ Offered \subseteq DOMAIN releases
<1>1. releases \in Seq(Releases)
  BY DEF Types, Releases
<1>2. releases \in [1 .. Len(releases) -> Releases] /\ Len(releases) \in Nat
  BY <1>1, LenProperties
<1>3. \A r \in Releases : r.v \in Versions
  BY DEF Releases
<1> QED BY <1>2, <1>3 DEF Offered

(* What the server answers, and when it finds nothing. *)
LEMMA AnswerIs ==
  ASSUME Sized, Types
  PROVE  /\ Answer \in Answers /\ Answer.known
         /\ Answer.newer = {releases[i].v : i \in {j \in Offered : Newer(releases[j].v, current)}}
         /\ Offered = {} => Answer.latest = NoVersion
         /\ Offered # {} => \E i \in Offered : Answer.latest = releases[i].v /\ \A j \in Offered : i <= j
<1>1. Offered \subseteq DOMAIN releases /\ DOMAIN releases \subseteq Nat
      /\ \A i \in DOMAIN releases : releases[i].v \in Versions
  BY ReleasesAre
<1>2. CASE Offered = {}
  <2>1. Answer.latest = NoVersion /\ Answer.known = TRUE
        /\ Answer.newer = {releases[i].v : i \in {j \in Offered : Newer(releases[j].v, current)}}
    BY <1>2 DEF Answer
  <2>2. Answer \in Answers
    BY <1>1, <1>2 DEF Answer, Answers, Known
  <2> QED BY <1>2, <2>1, <2>2
<1>3. CASE Offered # {}
  <2> DEFINE i == CHOOSE k \in Offered : \A j \in Offered : k <= j
  <2>1. i \in Offered /\ \A j \in Offered : i <= j
    BY <1>1, <1>3, LeastExists
  <2>2. Answer.latest = releases[i].v /\ Answer.known = TRUE
        /\ Answer.newer = {releases[k].v : k \in {j \in Offered : Newer(releases[j].v, current)}}
    BY <1>3 DEF Answer, FirstOf
  <2> HIDE DEF i
  <2>3. Answer = [known |-> TRUE, latest |-> Answer.latest, newer |-> Answer.newer]
    BY DEF Answer
  <2>4. Answer.latest \in Known /\ Answer.newer \in SUBSET Versions
    BY <1>1, <2>1, <2>2 DEF Known
  <2>5. Answer \in Answers
    <3> DEFINE l == Answer.latest
               n == Answer.newer
    <3>1. l \in Known /\ n \in SUBSET Versions /\ Answer = [known |-> TRUE, latest |-> l, newer |-> n]
      BY <2>3, <2>4
    <3> HIDE DEF l, n
    <3> QED BY <3>1 DEF Answers
  <2> QED BY <1>3, <2>1, <2>2, <2>5
<1> QED BY <1>2, <1>3

(* An answer in the channel of the user, and the newest first. *)
LEMMA AnswerIsRight ==
  ASSUME Sized, Types, Listed
  PROVE  Right(Answer)
<1>1. \A i \in Offered : i \in DOMAIN releases /\ releases[i].v \in Versions /\ i \in Nat
  BY ReleasesAre
<1>2. ASSUME ~Pre(current) PROVE ~Pre(Answer.latest) /\ \A v \in Answer.newer : ~Pre(v)
  <2>1. \A i \in Offered : ~Pre(releases[i].v)
    BY <1>2 DEF Offered, StableByName
  <2> QED BY <2>1, AnswerIs, VersionTypes
<1>3. ASSUME "backports" \notin habits, NEW v \in Answer.newer
      PROVE  Newer(Answer.latest, current) /\ ~Newer(v, Answer.latest)
  <2>1. PICK j \in Offered : v = releases[j].v /\ Newer(v, current)
    BY AnswerIs
  <2>2. PICK i \in Offered : Answer.latest = releases[i].v /\ \A k \in Offered : i <= k
    BY <2>1, AnswerIs
  <2>3. i = j \/ Newer(releases[i].v, releases[j].v)
    BY <1>1, <1>3, <2>1, <2>2 DEF Listed
  <2>4. releases[i].v \in Ver /\ v \in Ver /\ current \in Ver
    BY <1>1, <2>1, VersionTypes DEF Types
  <2> QED BY <2>1, <2>2, <2>3, <2>4, NewerIsOrder
<1>4. Answer.newer # {} => Answer.latest \in Versions
  BY <1>1, AnswerIs
<1> QED BY <1>2, <1>3, <1>4 DEF Right

LEMMA InitHolds ==
  ASSUME Sized
  PROVE  Init => IInv
<1> SUFFICES ASSUME Init PROVE IInv
  OBVIOUS
<1>1. /\ releases = <<>> /\ DOMAIN releases = {} /\ releases \in Seq([v : Versions, flag : BOOLEAN])
  BY DEF Init
<1>2. NoAnswer \in Answers /\ NoAnswer.newer = {} /\ NoAnswer.latest = NoVersion /\ ~NoAnswer.known
  BY DEF NoAnswer, Answers, Known
<1>3. NoVersion \in Known
  BY DEF Known
<1>4. Opened(NoVersion) \in Pages /\ Opened(NoVersion).info = NoAnswer /\ Opened(NoVersion).seen = NoVersion
      /\ Opened(NoVersion).popup = "quiet"
  BY <1>2, <1>3 DEF Opened, Pages
<1>5. \A c \in Clients : page[c] = Opened(NoVersion)
  BY DEF Init
<1>6. again \in BOOLEAN /\ ~again
  BY Zenon DEF Init
<1>7. page \in [Clients -> Pages]
  BY <1>4 DEF Init
<1>8. Types
  BY <1>1, <1>2, <1>3, <1>6, <1>7 DEF Init, Types, Sized
<1>9. First \in Clients
  BY DEF First, Sized
<1>10. AllRight
  BY <1>2, <1>4, <1>5, VersionTypes DEF AllRight, Right, Init
<1>11. Once
  BY <1>2, <1>4, <1>5, <1>6, <1>9 DEF Once, SinglePage, Init
<1> QED BY <1>1, <1>2, <1>8, <1>10, <1>11 DEF Init, IInv, Listed, Timed
-----------------------------------------------------------------------------
LEMMA PublishKeeps ==
  ASSUME Sized, IInv, NEW v \in Versions, Publish(v)
  PROVE  IInv'
<1>1. PICK flag \in BOOLEAN : releases' = <<[v |-> v, flag |-> flag]>> \o releases
  BY DEF Publish
<1> DEFINE r == [v |-> v, flag |-> flag]
<1>2. r \in Releases /\ r.v = v /\ releases \in Seq(Releases) /\ <<r>> \in Seq(Releases)
      /\ Len(<<r>>) = 1 /\ <<r>>[1] = r
  BY DEF IInv, Types, Releases
<1> HIDE DEF r
<1>3. releases' = <<r>> \o releases
  BY <1>1 DEF r
<1>4. /\ releases' \in Seq(Releases) /\ Len(releases') = Len(releases) + 1 /\ Len(releases) \in Nat
      /\ releases'[1] = r /\ \A i \in 1 .. Len(releases) : releases'[i + 1] = releases[i]
  <2>1. Len(releases) \in Nat
    BY <1>2, LenProperties
  <2>2. releases' \in Seq(Releases) /\ Len(releases') = Len(releases) + 1
    BY <1>2, <1>3, <2>1, ConcatProperties
  <2>3. \A i \in 1 .. Len(releases) + 1 :
          releases'[i] = IF i <= 1 THEN <<r>>[i] ELSE releases[i - 1]
    BY <1>2, <1>3, <2>1, ConcatProperties
  <2> QED BY <1>2, <2>1, <2>2, <2>3
<1>5. DOMAIN releases' = 1 .. Len(releases) + 1 /\ DOMAIN releases = 1 .. Len(releases)
  BY <1>2, <1>4, LenProperties
<1>6. UNCHANGED <<habits, current, cache, life, since, asks, holder, page, seen, shown, again>>
  BY DEF Publish, server, browser
<1>7. Types'
  BY <1>4, <1>6 DEF IInv, Types, Releases
<1>8. ASSUME NEW i \in DOMAIN releases' PROVE i = 1 \/ (i - 1 \in DOMAIN releases /\ releases'[i] = releases[i - 1])
  BY <1>4, <1>5
<1>9. \A i \in DOMAIN releases : releases[i].v # v /\ ("backports" \notin habits => Newer(v, releases[i].v))
  BY DEF Publish
<1>10. Listed'
  <2>1. ASSUME NEW i \in DOMAIN releases', NEW j \in DOMAIN releases', releases'[i].v = releases'[j].v PROVE i = j
    <3>1. CASE i # 1 /\ j # 1
      <4>1. i \in Nat /\ j \in Nat
        BY <1>4, <1>5
      <4>2. i - 1 \in DOMAIN releases /\ j - 1 \in DOMAIN releases /\ releases[i - 1].v = releases[j - 1].v
        BY <1>8, <2>1, <3>1
      <4>3. i - 1 = j - 1
        BY <4>2 DEF IInv, Listed
      <4> QED BY <4>1, <4>3
    <3>2. CASE i = 1 /\ j # 1
      BY <1>2, <1>4, <1>8, <1>9, <2>1, <3>2
    <3>3. CASE i # 1 /\ j = 1
      BY <1>2, <1>4, <1>8, <1>9, <2>1, <3>3
    <3> QED BY <3>1, <3>2, <3>3
  <2>2. ASSUME "backports" \notin habits', NEW i \in DOMAIN releases', NEW j \in DOMAIN releases', i < j
        PROVE  Newer(releases'[i].v, releases'[j].v)
    <3>1. i \in Nat /\ j \in Nat /\ 1 <= i /\ j # 1 /\ "backports" \notin habits
      BY <1>4, <1>5, <1>6, <2>2
    <3>2. j - 1 \in DOMAIN releases /\ releases'[j] = releases[j - 1]
      BY <1>8, <3>1
    <3>3. CASE i = 1
      BY <1>2, <1>4, <1>9, <3>1, <3>2, <3>3
    <3>4. CASE i # 1
      <4>1. i - 1 \in DOMAIN releases /\ releases'[i] = releases[i - 1] /\ i - 1 < j - 1
        BY <1>8, <2>2, <3>1, <3>4
      <4>2. \A k, l \in DOMAIN releases : k < l => Newer(releases[k].v, releases[l].v)
        BY <3>1 DEF IInv, Listed
      <4> QED BY <3>2, <4>1, <4>2
    <3> QED BY <3>3, <3>4
  <2> QED BY <2>1, <2>2 DEF Listed
<1>11. ASSUME NEW w, Published(w) PROVE Published(w)'
  <2>1. PICK i \in Offered : releases[i].v = w
    BY <1>11 DEF Published
  <2>2. i \in 1 .. Len(releases) /\ i + 1 \in DOMAIN releases' /\ releases'[i + 1] = releases[i]
    BY <1>4, <1>5, <2>1 DEF Offered
  <2>3. (i + 1) \in Offered'
    BY <1>6, <2>1, <2>2 DEF Offered
  <2> QED BY <2>1, <2>2, <2>3 DEF Published
<1>12. Once'
  BY <1>6, <1>11 DEF IInv, Once, SinglePage
<1> QED BY <1>6, <1>7, <1>10, <1>12 DEF IInv, AllRight, Right, Timed

LEMMA TickKeeps ==
  ASSUME Sized, IInv, Tick
  PROVE  IInv'
<1>1. UNCHANGED <<habits, current, releases, cache, life, asks, holder, page, seen, shown, again>>
  BY DEF Tick, browser
<1>2. since < Ttl /\ since' = since + 1 /\ since' \in 0 .. Ttl
  BY DEF Tick, Sized, IInv, Types
<1>3. Types'
  BY <1>1, <1>2 DEF IInv, Types
<1>4. Timed'
  BY <1>1, <1>2 DEF IInv, Timed, Types, Sized
<1> QED BY <1>1, <1>3, <1>4 DEF IInv, Listed, AllRight, Right, Once, SinglePage, Published, Offered

LEMMA OpenKeeps ==
  ASSUME Sized, IInv, NEW c \in Clients, Open(c)
  PROVE  IInv'
<1>1. /\ UNCHANGED <<habits, current, releases, cache, life, since, holder, seen, shown, again>>
      /\ asks' = asks \cup {c} /\ page' = [page EXCEPT ![c] = Opened(seen)]
      /\ "tabs" \in habits \/ c = First
  BY DEF Open, First
<1>2. NoAnswer \in Answers /\ NoAnswer.newer = {} /\ NoAnswer.latest = NoVersion
  BY DEF NoAnswer, Answers, Known
<1>3. Opened(seen) \in Pages /\ Opened(seen).info = NoAnswer /\ Opened(seen).seen = seen
      /\ Opened(seen).popup = "quiet"
  BY <1>2 DEF Opened, Pages, IInv, Types
<1>4. page' \in [Clients -> Pages] /\ page'[c] = Opened(seen) /\ \A d \in Clients \ {c} : page'[d] = page[d]
  BY <1>1, <1>3 DEF IInv, Types
<1>5. Types'
  BY <1>1, <1>4 DEF IInv, Types
<1>6. AllRight'
  BY <1>1, <1>2, <1>3, <1>4, VersionTypes DEF IInv, AllRight, Right
<1>7. Once'
  BY <1>1, <1>2, <1>3, <1>4 DEF IInv, Once, SinglePage, Published, Offered
<1> QED BY <1>1, <1>5, <1>6, <1>7 DEF IInv, Listed, Timed
-----------------------------------------------------------------------------
(* An answer that is right, and not older than what was shown, comes to a page
   that waits for it. *)
LEMMA ReplyKeeps ==
  ASSUME Sized, IInv, NEW c \in asks, NEW a \in Answers, Right(a), Replied(c, a),
         UNCHANGED <<habits, current, releases>>,
         habits \cap {"tabs", "backports"} = {} /\ a.newer # {} =>
           Published(a.latest) /\ (shown # {} => Follows(a.latest, seen))
  PROVE  /\ page' \in [Clients -> Pages] /\ seen' \in Known /\ shown' \in SUBSET Versions /\ again' \in BOOLEAN
         /\ asks' = asks \ {c} /\ \A d \in Clients : Right(page[d].info)'
         /\ habits \cap {"tabs", "backports"} = {} =>
              /\ SinglePage'
              /\ (shown # {} => Published(seen) /\ \A v \in shown : Follows(seen, v))'
              /\ shown' = {} => seen' = NoVersion
              /\ a.newer # {} /\ shown' # {} => Follows(a.latest, seen')
              /\ ~again'
<1> DEFINE new == HasNew(c, a)
<1>1. /\ asks' = asks \ {c} /\ c \in Clients
      /\ page' = [page EXCEPT ![c].info = a, ![c].popup = IF new THEN "shown" ELSE "quiet"]
      /\ seen' = IF new THEN a.latest ELSE seen
      /\ shown' = IF new THEN shown \cup {a.latest} ELSE shown
      /\ again' = (again \/ (new /\ a.latest \in shown))
  BY DEF Replied, IInv, Types
<1>2. new <=> a.newer # {} /\ a.latest # page[c].seen
  BY DEF HasNew
<1> HIDE DEF new
<1>3. /\ page' \in [Clients -> Pages] /\ \A d \in Clients \ {c} : page'[d] = page[d]
      /\ page'[c].info = a /\ page'[c].seen = page[c].seen /\ page'[c].popup = IF new THEN "shown" ELSE "quiet"
  BY <1>1 DEF IInv, Types, Pages
<1>4. a.latest \in Known /\ a.newer \subseteq Versions /\ seen \in Known /\ shown \subseteq Versions /\ current \in Ver
  BY VersionTypes DEF Answers, IInv, Types
<1>5. new => a.latest \in Versions
  BY <1>2 DEF Right
<1>6. again' \in BOOLEAN
  BY <1>1, Zenon
<1>7. \A d \in Clients : Right(page[d].info)'
  BY <1>3 DEF IInv, AllRight, Right
<1>8. ASSUME habits \cap {"tabs", "backports"} = {}
      PROVE  /\ SinglePage'
             /\ (shown # {} => Published(seen) /\ \A v \in shown : Follows(seen, v))'
             /\ shown' = {} => seen' = NoVersion
             /\ a.newer # {} /\ shown' # {} => Follows(a.latest, seen')
             /\ ~again'
  <2>1. /\ SinglePage /\ c = First /\ page[c].seen = seen
        /\ shown # {} => Published(seen) /\ \A v \in shown : Follows(seen, v)
        /\ shown = {} => seen = NoVersion
        /\ ~again
    BY <1>8 DEF IInv, Once, SinglePage
  <2>2. CASE new
    <3>1. a.newer # {} /\ a.latest # seen /\ seen' = a.latest /\ shown' = shown \cup {a.latest}
          /\ a.latest \in Ver /\ seen \in Ver /\ shown \subseteq Ver
      BY <1>1, <1>2, <1>4, <1>5, <2>1, <2>2, VersionTypes
    <3>2. shown # {} => Newer(a.latest, seen)
      BY <1>8, <3>1 DEF Follows
    <3>3. \A v \in shown : Newer(a.latest, v) /\ v # a.latest
      BY <2>1, <3>1, <3>2, NewerIsOrder DEF Follows
    <3>4. ~again'
      BY <1>1, <2>1, <3>3, Zenon
    <3>5. Published(seen)'
      BY <1>8, <3>1 DEF Published, Offered
    <3>6. SinglePage'
      BY <1>1, <1>3, <2>1, <2>2, <3>1 DEF SinglePage
    <3> QED BY <3>1, <3>3, <3>4, <3>5, <3>6 DEF Follows
  <2>3. CASE ~new
    <3>1. seen' = seen /\ shown' = shown
      BY <1>1, <2>3
    <3>2. ~again'
      BY <1>1, <2>1, <2>3, Zenon
    <3>3. a.newer # {} => a.latest = seen
      BY <1>2, <2>1, <2>3
    <3>4. SinglePage'
      BY <1>1, <1>3, <2>1, <2>3, <3>1, <3>3 DEF SinglePage
    <3> QED BY <2>1, <3>1, <3>2, <3>3, <3>4 DEF Follows, Published, Offered
  <2> QED BY <2>2, <2>3
<1> QED BY <1>1, <1>3, <1>4, <1>5, <1>6, <1>7, <1>8
-----------------------------------------------------------------------------
LEMMA CachedKeeps ==
  ASSUME Sized, IInv, NEW c \in Clients, Cached(c)
  PROVE  IInv'
<1>1. c \in asks /\ holder = None /\ Replied(c, cache) /\ cache.known
      /\ UNCHANGED <<habits, current, releases, cache, life, since, holder>>
  BY DEF Cached, Fresh
<1>2. cache \in Answers /\ Right(cache)
  BY DEF IInv, Types, AllRight
<1>3. habits \cap {"tabs", "backports"} = {} /\ cache.newer # {} =>
        Published(cache.latest) /\ (shown # {} => Follows(cache.latest, seen))
  BY DEF IInv, Once
<1>4. /\ page' \in [Clients -> Pages] /\ seen' \in Known /\ shown' \in SUBSET Versions /\ again' \in BOOLEAN
      /\ asks' = asks \ {c} /\ \A d \in Clients : Right(page[d].info)'
      /\ habits \cap {"tabs", "backports"} = {} =>
           /\ SinglePage'
           /\ (shown # {} => Published(seen) /\ \A v \in shown : Follows(seen, v))'
           /\ shown' = {} => seen' = NoVersion
           /\ cache.newer # {} /\ shown' # {} => Follows(cache.latest, seen')
           /\ ~again'
  BY <1>1, <1>2, <1>3, ReplyKeeps
<1>5. Types'
  BY <1>1, <1>4 DEF IInv, Types
<1>6. Once'
  <2>1. \A v : Published(v)' <=> Published(v)
    BY <1>1 DEF Published, Offered
  <2> QED BY <1>1, <1>3, <1>4, <2>1 DEF Once
<1> QED BY <1>1, <1>4, <1>5, <1>6 DEF IInv, Listed, AllRight, Right, Timed

LEMMA BeginFetchKeeps ==
  ASSUME Sized, IInv, NEW c \in Clients, BeginFetch(c)
  PROVE  IInv'
<1>1. c \in asks /\ holder' = c /\ since' = 0
      /\ UNCHANGED <<habits, current, releases, cache, life, asks, page, seen, shown, again>>
  BY DEF BeginFetch, browser
<1>2. Types'
  BY <1>1 DEF IInv, Types, Sized
<1>3. Timed'
  BY <1>1 DEF IInv, Timed, Sized, None
<1> QED BY <1>1, <1>2, <1>3 DEF IInv, Listed, AllRight, Right, Once, SinglePage, Published, Offered

LEMMA EndFetchKeeps ==
  ASSUME Sized, IInv, EndFetch
  PROVE  IInv'
<1>1. holder \in asks /\ holder' = None /\ Replied(holder, cache')
      /\ UNCHANGED <<habits, current, releases, since>>
  BY DEF EndFetch, IInv, Types
<1>2. /\ cache' \in Answers /\ cache'.known /\ Right(cache') /\ life' \in {ErrorTtl, Ttl}
      /\ cache'.newer # {} => cache' = Answer
  <2>1. CASE cache' = Answer /\ life' = Ttl
    BY <2>1, AnswerIs, AnswerIsRight DEF IInv
  <2>2. CASE cache' = [NoAnswer EXCEPT !.known = TRUE] /\ life' = ErrorTtl
    <3>1. cache' = [known |-> TRUE, latest |-> NoVersion, newer |-> {}]
      BY <2>2 DEF NoAnswer
    <3>2. cache'.newer = {} /\ cache'.latest = NoVersion /\ cache'.known
      BY <3>1
    <3>3. cache' \in Answers
      BY <3>1 DEF Answers, Known
    <3> QED BY <2>2, <3>2, <3>3, VersionTypes DEF Right
  <2> QED BY <2>1, <2>2 DEF EndFetch
<1>3. ASSUME habits \cap {"tabs", "backports"} = {}, cache'.newer # {}
      PROVE  Published(cache'.latest) /\ (shown # {} => Follows(cache'.latest, seen))
  <2>1. Offered # {}
    BY <1>2, <1>3, AnswerIs DEF IInv
  <2>2. PICK i \in Offered : cache'.latest = releases[i].v /\ \A j \in Offered : i <= j
    BY <1>2, <1>3, <2>1, AnswerIs DEF IInv
  <2>3. ASSUME shown # {} PROVE Follows(cache'.latest, seen)
    <3>1. PICK j \in Offered : releases[j].v = seen
      BY <1>3, <2>3 DEF IInv, Once, Published
    <3>2. i \in DOMAIN releases /\ j \in DOMAIN releases /\ i \in Nat /\ j \in Nat /\ i <= j
      BY <2>2, ReleasesAre DEF IInv
    <3>3. i = j \/ Newer(releases[i].v, releases[j].v)
      BY <1>3, <3>2 DEF IInv, Listed
    <3> QED BY <2>2, <3>1, <3>3 DEF Follows
  <2> QED BY <2>2, <2>3 DEF Published
<1>4. /\ page' \in [Clients -> Pages] /\ seen' \in Known /\ shown' \in SUBSET Versions /\ again' \in BOOLEAN
      /\ asks' = asks \ {holder} /\ \A d \in Clients : Right(page[d].info)'
      /\ habits \cap {"tabs", "backports"} = {} =>
           /\ SinglePage'
           /\ (shown # {} => Published(seen) /\ \A v \in shown : Follows(seen, v))'
           /\ shown' = {} => seen' = NoVersion
           /\ cache'.newer # {} /\ shown' # {} => Follows(cache'.latest, seen')
           /\ ~again'
  BY <1>1, <1>2, <1>3, ReplyKeeps
<1>5. Types'
  BY <1>1, <1>2, <1>4 DEF IInv, Types
<1>6. Once'
  <2>1. \A v : Published(v)' <=> Published(v)
    BY <1>1 DEF Published, Offered
  <2> QED BY <1>1, <1>3, <1>4, <2>1 DEF Once
<1>7. Right(cache)'
  BY <1>1, <1>2 DEF Right
<1> QED BY <1>1, <1>2, <1>4, <1>5, <1>6, <1>7 DEF IInv, Listed, AllRight, Timed
-----------------------------------------------------------------------------
LEMMA PopupKeeps ==
  ASSUME Sized, IInv, NEW c \in Clients, Dismiss(c) \/ Chip(c)
  PROVE  IInv'
<1>1. UNCHANGED <<habits, current, releases, cache, life, since, asks, holder, shown, again>>
  BY DEF Dismiss, Chip, server
<1>2. /\ page' \in [Clients -> Pages] /\ \A d \in Clients \ {c} : page'[d] = page[d]
      /\ page'[c].info = page[c].info /\ page'[c].seen = page[c].seen
      /\ page'[c].popup = "shown" => page[c].info.newer # {}
      /\ page[c] \in Pages
  BY DEF Dismiss, Chip, IInv, Types, Pages
<1>3. seen' = seen \/ (page[c].popup = "shown" /\ seen' = page[c].info.latest)
  BY DEF Dismiss, Chip
<1>4. seen' \in Known
  BY <1>2, <1>3 DEF IInv, Types, Pages, Answers
<1>5. Types'
  BY <1>1, <1>2, <1>4 DEF IInv, Types
<1>6. AllRight'
  BY <1>1, <1>2 DEF IInv, AllRight, Right
<1>7. ASSUME habits \cap {"tabs", "backports"} = {} PROVE seen' = seen
  BY <1>3, <1>7 DEF IInv, Once, SinglePage
<1>8. ASSUME habits \cap {"tabs", "backports"} = {} PROVE SinglePage'
  <2>1. First \in Clients /\ SinglePage
    BY <1>8 DEF First, Sized, IInv, Once
  <2>2. \A d \in Clients : page'[d].info = page[d].info /\ page'[d].seen = page[d].seen
    BY <1>2
  <2>3. \A d \in Clients : page'[d].popup = "shown" => page'[d].info.newer # {}
    BY <1>2, <2>1 DEF SinglePage
  <2> QED BY <1>1, <1>7, <1>8, <2>1, <2>2, <2>3 DEF SinglePage
<1>9. Once'
  BY <1>1, <1>7, <1>8 DEF IInv, Once, Published, Offered
<1> QED BY <1>1, <1>5, <1>6, <1>9 DEF IInv, Listed, Timed

LEMMA StepKeeps ==
  ASSUME Sized
  PROVE  IInv /\ [Next]_vars => IInv'
<1> SUFFICES ASSUME IInv, [Next]_vars PROVE IInv'
  OBVIOUS
<1>1. CASE UNCHANGED vars
  BY <1>1 DEF vars, server, browser, IInv, Types, Listed, AllRight, Right, Once, SinglePage, Published, Offered, Timed
<1> QED BY <1>1, PublishKeeps, TickKeeps, OpenKeeps, CachedKeeps, BeginFetchKeeps, EndFetchKeeps, PopupKeeps DEF Next

(* The strengthened invariant of the update check (update_check.py). *)
THEOREM Invariance ==
  ASSUME Sized
  PROVE  Spec => []IInv
<1>1. Init => IInv
  BY InitHolds
<1>2. IInv /\ [Next]_vars => IInv'
  BY StepKeeps
<1> QED BY <1>1, <1>2, PTL DEF Spec

(* Whatever is published, and however many pages ask: a user of a stable
   release is offered no pre-release, the version named is the newest, and with
   a single page it pops up once (update_check.py, App.tsx). *)
THEOREM TrulyOffered ==
  ASSUME Sized
  PROVE  Spec => []OffersTruly
<1>1. IInv => TypeOK
  BY DEF IInv, Types, Listed, TypeOK, Answers, Pages, Known
<1>2. IInv => StableStaysStable
  BY DEF IInv, AllRight, Right, StableStaysStable
<1>3. IInv => OffersTheNewest
  BY DEF IInv, AllRight, Right, OffersTheNewest
<1>4. IInv => OnlyOnce
  BY DEF IInv, Once, OnlyOnce
<1>5. IInv => OffersTruly
  BY <1>1, <1>2, <1>3, <1>4 DEF OffersTruly
<1>6. Spec => []IInv
  BY Invariance
<1> QED BY <1>5, <1>6, PTL

(* GitHub is asked again only after an answer, or a failure to get one, has
   been kept for its time (update_check.py). *)
THEOREM AskedRarely ==
  ASSUME Sized
  PROVE  Spec => AsksRarely
<1>1. IInv /\ [Next]_vars => [since' < since => since >= ErrorTtl]_vars
  <2> SUFFICES ASSUME IInv, Next, since' < since PROVE since >= ErrorTtl
    BY DEF vars
  <2>1. since \in Nat /\ Ttl \in Nat /\ ErrorTtl \in Nat /\ ErrorTtl <= Ttl
    BY DEF IInv, Types, Sized
  <2>2. CASE \E c \in Clients : BeginFetch(c)
    <3>1. holder = None /\ ~Fresh
      BY <2>2 DEF BeginFetch
    <3>2. CASE ~cache.known
      BY <2>1, <3>1, <3>2 DEF IInv, Timed
    <3>3. CASE cache.known
      BY <2>1, <3>1, <3>3 DEF IInv, Timed, Fresh
    <3> QED BY <3>2, <3>3
  <2>3. ASSUME since' = since \/ since' = since + 1 PROVE FALSE
    BY <2>1, <2>3
  <2> QED BY <2>2, <2>3 DEF Next, Tick, EndFetch, Publish, Open, Cached, Dismiss, Chip, server
<1>2. Spec => []IInv
  BY Invariance
<1> QED BY <1>1, <1>2, PTL DEF Spec, AsksRarely
-----------------------------------------------------------------------------
(* The workspace of App (Workspace), for any filters, selections and length of
   the history. *)
CONSTANTS Filters, Selections, NoFilter, MaxEntries, WsEnvs
VARIABLES wsHabits, ws, own, due, timer, synced, mode, entries, at, stored, touched

Ws == INSTANCE Workspace WITH None <- NoFilter, Envs <- WsEnvs, habits <- wsHabits

Place == Ws!Workspaces \cup {Ws!Bogus}

WsTypes ==
  /\ wsHabits \in SUBSET Ws!Habits
  /\ ws \in Ws!Workspaces /\ synced \in Ws!Workspaces /\ stored \in Ws!Workspaces
  /\ own \in Selections
  /\ timer \in BOOLEAN /\ touched \in BOOLEAN
  /\ due \in {"no", "back", "both"} /\ mode \in {"push", "replace"}
  /\ entries \in Seq(Place) /\ Len(entries) \in 1 .. MaxEntries
  /\ at \in 1 .. Len(entries)

(* Once the timer has fired, what a reload would bring back is what is shown;
   what is said to be synced is the entry. *)
Stands ==
  /\ ~ Ws!Shared /\ ~ timer => Ws!Kept = ws
  /\ due = "no" /\ Ws!Open(ws) => own = ws.selection
  /\ Ws!Shared => ~ timer /\ entries = <<Ws!Default>> /\ stored = Ws!Default
  /\ ~ Ws!Embedded => synced = Ws!Sanitize(entries[at])

(* Before the first write after a load, and while the user has touched
   nothing, the workspace is that of the entry. *)
InStep ==
  ~ Ws!Embedded /\ ~ Ws!Shared /\ "panel" \notin wsHabits =>
    ((mode = "replace" /\ "hasty" \notin wsHabits) \/ ~ touched => ws = synced /\ due = "no")

(* Neighbours in the history differ in what they are taken for. *)
Differ(a, b) == ~ Ws!SameApartFromLayout(Ws!Sanitize(a), Ws!Sanitize(b))
Neighbours ==
  wsHabits \cap {"hasty", "panel"} = {} =>
    \A n \in 1 .. Len(entries) - 1 : Differ(entries[n], entries[n + 1])

WsInv == WsTypes /\ Stands /\ InStep /\ Neighbours
-----------------------------------------------------------------------------
(* What a URL is taken for. *)
LEMMA Sanitized ==
  ASSUME Ws!Sized
  PROVE  /\ Ws!Default \in Ws!Workspaces /\ Ws!Bogus \in Place /\ Ws!SharedView \in Ws!Workspaces
         /\ ~ Ws!Open(Ws!Default) /\ ~ Ws!Open(Ws!SharedView)
         /\ \A u \in Ws!Workspaces : Ws!Sanitize(u) = u
         /\ \A u \in Place : Ws!Sanitize(u) \in Ws!Workspaces
         /\ Ws!Sanitize(Ws!Bogus) = Ws!Default
<1>1. Ws!Default \in Ws!Workspaces /\ Ws!Default.view = "list"
  BY DEF Ws!Sized, Ws!Default, Ws!Workspaces, Ws!Views
<1>2. Ws!SharedView \in Ws!Workspaces /\ Ws!SharedView.view = "list"
  <2> DEFINE f == CHOOSE f \in Filters : f # NoFilter
  <2>1. f \in Filters
    BY DEF Ws!Sized
  <2>2. Ws!SharedView = [Ws!Default EXCEPT !.filters = f]
    BY DEF Ws!SharedView
  <2> HIDE DEF f
  <2> QED BY <1>1, <2>1, <2>2 DEF Ws!Workspaces
<1>3. Ws!Bogus = [Ws!Default EXCEPT !.view = "bogus"]
  BY DEF Ws!Bogus
<1>4. Ws!Sanitize(Ws!Bogus) = Ws!Default
  BY <1>1, <1>3 DEF Ws!Sanitize, Ws!Views, Ws!Workspaces
<1>5. \A u \in Ws!Workspaces : Ws!Sanitize(u) = u
  BY DEF Ws!Sanitize, Ws!Workspaces
<1> QED BY <1>1, <1>2, <1>4, <1>5 DEF Place, Ws!Open

(* To differ apart from the layout is to differ in one of three. *)
LEMMA SameIs ==
  ASSUME NEW a \in Ws!Workspaces, NEW b \in Ws!Workspaces
  PROVE  Ws!SameApartFromLayout(a, b)
           <=> a.view = b.view /\ a.filters = b.filters /\ a.selection = b.selection
BY DEF Ws!SameApartFromLayout, Ws!Workspaces

(* Entries that differ in what they are taken for differ. *)
LEMMA DifferIs ==
  ASSUME Ws!Sized, NEW a \in Place, NEW b \in Place, Differ(a, b)
  PROVE  ~ Ws!SameApartFromLayout(a, b)
<1> SUFFICES ASSUME Ws!SameApartFromLayout(a, b) PROVE FALSE
  OBVIOUS
<1>1. CASE a \in Ws!Workspaces /\ b \in Ws!Workspaces
  BY <1>1, Sanitized DEF Differ
<1>2. a.view = b.view
  BY DEF Ws!SameApartFromLayout, Place, Ws!Workspaces, Ws!Bogus, Ws!Default
<1>3. Ws!Bogus.view = "bogus" /\ \A u \in Ws!Workspaces : u.view # "bogus"
  BY DEF Ws!Bogus, Ws!Default, Ws!Workspaces, Ws!Views
<1>4. CASE a = Ws!Bogus /\ b = Ws!Bogus
  BY <1>4, Sanitized, SameIs DEF Differ
<1> QED BY <1>1, <1>2, <1>3, <1>4 DEF Place

LEMMA KeptIs ==
  ASSUME Ws!Sized, WsTypes
  PROVE  entries[at] \in Place /\ Ws!Kept \in Ws!Workspaces
<1>1. entries[at] \in Place
  BY DEF WsTypes
<1> QED BY <1>1, Sanitized DEF Ws!Kept, WsTypes

LEMMA WsInitHolds ==
  ASSUME Ws!Sized
  PROVE  Ws!Init => WsInv
<1> SUFFICES ASSUME Ws!Init PROVE WsInv
  OBVIOUS
<1>1. /\ wsHabits \in WsEnvs /\ own = NoFilter /\ due = "no" /\ timer = Ws!Syncs /\ touched = FALSE
      /\ synced = Ws!Default /\ mode = "replace" /\ at = 1 /\ stored = Ws!Default
      /\ entries = IF "edited" \in wsHabits THEN <<Ws!Bogus>> ELSE <<Ws!Default>>
      /\ ws = IF Ws!Shared THEN Ws!SharedView ELSE Ws!Kept
  BY DEF Ws!Init
<1>2. PICK e \in Place : entries = <<e>> /\ Ws!Sanitize(e) = Ws!Default
                         /\ ("edited" \notin wsHabits => e = Ws!Default)
  BY <1>1, Sanitized DEF Place
<1>3. entries[at] = e /\ entries \in Seq(Place) /\ Len(entries) = 1
  BY <1>1, <1>2
<1>4. Ws!Kept = Ws!Default
  BY <1>1, <1>2, <1>3, Sanitized DEF Ws!Kept
<1>5. timer \in BOOLEAN /\ (Ws!Shared => ~ timer) /\ (~ Ws!Shared => timer)
  BY <1>1 DEF Ws!Syncs
<1>6. wsHabits \in SUBSET Ws!Habits /\ own \in Selections /\ 1 \in 1 .. MaxEntries
      /\ (Ws!Shared => "edited" \notin wsHabits)
  BY <1>1 DEF Ws!Sized, Ws!Shared
<1>7. WsTypes
  <2>1. ws \in Ws!Workspaces /\ synced \in Ws!Workspaces /\ stored \in Ws!Workspaces
    BY <1>1, <1>4, Sanitized
  <2>2. Len(entries) \in 1 .. MaxEntries /\ at \in 1 .. Len(entries)
    BY <1>1, <1>3, <1>6
  <2>3. touched \in BOOLEAN /\ due = "no" /\ mode = "replace"
    BY <1>1
  <2> QED BY <1>3, <1>5, <1>6, <2>1, <2>2, <2>3 DEF WsTypes
<1>8. Stands
  BY <1>1, <1>2, <1>3, <1>4, <1>5, <1>6, Sanitized DEF Stands
<1>9. InStep
  BY <1>1, <1>4 DEF InStep
<1> QED BY <1>3, <1>7, <1>8, <1>9 DEF WsInv, Neighbours
-----------------------------------------------------------------------------
(* What the user and the effects do to App's state, the history unchanged. *)
LEMMA AppKeeps ==
  ASSUME Ws!Sized, WsInv, UNCHANGED <<wsHabits, entries, at, stored, synced>>,
         ws' \in Ws!Workspaces, own' \in Selections, timer' \in BOOLEAN, touched' \in BOOLEAN,
         due' \in {"no", "back", "both"}, mode' \in {"push", "replace"},
         timer' = Ws!Syncs \/ (timer' = timer /\ ws' = ws),
         due' = "no" /\ Ws!Open(ws)' => own' = ws'.selection,
         InStep'
  PROVE  WsInv'
<1>1. WsTypes'
  BY DEF WsInv, WsTypes
<1>2. Stands'
  <2>1. Ws!Shared' = Ws!Shared /\ Ws!Embedded' = Ws!Embedded /\ Ws!Syncs = ~ Ws!Shared
    BY DEF Ws!Shared, Ws!Embedded, Ws!Syncs
  <2>2. Ws!Kept' = Ws!Kept /\ Ws!Sanitize(entries[at])' = Ws!Sanitize(entries[at])
    BY DEF Ws!Kept, Ws!Embedded, Ws!Sanitize, Ws!Views
  <2>3. Ws!Default' = Ws!Default
    BY DEF Ws!Default
  <2> QED BY <2>1, <2>2, <2>3 DEF WsInv, Stands
<1>3. Neighbours'
  BY DEF WsInv, Neighbours, Differ
<1> QED BY <1>1, <1>2, <1>3 DEF WsInv

LEMMA RendersIs ==
  ASSUME Ws!Sized, WsInv, NEW w \in Ws!Workspaces, Ws!Renders(w), due = "no"
  PROVE  /\ ws' = w /\ timer' = Ws!Syncs /\ own' \in Selections /\ due' \in {"no", "both"}
         /\ due' = "no" /\ Ws!Open(w) => own' = w.selection
         /\ due' # "no" => Ws!Open(w) /\ Ws!Open(ws) /\ w.selection # ws.selection
<1>1. w.selection \in Selections
  BY DEF Ws!Workspaces
<1> QED BY <1>1 DEF Ws!Renders, WsInv, WsTypes, Stands

LEMMA ChangeKeeps ==
  ASSUME Ws!Sized, WsInv, NEW w \in Ws!Workspaces, Ws!Change(w)
  PROVE  WsInv'
<1>1. /\ due = "no" /\ Ws!Renders(w) /\ touched' = TRUE /\ Ws!MayAct
      /\ UNCHANGED <<wsHabits, entries, at, stored, synced, mode>>
  BY DEF Ws!Change, Ws!browser
<1>2. /\ ws' = w /\ timer' = Ws!Syncs /\ own' \in Selections /\ due' \in {"no", "both"}
      /\ due' = "no" /\ Ws!Open(w) => own' = w.selection
  BY <1>1, RendersIs
<1>3. InStep'
  BY <1>1 DEF InStep, Ws!MayAct, Ws!Embedded, Ws!Shared
<1>4. timer' \in BOOLEAN
  BY <1>2 DEF Ws!Syncs
<1>5. due' = "no" /\ Ws!Open(ws)' => own' = ws'.selection
  BY <1>2 DEF Ws!Open
<1>6. mode' \in {"push", "replace"}
  BY <1>1 DEF WsInv, WsTypes
<1> QED BY <1>1, <1>2, <1>3, <1>4, <1>5, <1>6, AppKeeps

LEMMA SelectKeeps ==
  ASSUME Ws!Sized, WsInv, NEW s \in Selections, Ws!Select(s)
  PROVE  WsInv'
<1>1. /\ own' = s /\ due' = "back" /\ touched' = TRUE /\ Ws!MayAct
      /\ UNCHANGED <<wsHabits, ws, timer, entries, at, stored, synced, mode>>
  BY DEF Ws!Select, Ws!browser
<1>2. InStep'
  BY <1>1 DEF InStep, Ws!MayAct, Ws!Embedded, Ws!Shared
<1>3. ws' \in Ws!Workspaces /\ timer' \in BOOLEAN /\ mode' \in {"push", "replace"}
  BY <1>1 DEF WsInv, WsTypes
<1> QED BY <1>1, <1>2, <1>3, AppKeeps

LEMMA EffectsKeep ==
  ASSUME Ws!Sized, WsInv, Ws!Effects
  PROVE  WsInv'
<1>1. /\ due # "no" /\ own' = IF due = "both" THEN ws.selection ELSE own
      /\ ws' = [ws EXCEPT !.selection = own]
      /\ IF own # ws.selection THEN due' = "both" /\ timer' = Ws!Syncs ELSE due' = "no" /\ timer' = timer
      /\ UNCHANGED <<wsHabits, entries, at, stored, synced, mode, touched>>
  BY DEF Ws!Effects, Ws!Back, Ws!browser
<1>2. ws \in Ws!Workspaces /\ own \in Selections /\ ws.selection \in Selections
  BY DEF WsInv, WsTypes, Ws!Workspaces
<1>3. ws' \in Ws!Workspaces /\ own' \in Selections /\ (own = ws.selection => ws' = ws)
  BY <1>1, <1>2 DEF Ws!Workspaces
<1>4. timer' \in BOOLEAN /\ touched' \in BOOLEAN /\ mode' \in {"push", "replace"}
  BY <1>1 DEF WsInv, WsTypes, Ws!Syncs
<1>5. due' \in {"no", "both"} /\ (due' = "no" => own = ws.selection)
  BY <1>1
<1>6. due' = "no" /\ Ws!Open(ws)' => own' = ws'.selection
  BY <1>1, <1>3, <1>5
<1>7. InStep'
  BY <1>1 DEF WsInv, InStep, Ws!Embedded, Ws!Shared
<1> QED BY <1>1, <1>3, <1>4, <1>5, <1>6, <1>7, AppKeeps
-----------------------------------------------------------------------------
LEMMA ReloadKeeps ==
  ASSUME Ws!Sized, WsInv, Ws!Reload
  PROVE  WsInv'
<1>1. /\ ws' = (IF Ws!Shared THEN Ws!SharedView ELSE Ws!Kept)
      /\ synced' = (IF Ws!Shared THEN synced ELSE Ws!Kept)
      /\ own' = ws'.selection /\ due' = "no" /\ timer' = Ws!Syncs /\ mode' = "replace" /\ touched' = FALSE
      /\ UNCHANGED <<wsHabits, entries, at, stored>>
  BY DEF Ws!Reload, Ws!browser
<1>2. Ws!Kept \in Ws!Workspaces /\ WsTypes /\ Stands /\ Neighbours
  BY KeptIs DEF WsInv
<1>3. ws' \in Ws!Workspaces /\ synced' \in Ws!Workspaces
  BY <1>1, <1>2, Sanitized DEF WsTypes
<1>4. WsTypes'
  <2>1. own' \in Selections
    BY <1>1, <1>3 DEF Ws!Workspaces
  <2> QED BY <1>1, <1>2, <1>3, <2>1 DEF WsTypes, Ws!Syncs
<1>5. Ws!Shared' = Ws!Shared /\ Ws!Embedded' = Ws!Embedded
  BY <1>1 DEF Ws!Shared, Ws!Embedded
<1>6. Ws!Kept' = Ws!Kept /\ Ws!Sanitize(entries[at])' = Ws!Sanitize(entries[at])
  BY <1>1 DEF Ws!Kept, Ws!Embedded, Ws!Sanitize
<1>7. ~ Ws!Embedded => synced' = Ws!Sanitize(entries[at])
  BY <1>1, <1>2 DEF Stands, Ws!Kept
<1>8. Stands'
  BY <1>1, <1>2, <1>5, <1>6, <1>7 DEF Stands, Ws!Syncs
<1>9. InStep' /\ Neighbours'
  BY <1>1, <1>2, <1>5 DEF InStep, Neighbours
<1> QED BY <1>4, <1>8, <1>9 DEF WsInv

LEMMA NavigateKeeps ==
  ASSUME Ws!Sized, WsInv, NEW n \in {at - 1, at + 1}, Ws!Navigate(n)
  PROVE  WsInv'
<1> DEFINE w == Ws!Sanitize(entries[n])
<1>1. /\ ~ Ws!Shared /\ ~ Ws!Embedded /\ n \in DOMAIN entries /\ due = "no"
      /\ at' = n /\ synced' = w /\ touched' = FALSE /\ Ws!Renders(w)
      /\ UNCHANGED <<wsHabits, mode, entries, stored>>
      /\ "panel" \in wsHabits \/ ~(Ws!Open(ws) /\ Ws!Open(entries[n]) /\ ws.selection # entries[n].selection)
  BY DEF Ws!Navigate, Ws!Restored
<1>2. WsTypes /\ Stands /\ Neighbours
  BY DEF WsInv
<1>3. n \in 1 .. Len(entries) /\ entries[n] \in Place
  BY <1>1, <1>2 DEF WsTypes
<1>4. w \in Ws!Workspaces /\ Ws!Sanitize(w) = w
  BY <1>3, Sanitized
<1>5. Ws!Open(w) => w = entries[n]
  BY <1>3, Sanitized DEF Place
<1> HIDE DEF w
<1>6. /\ ws' = w /\ timer' = Ws!Syncs /\ own' \in Selections /\ due' \in {"no", "both"}
      /\ due' = "no" /\ Ws!Open(w) => own' = w.selection
      /\ due' # "no" => Ws!Open(w) /\ Ws!Open(ws) /\ w.selection # ws.selection
  BY <1>1, <1>4, RendersIs
<1>7. WsTypes'
  BY <1>1, <1>2, <1>3, <1>4, <1>6 DEF WsTypes, Ws!Syncs
<1>8. Ws!Shared' = Ws!Shared /\ Ws!Embedded' = Ws!Embedded
  BY <1>1 DEF Ws!Shared, Ws!Embedded
<1>9. Ws!Sanitize(entries[at])' = w
  BY <1>1 DEF Ws!Sanitize, w
<1>10. Stands'
  BY <1>1, <1>6, <1>8, <1>9 DEF Stands, Ws!Syncs, Ws!Open
<1>11. InStep'
  BY <1>1, <1>5, <1>6 DEF InStep
<1>12. Neighbours'
  BY <1>1, <1>2 DEF Neighbours, Differ
<1> QED BY <1>7, <1>10, <1>11, <1>12 DEF WsInv
-----------------------------------------------------------------------------
(* The debounce timer: what it writes, the frame's storage, nothing, the entry
   again, or one more behind it. *)
LEMMA WriteIs ==
  ASSUME Ws!Write
  PROVE  /\ timer /\ timer' = FALSE /\ touched' = (touched /\ due # "no")
         /\ UNCHANGED <<wsHabits, ws, own, due>>
         /\ Ws!Embedded => stored' = ws /\ UNCHANGED <<synced, mode, entries, at>>
         /\ ~ Ws!Embedded =>
              /\ mode' = "push" /\ UNCHANGED stored
              /\ \/ ws = synced /\ UNCHANGED <<synced, entries, at>>
                 \/ /\ ws # synced /\ synced' = ws /\ at' = at /\ entries' = [entries EXCEPT ![at] = ws]
                    /\ mode = "replace" \/ Ws!LayoutOnly(ws, synced)
                 \/ /\ ws # synced /\ synced' = ws /\ at' = at + 1
                    /\ entries' = Append(SubSeq(entries, 1, at), ws)
                    /\ Len(SubSeq(entries, 1, at)) < MaxEntries
                    /\ mode # "replace" /\ ~ Ws!LayoutOnly(ws, synced)
BY DEF Ws!Write, Ws!Replaces, Ws!Pushes

(* What a write makes of the history. *)
LEMMA HistoryKeeps ==
  ASSUME Ws!Sized, WsInv, ~ Ws!Embedded, Ws!Write, ~ Ws!Shared
  PROVE  /\ entries' \in Seq(Place) /\ Len(entries') \in 1 .. MaxEntries /\ at' \in 1 .. Len(entries')
         /\ synced' = ws /\ Ws!Sanitize(entries'[at']) = ws
         /\ wsHabits \cap {"hasty", "panel"} = {} =>
              \A n \in 1 .. Len(entries') - 1 : Differ(entries'[n], entries'[n + 1])
<1>1. WsTypes /\ Stands /\ InStep /\ Neighbours
  BY DEF WsInv
<1>2. ws \in Ws!Workspaces /\ ws \in Place /\ Ws!Sanitize(ws) = ws /\ synced \in Ws!Workspaces
  BY <1>1, Sanitized DEF WsTypes, Place
<1>3. entries \in Seq(Place) /\ at \in 1 .. Len(entries) /\ Len(entries) \in 1 .. MaxEntries /\ MaxEntries \in Nat
  BY <1>1 DEF WsTypes, Ws!Sized
<1>4. synced = Ws!Sanitize(entries[at])
  BY <1>1 DEF Stands
<1>5. CASE ws = synced /\ UNCHANGED <<synced, entries, at>>
  BY <1>1, <1>3, <1>4, <1>5 DEF Neighbours
<1>6. CASE /\ ws # synced /\ synced' = ws /\ at' = at /\ entries' = [entries EXCEPT ![at] = ws]
           /\ mode = "replace" \/ Ws!LayoutOnly(ws, synced)
  <2>1. /\ entries' \in Seq(Place) /\ Len(entries') = Len(entries) /\ entries'[at] = ws
        /\ \A n \in 1 .. Len(entries) : n # at => entries'[n] = entries[n]
    BY <1>2, <1>3, <1>6
  <2>2. ASSUME wsHabits \cap {"hasty", "panel"} = {}, NEW n \in 1 .. Len(entries') - 1
        PROVE  Differ(entries'[n], entries'[n + 1])
    <3>1. Ws!SameApartFromLayout(ws, synced)
      BY <1>1, <1>6, <2>2 DEF InStep, Ws!LayoutOnly
    <3>2. n \in 1 .. Len(entries) - 1 /\ n \in 1 .. Len(entries) /\ n + 1 \in 1 .. Len(entries)
      BY <1>3, <2>1
    <3>3. Differ(entries[n], entries[n + 1])
      BY <1>1, <2>2, <3>2 DEF Neighbours
    <3>4. \A k \in 1 .. Len(entries) : entries[k] \in Place /\ Ws!Sanitize(entries[k]) \in Ws!Workspaces
      BY <1>3, Sanitized
    <3>5. CASE n = at
      <4>1. entries'[n] = ws /\ entries'[n + 1] = entries[n + 1]
        BY <1>3, <2>1, <3>2, <3>5
      <4> QED BY <1>2, <1>4, <3>1, <3>2, <3>3, <3>4, <3>5, <4>1, SameIs DEF Differ
    <3>6. CASE n + 1 = at
      <4>1. entries'[n + 1] = ws /\ entries'[n] = entries[n]
        BY <1>3, <2>1, <3>2, <3>6
      <4> QED BY <1>2, <1>4, <3>1, <3>2, <3>3, <3>4, <3>6, <4>1, SameIs DEF Differ
    <3>7. CASE n # at /\ n + 1 # at
      BY <2>1, <3>2, <3>3, <3>7
    <3> QED BY <3>5, <3>6, <3>7
  <2> QED BY <1>2, <1>3, <1>6, <2>1, <2>2
<1>7. CASE /\ ws # synced /\ synced' = ws /\ at' = at + 1
           /\ entries' = Append(SubSeq(entries, 1, at), ws)
           /\ Len(SubSeq(entries, 1, at)) < MaxEntries
           /\ mode # "replace" /\ ~ Ws!LayoutOnly(ws, synced)
  <2> DEFINE cut == SubSeq(entries, 1, at)
  <2>1. cut \in Seq(Place) /\ Len(cut) = at /\ \A n \in 1 .. at : cut[n] = entries[n]
    BY <1>3
  <2> HIDE DEF cut
  <2>2. entries' = Append(cut, ws) /\ at < MaxEntries
    BY <1>7, <2>1 DEF cut
  <2>3. /\ entries' \in Seq(Place) /\ Len(entries') = at + 1 /\ entries'[at + 1] = ws
        /\ \A n \in 1 .. at : entries'[n] = entries[n]
    BY <1>2, <1>3, <2>1, <2>2
  <2>4. ASSUME wsHabits \cap {"hasty", "panel"} = {}, NEW n \in 1 .. Len(entries') - 1
        PROVE  Differ(entries'[n], entries'[n + 1])
    <3>1. n \in 1 .. at
      BY <1>3, <2>3
    <3>2. CASE n = at
      <4>1. entries'[n] = entries[at] /\ entries'[n + 1] = ws
        BY <1>3, <2>3, <3>2
      <4>2. ~ Ws!SameApartFromLayout(ws, synced)
        BY <1>7 DEF Ws!LayoutOnly
      <4> QED BY <1>2, <1>4, <4>1, <4>2, SameIs DEF Differ
    <3>3. CASE n # at
      <4>1. n \in 1 .. Len(entries) - 1 /\ n \in 1 .. at /\ n + 1 \in 1 .. at
        BY <1>3, <3>1, <3>3
      <4>2. entries'[n] = entries[n] /\ entries'[n + 1] = entries[n + 1]
        BY <2>3, <4>1
      <4> QED BY <1>1, <2>4, <4>1, <4>2 DEF Neighbours
    <3> QED BY <3>2, <3>3
  <2> QED BY <1>2, <1>3, <1>7, <2>2, <2>3, <2>4
<1> QED BY <1>5, <1>6, <1>7, WriteIs

LEMMA WriteKeeps ==
  ASSUME Ws!Sized, WsInv, Ws!Write
  PROVE  WsInv'
<1>1. WsTypes /\ Stands /\ InStep /\ Neighbours
  BY DEF WsInv
<1>2. /\ timer /\ timer' = FALSE /\ touched' = (touched /\ due # "no")
      /\ UNCHANGED <<wsHabits, ws, own, due>>
  BY WriteIs
<1>3. ~ Ws!Shared /\ ~ Ws!Shared' /\ Ws!Embedded' = Ws!Embedded
  BY <1>1, <1>2 DEF Stands, Ws!Shared, Ws!Embedded
<1>4. touched' \in BOOLEAN
  BY <1>1, <1>2 DEF WsTypes
<1>5. Ws!Open(ws)' = Ws!Open(ws)
  BY <1>2 DEF Ws!Open
<1>6. CASE Ws!Embedded
  <2>1. stored' = ws /\ UNCHANGED <<synced, mode, entries, at>>
    BY <1>6, WriteIs
  <2>2. WsTypes'
    BY <1>1, <1>2, <1>4, <2>1 DEF WsTypes
  <2>3. Ws!Kept' = ws'
    <3>1. Ws!Sanitize(ws) = ws
      BY <1>1, Sanitized DEF WsTypes
    <3> QED BY <1>2, <1>3, <1>6, <2>1, <3>1 DEF Ws!Kept, Ws!Sanitize
  <2>4. Stands' /\ InStep'
    BY <1>1, <1>2, <1>3, <1>5, <1>6, <2>3 DEF Stands, InStep
  <2>5. Neighbours'
    BY <1>1, <1>2, <2>1 DEF Neighbours
  <2> QED BY <2>2, <2>4, <2>5 DEF WsInv
<1>7. CASE ~ Ws!Embedded
  <2>1. mode' = "push" /\ stored' = stored
    BY <1>7, WriteIs
  <2>2. /\ entries' \in Seq(Place) /\ Len(entries') \in 1 .. MaxEntries /\ at' \in 1 .. Len(entries')
        /\ synced' = ws /\ Ws!Sanitize(entries'[at']) = ws
        /\ wsHabits \cap {"hasty", "panel"} = {} =>
             \A n \in 1 .. Len(entries') - 1 : Differ(entries'[n], entries'[n + 1])
    BY <1>3, <1>7, HistoryKeeps
  <2>3. WsTypes'
    BY <1>1, <1>2, <1>4, <2>1, <2>2 DEF WsTypes
  <2>4. Ws!Sanitize(entries[at])' = Ws!Sanitize(entries'[at'])
    BY DEF Ws!Sanitize
  <2>5. Ws!Kept' = ws'
    BY <1>2, <1>3, <1>7, <2>2, <2>4 DEF Ws!Kept
  <2>6. Stands'
    BY <1>1, <1>2, <1>3, <1>5, <1>7, <2>2, <2>4, <2>5 DEF Stands
  <2>7. InStep'
    BY <1>1, <1>2, <1>3, <1>4, <1>7, <2>1, <2>2 DEF WsTypes, InStep
  <2>8. Neighbours'
    BY <1>2, <2>2 DEF Neighbours, Differ
  <2> QED BY <2>3, <2>6, <2>7, <2>8 DEF WsInv
<1> QED BY <1>6, <1>7
-----------------------------------------------------------------------------
LEMMA WsStepKeeps ==
  ASSUME Ws!Sized
  PROVE  WsInv /\ [Ws!Next]_(Ws!vars) => WsInv'
<1> SUFFICES ASSUME WsInv, [Ws!Next]_(Ws!vars) PROVE WsInv'
  OBVIOUS
<1>1. CASE UNCHANGED Ws!vars
  BY <1>1 DEF Ws!vars, Ws!app, Ws!browser, WsInv, WsTypes, Stands, InStep, Neighbours, Differ, Ws!Shared,
              Ws!Embedded, Ws!Kept, Ws!Open, Ws!Sanitize
<1> QED BY <1>1, EffectsKeep, WriteKeeps, ReloadKeeps, ChangeKeeps, SelectKeeps, NavigateKeeps DEF Ws!Next

(* The inductive invariant of the workspace and the history. *)
THEOREM WsInvariance ==
  ASSUME Ws!Sized
  PROVE  Ws!Spec => []WsInv
<1>1. Ws!Init => WsInv
  BY WsInitHolds
<1>2. WsInv /\ [Ws!Next]_(Ws!vars) => WsInv'
  BY WsStepKeeps
<1> QED BY <1>1, <1>2, PTL DEF Ws!Spec

(* Whatever is changed, reloaded and gone back and forward to, with a history
   of any length: a reload brings back what is on screen, a shared link leaves
   the address bar alone, and each step back or forward changes something
   (App.tsx, urlWorkspace.ts). *)
THEOREM WorkspaceIsKept ==
  ASSUME Ws!Sized
  PROVE  Ws!Spec => [](Ws!WorkspaceKept)
<1>1. WsInv => Ws!WorkspaceKept
  <2> SUFFICES ASSUME WsInv PROVE Ws!WorkspaceKept
    OBVIOUS
  <2>1. WsTypes /\ Stands /\ Neighbours
    BY DEF WsInv
  <2>2. \A n \in 1 .. Len(entries) : entries[n] \in Place
    BY <2>1 DEF WsTypes
  <2>3. Ws!TypeOK
    BY <2>1, <2>2 DEF WsTypes, Ws!TypeOK, Place
  <2>4. Ws!ReloadRestores /\ Ws!SharedLinkStays
    BY <2>1 DEF Stands, Ws!ReloadRestores, Ws!SharedLinkStays, Ws!Settled, Ws!Open
  <2>5. Ws!StepsDiffer
    <3> SUFFICES ASSUME wsHabits \cap {"hasty", "panel"} = {}, NEW n \in 1 .. Len(entries) - 1
                 PROVE  ~ Ws!SameApartFromLayout(entries[n], entries[n + 1])
      BY DEF Ws!StepsDiffer
    <3>1. n \in 1 .. Len(entries) /\ n + 1 \in 1 .. Len(entries)
      BY <2>1 DEF WsTypes
    <3>2. Differ(entries[n], entries[n + 1])
      BY <2>1 DEF Neighbours
    <3> QED BY <2>2, <3>1, <3>2, DifferIs
  <2> QED BY <2>3, <2>4, <2>5 DEF Ws!WorkspaceKept
<1> QED BY <1>1, WsInvariance, PTL

(* Only a change of the user's cuts off the way forward (App.tsx:506-525). *)
THEOREM ForwardIsKept ==
  ASSUME Ws!Sized
  PROVE  Ws!Spec => Ws!ForwardKept
<1>1. WsInv /\ [Ws!Next]_(Ws!vars) => [Ws!Cuts /\ "panel" \notin wsHabits => touched]_(Ws!vars)
  <2> SUFFICES ASSUME WsInv, Ws!Next, Ws!Cuts, "panel" \notin wsHabits, ~ touched PROVE FALSE
    OBVIOUS
  <2>1. WsTypes /\ Stands /\ InStep /\ Len(entries) \in Nat /\ at \in 1 .. Len(entries)
    BY DEF WsInv, WsTypes
  <2>2. entries' # entries
    BY DEF Ws!Cuts
  <2>3. Ws!Write
    BY <2>2 DEF Ws!Next, Ws!Effects, Ws!Reload, Ws!Change, Ws!Select, Ws!Navigate, Ws!browser
  <2>4. ~ Ws!Embedded /\ ~ Ws!Shared
    BY <2>1, <2>2, <2>3, WriteIs DEF Stands
  <2>5. ws = synced
    BY <2>1, <2>4 DEF InStep
  <2> QED BY <2>2, <2>3, <2>4, <2>5, WriteIs
<1> QED BY <1>1, WsInvariance, PTL DEF Ws!Spec, Ws!ForwardKept
=============================================================================
