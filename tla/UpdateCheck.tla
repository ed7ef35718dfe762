----------------------------- MODULE UpdateCheck -----------------------------
(***************************************************************************)
(* update_check.py, /api/update, useUpdateCheck and the popup of App.  A    *)
(* version is a number with a pre-release number, 0 for a stable release;   *)
(* the repository publishes releases, newest first, and the server asks it  *)
(* at most once per validity of its cached answer.                          *)
(***************************************************************************)
EXTENDS Integers, Sequences, FiniteSets

CONSTANTS
  Versions,     \* versions that are published: [n, pre]
  Current,      \* versions the server may run
  Clients,      \* pages
  Ttl,          \* _CACHE_TTL
  ErrorTtl,     \* _ERROR_TTL
  MaxReleases,  \* bound on the releases published
  Envs          \* sets of habits

Habits ==
  {"mislabels", \* betas are published without GitHub's flag
   "backports", \* a lower version is published after a higher one
   "fails",     \* requests to GitHub fail
   "tabs"}      \* several pages are open at the same time

Sized ==
  /\ Versions \subseteq [n : Nat \ {0}, pre : Nat] /\ Current \subseteq [n : Nat, pre : Nat]
  /\ Clients # {} /\ "none" \notin Clients /\ Envs \subseteq SUBSET Habits
  /\ Ttl \in Nat /\ ErrorTtl \in Nat /\ ErrorTtl <= Ttl

VARIABLES
  habits,       \* the habits of this behaviour; fixed
  current,      \* the running version; fixed
  releases,     \* published: [v, flag], newest first
  cache,        \* the cached answer, or NoAnswer
  life,         \* how long it is valid, from the request that fetched it
  since,        \* time since that request, up to Ttl
  asks,         \* pages that wait for an answer
  holder,       \* the one whose request holds the lock, or None
  page,         \* of every page: its answer, its popup, and the version it
                \* found remembered when it was opened
  seen,         \* DISMISSED_UPDATE_PREF
  shown,        \* versions a popup came up for by itself
  again         \* one came up for a second time

server == <<cache, life, since, asks, holder>>
browser == <<page, seen, shown, again>>
vars == <<habits, current, releases, server, browser>>

None == "none"
NoVersion == [n |-> 0, pre |-> 0]
NoAnswer == [known |-> FALSE, latest |-> NoVersion, newer |-> {}]
Pre(v) == v.pre # 0
(* Semver: a pre-release sorts below its release. *)
Newer(a, b) == a.n > b.n \/ (a.n = b.n /\ Pre(b) /\ (~Pre(a) \/ a.pre > b.pre))
Opened(s) == [info |-> NoAnswer, popup |-> "quiet", seen |-> s]

Init ==
  /\ habits \in Envs /\ current \in Current /\ releases = <<>>
  /\ cache = NoAnswer /\ life = 0 /\ since = Ttl /\ asks = {} /\ holder = None
  /\ page = [c \in Clients |-> Opened(NoVersion)] /\ seen = NoVersion /\ shown = {} /\ again = FALSE
-----------------------------------------------------------------------------
Publish(v) ==
  /\ Len(releases) < MaxReleases /\ \A i \in DOMAIN releases : releases[i].v # v
  /\ "backports" \in habits \/ \A i \in DOMAIN releases : Newer(v, releases[i].v)
  /\ \E flag \in BOOLEAN :
        /\ flag = Pre(v) \/ ("mislabels" \in habits /\ ~flag)
        /\ releases' = <<[v |-> v, flag |-> flag]>> \o releases
  /\ UNCHANGED <<habits, current, server, browser>>

Tick ==
  /\ since < Ttl /\ since' = since + 1
  /\ UNCHANGED <<habits, current, releases, cache, life, asks, holder, browser>>

StableByFlag(r) == ~r.flag                       \* deviation
StableByName(r) == ~r.flag /\ ~Pre(r.v)

LastOf(s) == releases[CHOOSE i \in s : \A j \in s : j <= i]    \* deviation
FirstOf(s) == releases[CHOOSE i \in s : \A j \in s : i <= j]

(* _build_info: what is published for the channel of the running version.   *)
Offered == {i \in DOMAIN releases : Pre(current) \/ StableByName(releases[i])}
Answer ==
  [known |-> TRUE, latest |-> IF Offered = {} THEN NoVersion ELSE FirstOf(Offered).v,
   newer |-> {releases[i].v : i \in {j \in Offered : Newer(releases[j].v, current)}}]

(* A page is opened, reads what was seen, and asks. *)
Open(c) ==
  /\ c \notin asks /\ ("tabs" \in habits \/ c = CHOOSE d \in Clients : TRUE)
  /\ asks' = asks \cup {c} /\ page' = [page EXCEPT ![c] = Opened(seen)]
  /\ UNCHANGED <<habits, current, releases, cache, life, since, holder, seen, shown, again>>

NotSeen(c, a) == a.latest # page[c].seen         \* deviation
AnyAnswer(c, a) == a.newer # {}                  \* deviation
HasNew(c, a) == a.newer # {} /\ a.latest # page[c].seen

(* The answer arrives; the popup comes up and is remembered as seen. *)
Replied(c, a) ==
  LET new == HasNew(c, a) IN
  /\ asks' = asks \ {c}
  /\ page' = [page EXCEPT ![c].info = a, ![c].popup = IF new THEN "shown" ELSE "quiet"]
  /\ seen' = IF new THEN a.latest ELSE seen
  /\ shown' = IF new THEN shown \cup {a.latest} ELSE shown
  /\ again' = (again \/ (new /\ a.latest \in shown))

NeverFresh == FALSE                              \* deviation
AlwaysFresh == cache.known                       \* deviation
Fresh == cache.known /\ since < life

Cached(c) ==
  /\ c \in asks /\ holder = None /\ Fresh /\ Replied(c, cache)
  /\ UNCHANGED <<habits, current, releases, cache, life, since, holder>>

BeginFetch(c) ==
  /\ c \in asks /\ holder = None /\ ~Fresh /\ holder' = c /\ since' = 0
  /\ UNCHANGED <<habits, current, releases, cache, life, asks, browser>>

EndFetch ==
  /\ holder # None /\ holder' = None
  /\ \/ cache' = Answer /\ life' = Ttl
     \/ "fails" \in habits /\ cache' = [NoAnswer EXCEPT !.known = TRUE] /\ life' = ErrorTtl
  /\ Replied(holder, cache')
  /\ UNCHANGED <<habits, current, releases, since>>

(* The popup is dismissed, or opened again by the chip in the settings. *)
Dismiss(c) ==
  /\ page[c].popup = "shown" /\ page' = [page EXCEPT ![c].popup = "closed"]
  /\ seen' = page[c].info.latest
  /\ UNCHANGED <<habits, current, releases, server, shown, again>>
Chip(c) ==
  /\ page[c].info.newer # {} /\ page[c].popup # "shown" /\ page' = [page EXCEPT ![c].popup = "shown"]
  /\ UNCHANGED <<habits, current, releases, server, seen, shown, again>>

Next ==
  \/ Tick \/ EndFetch \/ \E v \in Versions : Publish(v)
  \/ \E c \in Clients : Open(c) \/ Cached(c) \/ BeginFetch(c) \/ Dismiss(c) \/ Chip(c)

Fairness ==
  /\ WF_vars(Tick) /\ WF_vars(EndFetch)
  /\ \A c \in Clients : WF_vars(Cached(c) \/ BeginFetch(c)) /\ WF_vars(Open(c))
Spec == Init /\ [][Next]_vars /\ Fairness
-----------------------------------------------------------------------------
TypeOK ==
  /\ habits \subseteq Habits /\ current \in Current
  /\ releases \in Seq([v : Versions, flag : BOOLEAN])
  /\ \A i, j \in DOMAIN releases : releases[i].v = releases[j].v => i = j
  /\ cache.newer \subseteq Versions /\ life \in {0, ErrorTtl, Ttl} /\ since \in 0..Ttl
  /\ asks \subseteq Clients /\ holder \in asks \cup {None}
  /\ \A c \in Clients : page[c].popup \in {"quiet", "shown", "closed"}
  /\ seen \in Versions \cup {NoVersion} /\ shown \subseteq Versions /\ again \in BOOLEAN

(* "A user on a stable release is never offered a pre-release", whether     *)
(* GitHub has it flagged as one or not.                                     *)
StableStaysStable ==
  ~Pre(current) => \A c \in Clients : \A v \in page[c].info.newer \cup {page[c].info.latest} : ~Pre(v)

(* The popup names a version that is newer than the running one, and the    *)
(* newest.  It takes GitHub's first release for the newest, which it is     *)
(* not after a backport.                                                    *)
OffersTheNewest ==
  "backports" \notin habits =>
    \A c \in Clients : page[c].info.newer # {} =>
      \A v \in page[c].info.newer : Newer(page[c].info.latest, current) /\ ~Newer(v, page[c].info.latest)

(* "appears only once across reloads".  Dismissing it in a tab that is      *)
(* older than what another tab has shown, or a backport, brings it back.    *)
OnlyOnce == habits \cap {"tabs", "backports"} = {} => ~again

(* However many pages ask at once, and whether GitHub answers or not, it is *)
(* asked once per validity of an answer.                                    *)
AsksRarely == [][since' < since => since >= ErrorTtl]_vars

(* A newer stable release is noticed by every page that is opened, once the *)
(* answer from before it has expired.                                       *)
NoticedBy(c) ==
  \/ c \in asks
  \/ \A i \in DOMAIN releases :
        ~Pre(releases[i].v) /\ Newer(releases[i].v, current) => releases[i].v \in page[c].info.newer
Noticed ==
  "fails" \notin habits =>
    \A c \in Clients : "tabs" \in habits \/ c = (CHOOSE d \in Clients : TRUE) => <>[]NoticedBy(c)

(* What is offered is newer, the newest, not below the channel of the user, and
   pops up once (update_check.py, useUpdateCheck.ts). *)
OffersTruly == TypeOK /\ StableStaysStable /\ OffersTheNewest /\ OnlyOnce
=============================================================================
