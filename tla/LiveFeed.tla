------------------------------ MODULE LiveFeed ------------------------------
(***************************************************************************)
(* The way of a telegram from the bus to the screen: telegram_received_cb  *)
(* makes a task of each telegram, the task stores it and broadcasts it to  *)
(* a snapshot of the registered WebSocket connections (ws_manager.py), and *)
(* useWebSocket in the browser keeps one connection open.  Changes of the  *)
(* bus connection take the same way, past the filters; the page then asks  *)
(* the server for its status again.                                        *)
(*                                                                         *)
(* A broadcast suspends at every connection it sends to.                   *)
(***************************************************************************)
EXTENDS Naturals, Sequences, SequencesExt

CONSTANTS
  Envs          \* the environments to consider: bounds on telegrams, changes of the
                \* bus connection and broken links, and a set of habits

Habits ==
  {"devMount",    \* React's StrictMode mounts the page, unmounts and remounts it
   "httpFaults"}  \* answers to HTTP requests overtake each other or are lost

(* What the proofs assume of the environments. *)
Sized == Envs \subseteq [telegrams : Nat, flips : Nat, drops : Nat, habits : SUBSET Habits]

VARIABLES
  env,        \* the environment of this behaviour; fixed
  job,        \* the broadcasts: pc, the rest of the snapshot, who is still due
  stored,     \* telegrams the store has accepted
  registry,   \* active_connections: its keys, in order
  filtered,   \* the connections whose filters are set
  sock,       \* sockets: client side, endpoint, link, messages on the way
  hook,       \* useWebSocket: reconnectTimeoutRef and isConnected
  got,        \* how often the page handled each telegram
  bus,        \* the bus connection: up, and the number of changes so far
  badge,      \* serverConfig.status.connected; "none" while there is no config
  asked,      \* requests for the config on their way, with the answer given
  drops       \* links broken and connects failed so far

server == <<job, stored, registry, filtered>>
page == <<hook, got>>
status == <<badge, asked>>
vars == <<env, job, stored, registry, filtered, sock, hook, got, bus, badge, asked, drops>>

Telegram == 1 .. env.telegrams
Job == ({"telegram"} \X Telegram) \cup ({"state"} \X (1 .. env.flips))
Other == 0                      \* a second client, which may set filters
Page == 1 .. 3                  \* numbers for the sockets of the page
Sock == {Other} \cup Page
NoSock == [client |-> "none", endpoint |-> "none", linked |-> FALSE, pipe |-> <<>>]

State(up) == IF up THEN "up" ELSE "down"
(* The state a change of the bus connection led to. *)
StateAfter(f) == State((bus.changes - f) % 2 = 0 <=> bus.up)
Message(j) == IF j[1] = "state" THEN <<"state", StateAfter(j[2])>> ELSE j
(* A filter lets some telegrams pass, and every change of state. *)
Passes(j) == j[1] = "state" \/ j[2] % 2 = 1

Init ==
  /\ env \in Envs
  /\ job = [j \in Job |-> [pc |-> "none", todo |-> <<>>, due |-> {}]]
  /\ stored = {} /\ registry = <<Other>> /\ filtered = {}
  /\ sock = [s \in Sock |->
       CASE s = Other -> [NoSock EXCEPT !.client = "open", !.endpoint = "receiving", !.linked = TRUE]
         [] s = 1 -> [NoSock EXCEPT !.client = "connecting"]
         [] s = 2 /\ "devMount" \in env.habits -> [NoSock EXCEPT !.client = "closing"]
         [] OTHER -> NoSock]
  /\ hook = [timer |-> FALSE, connected |-> FALSE, ws |-> 1]
  /\ got = [t \in Telegram |-> 0]
  /\ bus \in [up : BOOLEAN, changes : {0}]
  /\ badge = "none" /\ drops = 0
  /\ asked = IF env.flips > 0 THEN <<"asked">> ELSE <<>>
-----------------------------------------------------------------------------
(* telegram_received_cb, and process_telegram_async up to its first await. *)
Receive(t) ==
  /\ job[<<"telegram", t>>].pc = "none"
  /\ t > 1 => job[<<"telegram", t - 1>>].pc # "none"
  /\ job' = [job EXCEPT ![<<"telegram", t>>].pc = "storing"]
  /\ UNCHANGED <<env, stored, registry, filtered, sock, page, bus, status, drops>>

Wanted(j, c) == ~c.only \/ Passes(j)
(* list(active_connections.items()): the connections and their filters now. *)
Broadcast(j) ==
  LET snapshot == [i \in DOMAIN registry |-> [to |-> registry[i], only |-> registry[i] \in filtered]]
  IN [job EXCEPT ![j] = [pc |-> "sending", todo |-> snapshot,
                         due |-> {c.to : c \in {d \in ToSet(snapshot) : Wanted(j, d)}}]]

BroadcastAnyway(t) ==                            \* deviation
  /\ job' = Broadcast(<<"telegram", t>>) /\ UNCHANGED stored
NotStored(t) ==
  /\ job' = [job EXCEPT ![<<"telegram", t>>].pc = "failed"] /\ UNCHANGED stored

(* The store answers, in any order; what it does not take is not broadcast. *)
StoreAnswers(t) ==
  /\ job[<<"telegram", t>>].pc = "storing"
  /\ \/ stored' = stored \cup {t} /\ job' = Broadcast(<<"telegram", t>>)
     \/ NotStored(t)
  /\ UNCHANGED <<env, registry, filtered, sock, page, bus, status, drops>>

(* The connection to the bus changes; a task broadcasts that. *)
BusChanges ==
  /\ bus.changes < env.flips
  /\ bus' = [up |-> ~bus.up, changes |-> bus.changes + 1]
  /\ job' = Broadcast(<<"state", bus'.changes>>)
  /\ UNCHANGED <<env, stored, registry, filtered, sock, page, status, drops>>

Without(q, s) ==
  IF s \in ToSet(q) THEN RemoveAt(q, CHOOSE i \in DOMAIN q : q[i] = s) ELSE q
DisconnectKeepsFilters(s) ==                     \* deviation
  registry' = Without(registry, s) /\ UNCHANGED filtered
Disconnect(s) ==
  /\ registry' = Without(registry, s)
  /\ filtered' = filtered \ {s}

Takes(s) == sock[s].endpoint = "receiving" /\ sock[s].linked

GivesUp(todo) == <<>>                            \* deviation
(* A send that raises removes the connection; the loop goes on. *)
AfterRaise(todo) == Tail(todo)

(* One round of the loop over the snapshot.  What is sent over a broken link
   is lost, or the send raises. *)
SendNext(j) ==
  LET c == Head(job[j].todo) IN
  /\ job[j].pc = "sending" /\ job[j].todo # <<>>
  /\ \/ /\ Wanted(j, c) => sock[c.to].endpoint = "receiving"
        /\ job' = [job EXCEPT ![j].todo = Tail(@), ![j].due = @ \ {c.to}]
        /\ sock' = IF Wanted(j, c) /\ Takes(c.to) /\ c.to # Other
                   THEN [sock EXCEPT ![c.to].pipe = Append(@, Message(j))]
                   ELSE sock
        /\ UNCHANGED <<registry, filtered>>
     \/ /\ Wanted(j, c) /\ ~Takes(c.to)
        /\ job' = [job EXCEPT ![j].todo = AfterRaise(@), ![j].due = @ \ {c.to}]
        /\ Disconnect(c.to) /\ UNCHANGED sock
  /\ UNCHANGED <<env, stored, page, bus, status, drops>>

(* The other client sends filters; its endpoint sets them. *)
UpdateFilters ==
  /\ env.telegrams > 0 /\ Takes(Other) /\ Other \notin filtered
  /\ registry' = IF Other \in ToSet(registry) THEN registry ELSE Append(registry, Other)
  /\ filtered' = {Other}
  /\ UNCHANGED <<env, job, stored, sock, page, bus, status, drops>>
-----------------------------------------------------------------------------
(* websocket_endpoint up to its first receive: the connection is registered
   and told the state of the bus. *)
Accept(s) ==
  /\ sock[s].client = "connecting" /\ sock[s].endpoint = "none"
  /\ registry' = Append(registry, s)
  /\ sock' = [sock EXCEPT ![s] = [client |-> "connecting", endpoint |-> "receiving", linked |-> TRUE,
                                  pipe |-> <<<<"state", State(bus.up)>>>>]]
  /\ UNCHANGED <<env, job, stored, filtered, page, bus, status, drops>>

(* The client has gone before that send, which raises past the handler that
   would unregister it: a later broadcast does. *)
AcceptGone(s) ==
  /\ drops < env.drops /\ drops' = drops + 1
  /\ sock[s].client = "connecting" /\ sock[s].endpoint = "none"
  /\ registry' = Append(registry, s)
  /\ sock' = [sock EXCEPT ![s].endpoint = "gone"]
  /\ UNCHANGED <<env, job, stored, filtered, page, bus, status>>

(* The link breaks and the last messages on it are lost, or the server cannot
   be reached. *)
Break(s) ==
  /\ drops < env.drops /\ drops' = drops + 1
  /\ \/ /\ sock[s].linked
        /\ \E n \in 0 .. Len(sock[s].pipe) :
             sock' = [sock EXCEPT ![s].linked = FALSE, ![s].pipe = SubSeq(@, 1, n)]
     \/ /\ sock[s].client = "connecting" /\ sock[s].endpoint = "none"
        /\ sock' = [sock EXCEPT ![s].endpoint = "gone"]
  /\ UNCHANGED <<env, server, page, bus, status>>

(* The endpoint's receive raises WebSocketDisconnect. *)
EndpointEnds(s) ==
  /\ sock[s].endpoint = "receiving" /\ ~sock[s].linked
  /\ sock' = [sock EXCEPT ![s].endpoint = "gone"]
  /\ Disconnect(s)
  /\ UNCHANGED <<env, job, stored, page, bus, status, drops>>
-----------------------------------------------------------------------------
OnOpen(s) ==
  /\ sock[s].client = "connecting" /\ sock[s].linked
  /\ sock' = [sock EXCEPT ![s].client = "open"]
  /\ hook' = [hook EXCEPT !.connected = TRUE]
  /\ UNCHANGED <<env, server, got, bus, status, drops>>

RetriesWhenOpen(s) == hook.connected             \* deviation
Retries(s) == TRUE

Broken(s) ==
  \/ sock[s].client = "closing"
  \/ sock[s].client = "connecting" /\ sock[s].endpoint # "none" /\ ~sock[s].linked
  \/ sock[s].client = "open" /\ ~sock[s].linked /\ sock[s].pipe = <<>>

(* onclose of any socket: it restarts the timer. *)
OnClose(s) ==
  /\ s # Other /\ Broken(s)
  /\ sock' = [sock EXCEPT ![s].client = "none", ![s].pipe = <<>>]
  /\ hook' = [hook EXCEPT !.connected = FALSE, !.timer = Retries(s)]
  /\ UNCHANGED <<env, server, got, bus, status, drops>>

(* Numbers that nothing refers to any more. *)
Unused == {s \in Page : /\ sock[s].client = "none" /\ sock[s].endpoint # "receiving"
                        /\ s \notin ToSet(registry)
                        /\ \A j \in Job : \A i \in DOMAIN job[j].todo : job[j].todo[i].to # s}

KeepsTimer == TRUE                               \* deviation
TimerDone == FALSE

(* The timer calls connect, which opens a socket unless ws is open. *)
TimerFires ==
  /\ hook.timer
  /\ IF sock[hook.ws].client = "open"
     THEN hook' = [hook EXCEPT !.timer = FALSE] /\ UNCHANGED sock
     ELSE \E s \in Unused :
            /\ \A u \in Unused : s <= u
            /\ hook' = [hook EXCEPT !.timer = TimerDone, !.ws = s]
            /\ sock' = [sock EXCEPT ![s] = [NoSock EXCEPT !.client = "connecting"]]
  /\ UNCHANGED <<env, server, got, bus, status, drops>>

NoRefresh == asked                               \* deviation
(* (followed only where the bus connection changes) *)
Refresh == IF env.flips > 0 THEN Append(asked, "asked") ELSE asked

(* onmessage: handleTelegram, or handleConnectionState, which shows the state
   and asks for the server's config. *)
OnMessage(s) ==
  /\ sock[s].client = "open" /\ sock[s].pipe # <<>>
  /\ LET m == Head(sock[s].pipe) IN
       IF m[1] = "telegram"
       THEN got' = [got EXCEPT ![m[2]] = @ + 1] /\ UNCHANGED status
       ELSE /\ badge' = IF badge = "none" THEN badge ELSE m[2]
            /\ asked' = Refresh /\ UNCHANGED got
  /\ sock' = [sock EXCEPT ![s].pipe = Tail(@)]
  /\ UNCHANGED <<env, server, hook, bus, drops>>

(* GET /api/server/config is answered, and the answer shown. *)
ServerAnswers(i) ==
  /\ asked[i] = "asked"
  /\ "httpFaults" \in env.habits \/ \A k \in 1 .. i - 1 : asked[k] # "asked"
  /\ asked' = [asked EXCEPT ![i] = State(bus.up)]
  /\ UNCHANGED <<env, server, sock, page, bus, badge, drops>>

AnswerShown(i) ==
  /\ asked[i] # "asked" /\ (i > 1 => "httpFaults" \in env.habits)
  /\ badge' = asked[i] /\ asked' = RemoveAt(asked, i)
  /\ UNCHANGED <<env, server, sock, page, bus, drops>>

AnswerLost(i) ==
  /\ "httpFaults" \in env.habits /\ drops < env.drops /\ drops' = drops + 1
  /\ asked' = RemoveAt(asked, i)
  /\ UNCHANGED <<env, server, sock, page, bus, badge>>

ServerStep ==
  \/ \E t \in Telegram : StoreAnswers(t)
  \/ \E j \in Job : SendNext(j)
  \/ \E s \in Sock : Accept(s) \/ EndpointEnds(s)
PageStep ==
  \/ \E s \in Sock : OnOpen(s) \/ OnClose(s) \/ OnMessage(s)
  \/ TimerFires
  \/ \E i \in DOMAIN asked : ServerAnswers(i) \/ AnswerShown(i)

Next ==
  \/ ServerStep \/ PageStep
  \/ \E t \in Telegram : Receive(t)
  \/ BusChanges \/ UpdateFilters
  \/ \E s \in Sock : AcceptGone(s) \/ Break(s)
  \/ \E i \in DOMAIN asked : AnswerLost(i)

(* The event loop and the browser run what is ready; timers elapse. *)
Fairness ==
  /\ \A s \in Page : WF_vars(Accept(s)) /\ WF_vars(OnOpen(s)) /\ WF_vars(OnClose(s))
  /\ WF_vars(TimerFires) /\ \A s \in Sock : WF_vars(EndpointEnds(s))
  /\ WF_vars(\E j \in Job : SendNext(j))

Spec == Init /\ [][Next]_vars /\ Fairness
-----------------------------------------------------------------------------
(* Every variable has its type, and no connection is registered twice. *)
TypeOK ==
  /\ job \in [Job -> [pc : {"none", "storing", "failed", "sending"},
                      todo : Seq([to : Sock, only : BOOLEAN]), due : SUBSET Sock]]
  /\ stored \subseteq Telegram /\ registry \in Seq(Sock) /\ IsInjective(registry)
  /\ filtered \subseteq ToSet(registry)
  /\ \A s \in Sock : sock[s].client \in {"none", "connecting", "open", "closing"}
                     /\ sock[s].endpoint \in {"none", "receiving", "gone"}
  /\ hook.ws \in Page /\ hook.timer \in BOOLEAN /\ hook.connected \in BOOLEAN
  /\ badge \in {"none", "up", "down"}

(* What the page has seen is in the store: a reload finds it again. *)
FeedIsStored == \A t \in Telegram : got[t] > 0 => t \in stored

(* The page opens one socket at a time, so that it never gets a telegram
   twice, however links break and connects fail. *)
OneSocket ==
  "devMount" \notin env.habits =>
    /\ \A s, r \in Page : {sock[s].client, sock[r].client} \subseteq {"connecting", "open"} => s = r
    /\ \A t \in Telegram : got[t] <= 1

(* A broadcast reaches everybody it was for whose link holds: a connection
   that raises, is closed or is filtered takes nothing from the others. *)
NobodyLeftOut ==
  \A j \in Job : job[j].pc = "sending" /\ job[j].todo = <<>> =>
    \A s \in job[j].due : ~Takes(s)

(* When everything sent has arrived, the page shows the state of the bus,
   although broadcasts of two changes may overtake each other. *)
BadgeTrue ==
  env.flips > 0 /\ "httpFaults" \notin env.habits /\ asked = <<>> /\ hook.connected
  /\ (\A s \in Page : sock[s].client = "open" => Takes(s) /\ sock[s].pipe = <<>>)
  /\ (\A j \in Job : j[1] = "state" => job[j].todo = <<>>)
    => badge = State(bus.up)

(* Links that break are replaced: in the end the page is connected. *)
Reconnects == "devMount" \notin env.habits => <>[](hook.connected)

(* What reaches a page was stored first, over one socket, with nobody left
   out, and the badge tells the state of the bus (ws_manager.py, useWebSocket.ts). *)
FeedIsTrue == TypeOK /\ FeedIsStored /\ OneSocket /\ NobodyLeftOut /\ BadgeTrue
=============================================================================
