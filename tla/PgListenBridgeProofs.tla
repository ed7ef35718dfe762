------------------------ MODULE PgListenBridgeProofs ------------------------
(***************************************************************************)
(* Machine-checked proofs about PgListenBridge, for any number of rows,    *)
(* timestamps and lost connections, and any limit of the replay query.     *)
(*                                                                         *)
(* The bridge compares timestamps and knows nothing of the places of rows. *)
(* That it publishes them in order needs that what it has in hand, a page  *)
(* of a replay or notifications, are rows that follow each other (Runs)    *)
(* and come behind the last one published (Ahead), which the timestamp it  *)
(* has seen stands for (Seen).  That it leaves none out needs, while       *)
(* writer and store have none of the habits, that a page has room for the  *)
(* whole gap (Room), and that whatever reached the database before LISTEN  *)
(* was published by then (Caught).                                         *)
(*                                                                         *)
(* The second part is about LiveFeed, the server's own feed and the        *)
(* socket of the page, which is instantiated here as Ws; the third one     *)
(* about HaLiveBridge, instantiated as Ha.                                 *)
(***************************************************************************)
EXTENDS PgListenBridge, FiniteSetTheorems, SequenceTheorems, WellFoundedInduction, TLAPS

Places == 1 .. Len(rowTs)
Published == IF feed = <<>> THEN 0 ELSE feed[Len(feed)]
Steady == env = {}

Types ==
  /\ env \in SUBSET Habits
  /\ rowTs \in Seq(1 .. MaxTs) /\ Len(rowTs) <= MaxRows
  /\ pc \in {"query", "replay", "subscribe", "listen", "backoff", "stopped"}
  /\ connected = (pc \notin {"backoff", "stopped"})
  /\ seen \in 0 .. MaxTs
  /\ replay \in Seq(Places) /\ notified \in Seq(Places) /\ feed \in Seq(Places)
  /\ drops \in 0 .. MaxDrops
  /\ pc = "replay" <=> replay # <<>>
  /\ pc # "listen" => notified = <<>>

(* The writer's timestamps never fall, and rise unless it has that habit. *)
Ordered ==
  \A r, s \in Places : r < s => rowTs[r] <= rowTs[s] /\ ("sameTs" \notin env => rowTs[r] < rowTs[s])

InRow(q) == \A i \in DOMAIN q : q[i] = q[1] + i - 1
Runs ==
  /\ InRow(replay) /\ InRow(notified)
  /\ notified # <<>> => notified[Len(notified)] = Len(rowTs)
  /\ Steady => InRow(feed)

Rising(q) == \A i, j \in DOMAIN q : i < j => q[i] < q[j]

(* The first of q is the next, or at least a later one. *)
Ahead(q) == q # <<>> => Published < q[1] /\ (Steady /\ feed # <<>> => q[1] = Published + 1)

Seen ==
  /\ pc = "replay" => feed # <<>> /\ seen = rowTs[replay[Len(replay)]]
  /\ pc \notin {"replay", "stopped"} =>
       IF feed = <<>> THEN seen = 0 ELSE seen = rowTs[Published]

Room == Steady /\ pc # "stopped" => Len(rowTs) - Published <= Limit - 1

Caught ==
  Steady /\ feed # <<>> =>
    /\ pc = "replay" => replay[Len(replay)] = Len(rowTs)
    /\ pc = "subscribe" \/ (pc = "listen" /\ notified = <<>>) => Published = Len(rowTs)

IInv ==
  /\ Types /\ Ordered /\ Runs /\ Rising(feed) /\ Ahead(replay) /\ Ahead(notified)
  /\ Seen /\ Room /\ Caught
-----------------------------------------------------------------------------
(* A set of naturals that has a member has a least one. *)
LEMMA LeastNatural ==
  ASSUME NEW S \in SUBSET Nat, S # {}
  PROVE  \E x \in S : \A y \in S : x <= y
<1> DEFINE R == OpToRel(<, Nat)
<1>1. IsWellFoundedOn(R, Nat)
  BY NatLessThanWellFounded
<1>2. PICK x \in S : \A y \in S : <<y, x>> \notin R
  <2> HIDE DEF R
  <2> QED BY <1>1, WFMin
<1>3. \A y \in S : x <= y
  <2> SUFFICES ASSUME NEW y \in S, ~(x <= y) PROVE FALSE
    OBVIOUS
  <2>1. y < x
    OBVIOUS
  <2> QED BY <2>1, <1>2 DEF OpToRel
<1> QED BY <1>3

(* In rows that come in order, those before a timestamp are the first ones. *)
LEMMA OlderCounts ==
  ASSUME Types, Ordered, NEW t \in Nat
  PROVE  Older(t) \in 0 .. Len(rowTs) /\ \A r \in Places : rowTs[r] < t <=> r <= Older(t)
<1> DEFINE S == {n \in 0 .. Len(rowTs) : \A r \in Places : r > n => rowTs[r] >= t}
<1>1. Len(rowTs) \in Nat /\ \A r \in Places : rowTs[r] \in Nat
  <2>1. rowTs \in Seq(1 .. MaxTs)
    BY DEF Types
  <2>2. Len(rowTs) \in Nat /\ \A r \in 1 .. Len(rowTs) : rowTs[r] \in 1 .. MaxTs
    BY <2>1, ElementOfSeq, LenProperties
  <2>3. \A s \in 1 .. MaxTs : s \in Nat
    OBVIOUS
  <2> QED BY <2>2, <2>3 DEF Places
<1>2. Len(rowTs) \in S /\ S \in SUBSET Nat
  BY <1>1 DEF Places
<1>3. PICK n \in S : \A m \in S : n <= m
  <2> HIDE DEF S
  <2> QED BY <1>2, LeastNatural
<1>4. ASSUME NEW r \in Places, r <= n PROVE rowTs[r] < t
  <2> SUFFICES ASSUME rowTs[r] >= t PROVE FALSE
    BY <1>1
  <2>1. \A s \in Places : s > r - 1 => rowTs[s] >= t
    <3> SUFFICES ASSUME NEW s \in Places, s > r - 1 PROVE rowTs[s] >= t
      OBVIOUS
    <3>1. s = r \/ r < s
      BY <1>1 DEF Places
    <3> QED BY <1>1, <3>1 DEF Ordered
  <2>2. r - 1 \in S
    BY <1>1, <2>1 DEF Places
  <2>3. n <= r - 1 /\ n \in Nat
    BY <1>2, <1>3, <2>2
  <2> QED BY <1>4, <2>3 DEF Places
<1>5. n \in 0 .. Len(rowTs) /\ \A r \in Places : rowTs[r] < t <=> r <= n
  BY <1>1, <1>3, <1>4 DEF Places
<1>6. Rows = Places
  BY DEF Types, Rows, Places
<1> QED BY <1>5, <1>6 DEF Older

LEMMA ConsecutiveIs ==
  ASSUME NEW a \in Nat, NEW b \in Nat
  PROVE  /\ Consecutive(a, b) \in Seq(1 .. b)
         /\ b <= a => Consecutive(a, b) = <<>>
         /\ a < b => Len(Consecutive(a, b)) = b - a
         /\ \A i \in DOMAIN Consecutive(a, b) : Consecutive(a, b)[i] = a + i
<1>1. CASE b <= a
  <2>1. 1 .. b - a = {}
    BY <1>1
  <2> QED BY <1>1, <2>1 DEF Consecutive
<1>2. CASE a < b
  <2>1. b - a \in Nat /\ \A i \in 1 .. b - a : a + i \in 1 .. b
    BY <1>2
  <2> QED BY <1>2, <2>1 DEF Consecutive
<1> QED BY <1>1, <1>2

(* What was published last is a row, and none of those before is behind it. *)
LEMMA LastPublished ==
  ASSUME Types, Rising(feed)
  PROVE  /\ Len(rowTs) \in Nat /\ Published \in 0 .. Len(rowTs)
         /\ feed # <<>> => Published \in Places /\ Published = feed[Len(feed)]
         /\ \A i \in DOMAIN feed : feed[i] <= Published /\ feed[i] \in Places
<1>1. Len(rowTs) \in Nat /\ feed \in Seq(Places)
  BY DEF Types
<1>2. CASE feed = <<>>
  BY <1>1, <1>2 DEF Published
<1>3. CASE feed # <<>>
  <2>1. Len(feed) \in DOMAIN feed /\ \A i \in DOMAIN feed : i \in Nat /\ i <= Len(feed) /\ feed[i] \in Places
    BY <1>1, <1>3
  <2>2. \A i \in DOMAIN feed : i < Len(feed) => feed[i] < feed[Len(feed)]
    BY <2>1 DEF Rising
  <2> QED BY <1>1, <1>3, <2>1, <2>2 DEF Published, Places
<1> QED BY <1>2, <1>3

LEMMA InitHolds == Init => IInv
<1> SUFFICES ASSUME Init PROVE IInv
  OBVIOUS
<1>1. /\ rowTs = <<>> /\ feed = <<>> /\ replay = <<>> /\ notified = <<>>
      /\ pc = "query" /\ connected = TRUE /\ seen = 0 /\ drops = 0 /\ env \in Envs
  BY DEF Init
<1>2. Types
  <2>1. /\ rowTs \in Seq(1 .. MaxTs) /\ replay \in Seq(Places) /\ notified \in Seq(Places)
        /\ feed \in Seq(Places)
    BY <1>1, EmptySeq
  <2>2. Len(rowTs) <= MaxRows /\ seen \in 0 .. MaxTs /\ drops \in 0 .. MaxDrops
    BY <1>1, BoundsAssumption
  <2>3. env \in SUBSET Habits
    BY <1>1, EnvAssumption
  <2> QED BY <1>1, <2>1, <2>2, <2>3 DEF Types
<1>3. Len(rowTs) = 0 /\ Places = {} /\ Published = 0
  BY <1>1 DEF Places, Published
<1> QED BY <1>1, <1>2, <1>3, BoundsAssumption
        DEF IInv, Ordered, Runs, InRow, Rising, Ahead, Seen, Room, Caught
-----------------------------------------------------------------------------
LEMMA Timestamps ==
  ASSUME Types
  PROVE  Len(rowTs) \in Nat /\ \A r \in Places : rowTs[r] \in 1 .. MaxTs /\ rowTs[r] \in Nat /\ rowTs[r] # 0
<1>1. rowTs \in Seq(1 .. MaxTs)
  BY DEF Types
<1>2. Len(rowTs) \in Nat /\ \A r \in 1 .. Len(rowTs) : rowTs[r] \in 1 .. MaxTs
  BY <1>1, ElementOfSeq, LenProperties
<1>3. \A s \in 1 .. MaxTs : s \in Nat /\ s # 0
  OBVIOUS
<1> QED BY <1>2, <1>3 DEF Places

(* Between two queries the rows missed are those behind the last one published. *)
LEMMA Gap ==
  ASSUME IInv, Steady, pc \notin {"replay", "stopped"}
  PROVE  Cardinality(Missed) = Len(rowTs) - Published
<1>1. /\ Len(rowTs) \in Nat /\ Published \in 0 .. Len(rowTs)
      /\ feed # <<>> => Published \in Places
      /\ \A i \in DOMAIN feed : feed[i] <= Published /\ feed[i] \in Places
  BY LastPublished DEF IInv
<1>2. Rows = Places /\ \A r \in Places : rowTs[r] \in Nat /\ rowTs[r] # 0
  BY Timestamps DEF IInv, Types, Rows, Places
<1>3. ASSUME NEW r \in Places
      PROVE  (rowTs[r] > seen /\ \A i \in DOMAIN feed : feed[i] # r) <=> r > Published
  <2>1. CASE feed = <<>>
    <3>1. seen = 0 /\ Published = 0 /\ DOMAIN feed = {}
      BY <2>1 DEF IInv, Seen, Published
    <3> QED BY <1>2, <3>1 DEF Places
  <2>2. CASE feed # <<>>
    <3>1. seen = rowTs[Published] /\ Published \in Places
      BY <1>1, <2>2 DEF IInv, Seen
    <3>2. r > Published => rowTs[r] > rowTs[Published]
      BY <1>2, <3>1 DEF IInv, Ordered, Steady
    <3>3. r <= Published => rowTs[r] <= rowTs[Published]
      <4>1. r = Published \/ r < Published \/ r > Published
        BY <3>1 DEF Places
      <4> QED BY <1>2, <3>1, <4>1 DEF IInv, Ordered, Places
    <3> QED BY <1>1, <1>2, <3>1, <3>2, <3>3 DEF Places
  <2> QED BY <2>1, <2>2
<1>4. Missed = {r \in Places : r > Published}
  BY <1>2, <1>3 DEF Missed
<1>5. Missed = Published + 1 .. Len(rowTs)
  BY <1>1, <1>4 DEF Places
<1>6. Cardinality(Published + 1 .. Len(rowTs)) = Len(rowTs) - Published
  <2> DEFINE a == Published + 1
             b == Len(rowTs)
  <2>1. a \in Int /\ b \in Int /\ a <= b + 1 /\ b - a + 1 = b - Published
    BY <1>1
  <2> HIDE DEF a, b
  <2>2. Cardinality(a .. b) = IF a > b THEN 0 ELSE b - a + 1
    BY <2>1, FS_Interval
  <2>3. Cardinality(a .. b) = b - Published
    BY <2>1, <2>2
  <2> QED BY <2>3 DEF a, b
<1> QED BY <1>5, <1>6

(* A row is written, and announced to a session that listens. *)
LEMMA InsertKeeps ==
  ASSUME IInv, NEW ts \in 1 .. MaxTs, Insert(ts)
  PROVE  IInv'
<1> DEFINE n == Len(rowTs)
<1>1. /\ n \in Nat /\ Published \in 0 .. n
      /\ feed # <<>> => Published \in Places
      /\ \A i \in DOMAIN feed : feed[i] <= Published /\ feed[i] \in Places
  BY LastPublished DEF IInv
<1>2. /\ UNCHANGED <<env, pc, connected, seen, replay, feed, drops>>
      /\ rowTs' = Append(rowTs, ts) /\ n < MaxRows
      /\ Published' = Published
  BY DEF Insert, Published
<1>3. /\ rowTs \in Seq(1 .. MaxTs) /\ rowTs' \in Seq(1 .. MaxTs) /\ Len(rowTs') = n + 1
      /\ Places' = Places \cup {n + 1} /\ n + 1 \notin Places
      /\ rowTs'[n + 1] = ts /\ \A r \in Places : rowTs'[r] = rowTs[r]
  <2>1. rowTs \in Seq(1 .. MaxTs)
    BY DEF IInv, Types
  <2>2. rowTs' \in Seq(1 .. MaxTs) /\ Len(rowTs') = n + 1 /\ rowTs'[n + 1] = ts
        /\ \A r \in 1 .. n : rowTs'[r] = rowTs[r]
    BY <1>2, <2>1, AppendProperties
  <2> QED BY <1>1, <2>1, <2>2 DEF Places
<1>4. notified' = IF pc = "listen" THEN Append(notified, n + 1) ELSE notified
  BY <1>3 DEF Insert
<1>5. /\ notified \in Seq(Places) /\ replay \in Seq(Places) /\ feed \in Seq(Places)
      /\ \A q \in Seq(Places) : q \in Seq(Places')
  <2>1. \A q \in Seq(Places) : q \in Seq(Places')
    BY <1>3
  <2> QED BY <2>1 DEF IInv, Types
<1>6. notified' \in Seq(Places')
  BY <1>3, <1>4, <1>5
<1>7. Types'
  <2>1. Len(rowTs') <= MaxRows
    BY <1>1, <1>2, <1>3, BoundsAssumption
  <2>2. pc # "listen" => notified' = <<>>
    BY <1>4 DEF IInv, Types
  <2> QED BY <1>2, <1>3, <1>5, <1>6, <2>1, <2>2 DEF IInv, Types
<1>8. Ordered'
  <2>1. \A r \in Places : IF "sameTs" \in env THEN rowTs[r] <= ts ELSE rowTs[r] < ts
    <3>1. Rows = Places
      BY <1>3 DEF Rows, Places
    <3> QED BY <3>1 DEF Insert
  <2>2. \A r \in Places : rowTs[r] \in Nat /\ r <= n
    BY Timestamps DEF IInv, Places
  <2>3. ASSUME NEW r \in Places', NEW s \in Places', r < s
        PROVE  rowTs'[r] <= rowTs'[s] /\ ("sameTs" \notin env => rowTs'[r] < rowTs'[s])
    <3>1. CASE s \in Places
      <4>1. r \in Places
        BY <1>1, <1>3, <2>2, <2>3, <3>1 DEF Places
      <4> QED BY <1>3, <2>3, <3>1, <4>1 DEF IInv, Ordered
    <3>2. CASE s = n + 1
      <4>1. r \in Places
        BY <1>3, <2>3, <3>2
      <4> QED BY <1>3, <2>1, <2>2, <3>2, <4>1
    <3> QED BY <1>3, <3>1, <3>2
  <2> QED BY <1>2, <2>3 DEF Ordered
<1>9. /\ InRow(notified') /\ (notified' # <<>> => notified'[Len(notified')] = n + 1)
      /\ Ahead(notified)'
  <2>1. CASE pc # "listen"
    <3>1. notified' = <<>>
      BY <1>4, <2>1 DEF IInv, Types
    <3> QED BY <3>1 DEF InRow, Ahead
  <2>2. CASE pc = "listen" /\ notified = <<>>
    <3>1. notified' = <<n + 1>>
      BY <1>4, <2>2
    <3>2. InRow(notified') /\ notified'[Len(notified')] = n + 1 /\ notified'[1] = n + 1
      BY <1>1, <3>1 DEF InRow
    <3>3. Steady /\ feed # <<>> => Published = n
      BY <2>2 DEF IInv, Caught
    <3> QED BY <1>1, <1>2, <3>2, <3>3 DEF Ahead, Steady
  <2>3. CASE pc = "listen" /\ notified # <<>>
    <3> DEFINE m == Len(notified)
    <3>1. /\ notified \in Seq(Places) /\ m \in Nat /\ m >= 1 /\ notified' = Append(notified, n + 1)
          /\ \A i \in 1 .. m : notified[i] \in Nat
      BY <1>4, <1>5, <2>3, ElementOfSeq DEF Places
    <3>2. /\ Len(notified') = m + 1 /\ notified'[m + 1] = n + 1 /\ notified' # <<>>
          /\ DOMAIN notified' = 1 .. m + 1 /\ \A i \in 1 .. m : notified'[i] = notified[i]
      <4>1. notified \in Seq(Nat)
        BY <3>1 DEF Places
      <4> QED BY <1>1, <3>1, <4>1, AppendProperties
    <3>3. notified[m] = n /\ notified[m] = notified[1] + m - 1 /\ DOMAIN notified = 1 .. m
      BY <2>3, <3>1 DEF IInv, Runs, InRow
    <3>4. InRow(notified')
      BY <1>1, <3>1, <3>2, <3>3 DEF IInv, Runs, InRow
    <3>5. Ahead(notified)'
      BY <1>2, <2>3, <3>1, <3>2 DEF IInv, Ahead, Steady
    <3> QED BY <3>2, <3>4, <3>5
  <2> QED BY <2>1, <2>2, <2>3
<1>10. Runs' /\ Rising(feed)' /\ Ahead(replay)'
  BY <1>2, <1>3, <1>9 DEF IInv, Runs, InRow, Rising, Ahead, Steady
<1>11. pc = "replay" => feed # <<>> /\ replay[Len(replay)] \in Places
  BY <1>5, ElementOfSeq DEF IInv, Types, Seen
<1>12. Seen'
  BY <1>1, <1>2, <1>3, <1>11 DEF IInv, Seen
<1>13. ASSUME Steady PROVE pc \notin {"replay", "subscribe"} \/ (pc = "subscribe" /\ feed = <<>>)
  <2>1. seen = 0 \/ pc \notin {"replay", "subscribe"}
    BY <1>13 DEF Insert, Steady
  <2>2. \A r \in Places : rowTs[r] # 0
    BY Timestamps DEF IInv
  <2> QED BY <1>1, <1>11, <2>1, <2>2 DEF IInv, Seen
<1>14. Room'
  <2> SUFFICES ASSUME Steady, pc # "stopped" PROVE (n + 1) - Published <= Limit - 1
    BY <1>2, <1>3 DEF Room, Steady
  <2>1. Cardinality(Missed) < Limit - 1
    BY DEF Insert, Steady
  <2>2. Cardinality(Missed) = n - Published
    BY <1>13, Gap
  <2> QED BY <1>1, <2>1, <2>2, BoundsAssumption
<1>15. Caught'
  <2> SUFFICES ASSUME Steady, feed # <<>>, pc \in {"replay", "subscribe"} \/ (pc = "listen" /\ notified' = <<>>)
               PROVE  FALSE
    BY <1>2 DEF Caught, Steady
  <2>1. pc = "listen" /\ notified' = <<>>
    BY <1>13
  <2>2. notified' = Append(notified, n + 1) /\ notified \in Seq(Nat) /\ n + 1 \in Nat
    BY <1>1, <1>4, <1>5, <2>1 DEF Places
  <2> QED BY <2>1, <2>2, AppendProperties
<1> QED BY <1>7, <1>8, <1>9, <1>10, <1>12, <1>14, <1>15 DEF IInv
-----------------------------------------------------------------------------
(* The rows of a page that are newer than the last one seen: they follow each
   other behind it, and in a steady environment they are all there are. *)
LEMMA FreshRows ==
  ASSUME IInv, pc = "query", seen # 0
  PROVE  /\ feed # <<>> /\ Fresh \in Seq(Places) /\ InRow(Fresh)
         /\ Fresh # <<>> => /\ Published < Fresh[1] /\ Fresh[Len(Fresh)] \in Places
                            /\ Steady => Fresh[1] = Published + 1 /\ Fresh[Len(Fresh)] = Len(rowTs)
         /\ Fresh = <<>> /\ Steady => Published = Len(rowTs)
<1> DEFINE lo == Older(seen + 1)
           hi == PageEnd
           n == Len(rowTs)
<1>1. /\ n \in Nat /\ feed # <<>> /\ seen = rowTs[Published] /\ Published \in Places
      /\ seen \in Nat /\ seen + 1 \in Nat
  <2>1. feed # <<>> /\ seen = rowTs[Published]
    BY DEF IInv, Seen
  <2>2. Published \in Places /\ n \in Nat
    BY <2>1, LastPublished DEF IInv
  <2>3. seen \in Nat
    BY <2>1, <2>2, Timestamps DEF IInv
  <2> QED BY <2>1, <2>2, <2>3
<1>2. /\ lo \in 0 .. n /\ \A r \in Places : rowTs[r] < seen + 1 <=> r <= lo
      /\ Older(seen) \in 0 .. n /\ \A r \in Places : rowTs[r] < seen <=> r <= Older(seen)
  BY <1>1, OlderCounts DEF IInv
<1>3. \A r \in Places : rowTs[r] \in Nat /\ r \in Nat /\ r <= n
  BY Timestamps DEF IInv, Places
<1>4. hi \in 0 .. n /\ (hi = n \/ hi = Older(seen) + Limit)
  BY <1>1, <1>2, BoundsAssumption DEF PageEnd
<1>5. Published <= lo
  BY <1>1, <1>2, <1>3
<1>6. ASSUME Steady PROVE lo = Published /\ hi = n
  <2>1. \A r \in Places : r > Published => rowTs[r] > seen
    BY <1>1, <1>6 DEF IInv, Ordered, Steady
  <2>2. lo = Published
    <3> SUFFICES ASSUME lo # Published PROVE FALSE
      OBVIOUS
    <3>1. lo \in Places /\ lo > Published
      BY <1>1, <1>2, <1>3, <1>5 DEF Places
    <3> QED BY <1>1, <1>2, <1>3, <2>1, <3>1
  <2>3. Published - 1 <= Older(seen)
    <3>1. CASE Published = 1
      BY <1>2, <3>1
    <3>2. CASE Published # 1
      <4>1. Published - 1 \in Places /\ Published - 1 < Published
        BY <1>1, <3>2 DEF Places
      <4>2. rowTs[Published - 1] < seen
        BY <1>1, <1>6, <4>1 DEF IInv, Ordered, Steady
      <4> QED BY <1>2, <4>1, <4>2
    <3> QED BY <3>1, <3>2
  <2>4. n - Published <= Limit - 1
    BY <1>6 DEF IInv, Room
  <2>5. hi = n
    BY <1>1, <1>2, <1>3, <2>3, <2>4, BoundsAssumption DEF PageEnd
  <2> QED BY <2>2, <2>5
<1> DEFINE q == Consecutive(lo, hi)
<1>7. Fresh = q
  BY DEF Fresh
<1> HIDE DEF lo, hi, q
<1>8. lo \in Nat /\ hi \in Nat
  BY <1>1, <1>2, <1>4
<1>9. /\ q \in Seq(1 .. hi) /\ (hi <= lo => q = <<>>) /\ (lo < hi => Len(q) = hi - lo)
      /\ \A i \in DOMAIN q : q[i] = lo + i
  BY <1>8, ConsecutiveIs DEF q
<1>10. q \in Seq(Places)
  <2>1. \A r \in 1 .. hi : r \in Places
    BY <1>1, <1>4, <1>8 DEF Places
  <2>2. Len(q) \in Nat /\ q = [i \in 1 .. Len(q) |-> q[i]] /\ \A i \in 1 .. Len(q) : q[i] \in 1 .. hi
    BY <1>9, LenProperties, ElementOfSeq
  <2> QED BY <2>1, <2>2
<1>11. lo < hi => Len(q) \in DOMAIN q /\ 1 \in DOMAIN q /\ q[Len(q)] = hi /\ q[1] = lo + 1
  BY <1>8, <1>9
<1>12. q # <<>> => lo < hi
  BY <1>8, <1>9
<1>13. InRow(q)
  BY <1>8, <1>9, <1>11, <1>12 DEF InRow
<1>14. q = <<>> => hi <= lo
  BY <1>8, <1>9
<1> QED BY <1>1, <1>3, <1>4, <1>5, <1>6, <1>7, <1>8, <1>10, <1>11, <1>12, <1>13, <1>14 DEF Places

LEMMA QueryKeeps ==
  ASSUME IInv, ReplayQuery
  PROVE  IInv'
<1>1. /\ pc = "query" /\ UNCHANGED <<env, rowTs, connected, notified, feed, drops>>
      /\ Published' = Published /\ Places' = Places
  BY DEF ReplayQuery, Published, Places
<1>2. replay = <<>> /\ notified = <<>>
  BY <1>1 DEF IInv, Types
<1>3. CASE seen = 0 \/ Fresh = <<>>
  <2>1. pc' = "subscribe" /\ UNCHANGED <<seen, replay>>
    BY <1>3 DEF ReplayQuery
  <2>2. Types'
    BY <1>1, <1>2, <2>1 DEF IInv, Types
  <2>3. Steady /\ feed # <<>> => Published = Len(rowTs)
    <3>1. feed # <<>> => seen # 0
      BY <1>1, LastPublished, Timestamps DEF IInv, Seen
    <3> QED BY <1>1, <1>3, <3>1, FreshRows
  <2> QED BY <1>1, <1>2, <2>1, <2>2, <2>3
          DEF IInv, Ordered, Runs, InRow, Rising, Ahead, Seen, Room, Caught, Steady
<1>4. CASE ~(seen = 0 \/ Fresh = <<>>)
  <2> DEFINE q == Fresh
  <2>1. pc' = "replay" /\ replay' = q /\ seen' = rowTs[q[Len(q)]]
    BY <1>4 DEF ReplayQuery, Last
  <2>2. /\ feed # <<>> /\ q \in Seq(Places) /\ InRow(q) /\ q # <<>>
        /\ Published < q[1] /\ q[Len(q)] \in Places
        /\ Steady => q[1] = Published + 1 /\ q[Len(q)] = Len(rowTs)
    BY <1>1, <1>4, FreshRows
  <2> HIDE DEF q
  <2>3. seen' \in 0 .. MaxTs
    BY <2>1, <2>2, Timestamps DEF IInv
  <2>4. Types'
    BY <1>1, <1>2, <2>1, <2>2, <2>3 DEF IInv, Types
  <2> QED BY <1>1, <1>2, <2>1, <2>2, <2>4
          DEF IInv, Ordered, Runs, InRow, Rising, Ahead, Seen, Room, Caught, Steady
<1> QED BY <1>3, <1>4
-----------------------------------------------------------------------------
(* The head of a run that is next is published, and its tail is next then. *)
LEMMA PublishHead ==
  ASSUME IInv, NEW q \in Seq(Places), q # <<>>, InRow(q), Ahead(q),
         feed' = Append(feed, Head(q)), UNCHANGED <<env, rowTs>>
  PROVE  /\ feed' \in Seq(Places) /\ feed' # <<>> /\ Published' = q[1] /\ q[1] \in Places
         /\ Rising(feed)' /\ (Steady => InRow(feed'))
         /\ Tail(q) \in Seq(Places) /\ InRow(Tail(q))
         /\ Tail(q) # <<>> => Tail(q)[1] = q[1] + 1 /\ Tail(q)[Len(Tail(q))] = q[Len(q)]
         /\ Tail(q) = <<>> => q[Len(q)] = q[1]
<1> DEFINE m == Len(feed)
           k == Len(q)
<1>1. /\ feed \in Seq(Places) /\ m \in Nat /\ DOMAIN feed = 1 .. m
      /\ \A i \in 1 .. m : feed[i] \in Nat /\ feed[i] <= Published
      /\ m # 0 => Published = feed[m]
  <2>1. feed \in Seq(Places) /\ m \in Nat /\ DOMAIN feed = 1 .. m /\ (m # 0 => feed # <<>>)
    BY LenProperties DEF IInv, Types
  <2> QED BY <2>1, LastPublished DEF IInv, Places
<1>2. /\ k \in Nat /\ k >= 1 /\ DOMAIN q = 1 .. k /\ Head(q) = q[1] /\ q[1] \in Places /\ q[1] \in Nat
      /\ \A i \in 1 .. k : q[i] = q[1] + i - 1
  <2>1. k \in Nat /\ k >= 1 /\ DOMAIN q = 1 .. k /\ Head(q) = q[1]
    BY LenProperties
  <2>2. q[1] \in Places
    BY <2>1, ElementOfSeq
  <2>3. q[1] \in Nat
    BY <2>2, Timestamps DEF IInv, Places
  <2>4. \A i \in 1 .. k : q[i] = q[1] + i - 1
    BY <2>1 DEF InRow
  <2> QED BY <2>1, <2>2, <2>3, <2>4
<1>3. /\ feed' \in Seq(Places) /\ Len(feed') = m + 1 /\ feed'[m + 1] = q[1] /\ DOMAIN feed' = 1 .. m + 1
      /\ \A i \in 1 .. m : feed'[i] = feed[i]
  BY <1>1, <1>2, AppendProperties
<1>4. feed' # <<>> /\ Published' = q[1]
  <2>1. feed' # <<>>
    BY <1>1, <1>3
  <2> QED BY <1>3, <2>1 DEF Published
<1>5. Published < q[1] /\ (Steady /\ m # 0 => q[1] = Published + 1)
  BY <1>1 DEF Ahead
<1>6. Rising(feed)'
  <2>1. ASSUME NEW i \in 1 .. m + 1, NEW j \in 1 .. m + 1, i < j PROVE feed'[i] < feed'[j]
    <3>1. CASE j = m + 1
      <4>1. i \in 1 .. m
        BY <1>1, <2>1, <3>1
      <4>2. m # 0 /\ Published \in Nat
        BY <1>1, <4>1
      <4> QED BY <1>1, <1>2, <1>3, <1>5, <3>1, <4>1, <4>2
    <3>2. CASE j # m + 1
      <4>1. i \in 1 .. m /\ j \in 1 .. m
        BY <1>1, <2>1, <3>2
      <4> QED BY <1>1, <1>3, <2>1, <4>1 DEF IInv, Rising
    <3> QED BY <3>1, <3>2
  <2> QED BY <1>3, <2>1 DEF Rising
<1>7. ASSUME Steady PROVE InRow(feed')
  <2>1. \A i \in 1 .. m : feed[i] = feed[1] + i - 1
    BY <1>1, <1>7 DEF IInv, Runs, InRow
  <2>2. CASE m = 0
    BY <1>2, <1>3, <2>2 DEF InRow
  <2>3. CASE m # 0
    <3>1. feed'[1] = feed[1] /\ feed[1] \in Nat /\ q[1] = feed[1] + m
      BY <1>1, <1>2, <1>3, <1>5, <1>7, <2>1, <2>3
    <3>2. \A i \in 1 .. m : feed'[i] = feed'[1] + i - 1
      BY <1>3, <2>1, <3>1
    <3>3. feed'[m + 1] = feed'[1] + (m + 1) - 1
      BY <1>1, <1>3, <3>1
    <3>4. \A i \in 1 .. m + 1 : i \in 1 .. m \/ i = m + 1
      BY <1>1
    <3> QED BY <1>3, <3>2, <3>3, <3>4 DEF InRow
  <2> QED BY <2>2, <2>3
<1> DEFINE t == Tail(q)
<1>8. /\ t \in Seq(Places) /\ Len(t) = k - 1 /\ DOMAIN t = 1 .. k - 1
      /\ \A i \in 1 .. k - 1 : t[i] = q[i + 1]
  BY <1>2, HeadTailProperties
<1>9. t # <<>> <=> k > 1
  BY <1>2, <1>8, EmptySeq
<1> HIDE DEF t
<1>10. InRow(t)
  <2> SUFFICES ASSUME NEW i \in 1 .. k - 1 PROVE t[i] = t[1] + i - 1
    BY <1>8 DEF InRow
  <2>1. 1 \in 1 .. k - 1 /\ i + 1 \in 1 .. k /\ 2 \in 1 .. k
    BY <1>2
  <2>2. t[i] = q[i + 1] /\ t[1] = q[2]
    BY <1>8, <2>1
  <2> QED BY <1>2, <2>1, <2>2
<1>11. t # <<>> => t[1] = q[1] + 1
  BY <1>2, <1>8, <1>9
<1>12. /\ t # <<>> => t[Len(t)] = q[k]
       /\ t = <<>> => q[k] = q[1]
  BY <1>2, <1>8, <1>9
<1> QED BY <1>2, <1>3, <1>4, <1>6, <1>7, <1>8, <1>10, <1>11, <1>12 DEF t
(* _replay_gap broadcasts a row, *)
LEMMA BroadcastKeeps ==
  ASSUME IInv, ReplayBroadcast
  PROVE  IInv' /\ \E r \in Places : FP!Publish(r)
<1> DEFINE t == Tail(replay)
<1>1. /\ pc = "replay" /\ UNCHANGED <<env, rowTs, connected, seen, notified, drops>>
      /\ feed' = Append(feed, Head(replay)) /\ replay' = t
      /\ pc' = (IF t = <<>> THEN "subscribe" ELSE pc) /\ Places' = Places
  BY DEF ReplayBroadcast, Places
<1>2. /\ replay \in Seq(Places) /\ replay # <<>> /\ InRow(replay) /\ Ahead(replay)
      /\ notified = <<>> /\ feed # <<>> /\ seen = rowTs[replay[Len(replay)]]
      /\ Steady => replay[Len(replay)] = Len(rowTs)
  BY <1>1 DEF IInv, Types, Runs, Seen, Caught
<1>3. /\ feed' \in Seq(Places) /\ feed' # <<>> /\ Published' = replay[1] /\ replay[1] \in Places
      /\ Rising(feed)' /\ (Steady => InRow(feed'))
      /\ t \in Seq(Places) /\ InRow(t)
      /\ t # <<>> => t[1] = replay[1] + 1 /\ t[Len(t)] = replay[Len(replay)]
      /\ t = <<>> => replay[Len(replay)] = replay[1]
  <2>1. PICK q \in Seq(Places) : q = replay
    BY <1>2
  <2> QED BY <1>1, <1>2, <2>1, PublishHead
<1> HIDE DEF t
<1>4. Types'
  BY <1>1, <1>2, <1>3 DEF IInv, Types
<1>5. Ordered' /\ Runs' /\ Ahead(replay)' /\ Ahead(notified)'
  <2>1. replay[1] \in Nat
    BY <1>3, Timestamps DEF IInv, Places
  <2>2. Ordered'
    BY <1>1 DEF IInv, Ordered
  <2>3. notified' = <<>>
    BY <1>1, <1>2
  <2>4. Runs'
    BY <1>1, <1>2, <1>3, <2>3 DEF Runs, InRow, Steady
  <2>5. t # <<>> => replay[1] < t[1]
    BY <1>3, <2>1
  <2>6. Ahead(replay)' /\ Ahead(notified)'
    BY <1>1, <1>3, <2>3, <2>5 DEF Ahead, Steady
  <2> QED BY <2>2, <2>4, <2>6
<1>6. Seen'
  BY <1>1, <1>2, <1>3 DEF Seen
<1>7. Room'
  <2>1. Published < replay[1] /\ Len(rowTs) \in Nat /\ Published \in Nat /\ replay[1] \in Nat
    BY <1>2, <1>3, LastPublished DEF IInv, Ahead, Places
  <2>2. Steady => Len(rowTs) - Published <= Limit - 1
    BY <1>1 DEF IInv, Room
  <2> QED BY <1>1, <1>3, <2>1, <2>2, BoundsAssumption DEF Room, Steady
<1>8. Caught'
  BY <1>1, <1>2, <1>3 DEF Caught, Steady
<1>9. FP!Publish(replay[1])
  <2>1. /\ Head(replay) = replay[1] /\ feed' = Append(feed, replay[1]) /\ Len(rowTs)' = Len(rowTs)
        /\ (env = {})' = (env = {}) /\ Published = feed[Len(feed)]
    BY <1>1, <1>2 DEF Published
  <2>2. Published < replay[1] /\ (Steady => replay[1] = Published + 1)
    BY <1>2 DEF Ahead
  <2> QED BY <2>1, <2>2 DEF FP!Publish, Steady
<1> QED BY <1>3, <1>4, <1>5, <1>6, <1>7, <1>8, <1>9 DEF IInv

(* ... and the listener a notification. *)
LEMMA ForwardKeeps ==
  ASSUME IInv, Forward
  PROVE  IInv' /\ \E r \in Places : FP!Publish(r)
<1> DEFINE t == Tail(notified)
<1>1. /\ pc = "listen" /\ UNCHANGED <<env, rowTs, pc, connected, replay, drops>>
      /\ feed' = Append(feed, Head(notified)) /\ notified' = t
      /\ notified # <<>> /\ Places' = Places /\ seen' = rowTs[Head(notified)]
  BY DEF Forward, Places
<1>2. /\ notified \in Seq(Places) /\ InRow(notified) /\ Ahead(notified)
      /\ notified[Len(notified)] = Len(rowTs) /\ replay = <<>> /\ Head(notified) = notified[1]
  <2>1. notified \in Seq(Places) /\ replay = <<>>
    BY <1>1 DEF IInv, Types
  <2>2. InRow(notified) /\ Ahead(notified) /\ notified[Len(notified)] = Len(rowTs)
    BY <1>1 DEF IInv, Runs
  <2>3. Head(notified) = notified[1]
    BY <1>1, <2>1
  <2> QED BY <2>1, <2>2, <2>3
<1>3. /\ feed' \in Seq(Places) /\ feed' # <<>> /\ Published' = notified[1] /\ notified[1] \in Places
      /\ Rising(feed)' /\ (Steady => InRow(feed'))
      /\ t \in Seq(Places) /\ InRow(t)
      /\ t # <<>> => t[1] = notified[1] + 1 /\ t[Len(t)] = notified[Len(notified)]
      /\ t = <<>> => notified[Len(notified)] = notified[1]
  <2>1. PICK q \in Seq(Places) : q = notified
    BY <1>2
  <2> QED BY <1>1, <1>2, <2>1, PublishHead
<1> HIDE DEF t
<1>4. Types'
  <2>1. seen' \in 0 .. MaxTs
    BY <1>1, <1>2, <1>3, Timestamps DEF IInv
  <2>2. rowTs' = rowTs /\ feed' \in Seq(Places') /\ notified' \in Seq(Places')
    BY <1>1, <1>3
  <2> QED BY <1>1, <1>2, <2>1, <2>2 DEF IInv, Types
<1>5. Ordered' /\ Runs' /\ Ahead(replay)' /\ Ahead(notified)'
  <2>1. notified[1] \in Nat
    BY <1>3, Timestamps DEF IInv, Places
  <2>2. Ordered'
    BY <1>1 DEF IInv, Ordered
  <2>3. replay' = <<>>
    BY <1>1, <1>2
  <2>4. Runs'
    <3>1. InRow(replay)'
      BY <2>3 DEF InRow
    <3>2. InRow(notified)' /\ (Steady' => InRow(feed)')
      BY <1>1, <1>3 DEF InRow, Steady
    <3>3. notified' # <<>> => notified'[Len(notified')] = Len(rowTs')
      BY <1>1, <1>2, <1>3
    <3> QED BY <3>1, <3>2, <3>3 DEF Runs
  <2>5. t # <<>> => notified[1] < t[1]
    BY <1>3, <2>1
  <2>6. Ahead(replay)' /\ Ahead(notified)'
    BY <1>1, <1>3, <2>3, <2>5 DEF Ahead, Steady
  <2> QED BY <2>2, <2>4, <2>6
<1>6. Seen'
  BY <1>1, <1>2, <1>3 DEF Seen
<1>7. Room'
  <2>1. Published < notified[1] /\ Len(rowTs) \in Nat /\ Published \in Nat /\ notified[1] \in Nat
    BY <1>1, <1>2, <1>3, LastPublished DEF IInv, Ahead, Places
  <2>2. Steady => Len(rowTs) - Published <= Limit - 1
    BY <1>1 DEF IInv, Room
  <2> QED BY <1>1, <1>3, <2>1, <2>2, BoundsAssumption DEF Room, Steady
<1>8. Caught'
  BY <1>1, <1>2, <1>3 DEF Caught, Steady
<1>9. FP!Publish(notified[1])
  <2>1. /\ feed' = Append(feed, notified[1]) /\ Len(rowTs)' = Len(rowTs)
        /\ (env = {})' = (env = {}) /\ (feed # <<>> => Published = feed[Len(feed)])
    BY <1>1, <1>2 DEF Published
  <2>2. Published < notified[1] /\ (Steady /\ feed # <<>> => notified[1] = Published + 1)
    BY <1>1, <1>2 DEF Ahead
  <2> QED BY <2>1, <2>2 DEF FP!Publish, Steady
<1> QED BY <1>3, <1>4, <1>5, <1>6, <1>7, <1>8, <1>9 DEF IInv

(* The other steps of the loop publish nothing. *)
LEMMA LoopKeeps ==
  ASSUME IInv, ReplayFails \/ Listen \/ Retry
  PROVE  IInv'
<1>1. /\ UNCHANGED <<env, rowTs, seen, replay, notified, feed, drops>>
      /\ Published' = Published /\ Places' = Places
      /\ replay = <<>> /\ notified = <<>> /\ pc # "stopped" /\ pc' # "stopped"
      /\ pc' \in {"query", "subscribe", "listen"} /\ connected' = TRUE
  BY DEF ReplayFails, Listen, Retry, Published, Places, IInv, Types
<1>2. Types'
  BY <1>1 DEF IInv, Types
<1>3. Caught'
  <2>1. CASE ReplayFails
    BY <2>1 DEF ReplayFails, Caught, Steady
  <2>2. CASE Listen
    BY <1>1, <2>2 DEF Listen, IInv, Caught, Steady
  <2>3. CASE Retry
    BY <2>3 DEF Retry, Caught
  <2> QED BY <2>1, <2>2, <2>3
<1>4. Seen' /\ Room'
  BY <1>1 DEF ReplayFails, Listen, Retry, IInv, Seen, Room, Steady
<1> QED BY <1>1, <1>2, <1>3, <1>4 DEF IInv, Ordered, Runs, InRow, Rising, Ahead, Steady

(* A lost connection, or the end, takes what was in hand with it. *)
LEMMA LossKeeps ==
  ASSUME IInv, Drop \/ Shutdown
  PROVE  IInv'
<1>1. /\ UNCHANGED <<env, rowTs, seen, feed>> /\ Published' = Published /\ Places' = Places
      /\ replay' = <<>> /\ notified' = <<>> /\ pc' \in {"backoff", "stopped"} /\ connected' = FALSE
      /\ pc' = "backoff" => pc \in {"subscribe", "listen"}
  BY DEF Drop, Shutdown, Published, Places, IInv, Types
<1>2. drops' \in 0 .. MaxDrops
  BY BoundsAssumption DEF Drop, Shutdown, IInv, Types
<1>3. Types'
  <2>1. replay' \in Seq(Places') /\ notified' \in Seq(Places')
    BY <1>1, EmptySeq
  <2> QED BY <1>1, <1>2, <2>1 DEF IInv, Types
<1>4. Seen' /\ Room' /\ Caught'
  BY <1>1 DEF IInv, Seen, Room, Caught, Steady
<1> QED BY <1>1, <1>3, <1>4 DEF IInv, Ordered, Runs, InRow, Rising, Ahead, Steady

LEMMA StepKeeps == IInv /\ [Next]_vars => IInv'
<1> SUFFICES ASSUME IInv, [Next]_vars PROVE IInv'
  OBVIOUS
<1>1. CASE UNCHANGED vars
  <2>1. /\ UNCHANGED <<env, rowTs, pc, connected, seen, replay, notified, feed, drops>>
        /\ Published' = Published /\ Places' = Places /\ Steady' = Steady
    BY <1>1 DEF vars, Published, Places, Steady
  <2> QED BY <2>1 DEF IInv, Types, Ordered, Runs, InRow, Rising, Ahead, Seen, Room, Caught
<1>2. CASE Next
  BY <1>2, InsertKeeps, QueryKeeps, BroadcastKeeps, ForwardKeeps, LoopKeeps, LossKeeps DEF Next, LoopStep
<1> QED BY <1>1, <1>2
-----------------------------------------------------------------------------
(* IInv is invariant: the loop never loses its place along the rows. *)
THEOREM Invariance == Spec => []IInv
BY InitHolds, StepKeeps, PTL DEF Spec

(* Every variable has its type; the status says disconnected exactly while
   the bridge waits to reconnect or is stopped. *)
THEOREM TypesHold == Spec => []TypeOK
<1>1. IInv => TypeOK
  <2> SUFFICES ASSUME IInv PROVE TypeOK
    OBVIOUS
  <2>1. Rows = Places
    BY LenProperties DEF IInv, Types, Rows, Places
  <2> QED BY <2>1 DEF IInv, Types, TypeOK
<1> QED BY <1>1, Invariance, PTL

(* A sequence of numbers in a row holds all from its first to its last. *)
LEMMA InRowHolds ==
  ASSUME NEW q \in Seq(Nat), q # <<>>, InRow(q), NEW r \in q[1] .. q[Len(q)]
  PROVE  r \in ToSet(q)
<1>1. Len(q) \in Nat \ {0} /\ DOMAIN q = 1 .. Len(q)
  BY EmptySeq, LenProperties
<1>2. q[1] \in Nat /\ q[Len(q)] \in Nat
  BY <1>1, ElementOfSeq
<1>3. q[Len(q)] = q[1] + Len(q) - 1
  BY <1>1 DEF InRow
<1> DEFINE i == r - q[1] + 1
<1>4. i \in 1 .. Len(q)
  BY <1>1, <1>2, <1>3
<1>5. q[i] = r
  <2>1. q[i] = q[1] + i - 1
    BY <1>1, <1>4 DEF InRow
  <2> QED BY <1>2, <2>1
<1> QED BY <1>1, <1>4, <1>5 DEF ToSet

(* "A brief LISTEN drop does not lose telegrams", over any number of drops:
   while the bridge listens, every row since the first one it broadcast was
   broadcast or is in hand, if writer and store have none of the habits. *)
THEOREM NothingIsLost == Spec => []NothingLost
<1>1. IInv => NothingLost
  <2> SUFFICES ASSUME IInv, Steady, pc = "listen", feed # <<>>, NEW r \in Rows, r >= feed[1]
               PROVE  r \in ToSet(feed) \cup ToSet(notified)
    BY DEF NothingLost, Complete, Steady
  <2>1. r \in 1 .. Len(rowTs) /\ Len(rowTs) \in Nat
    BY LenProperties DEF IInv, Types, Rows
  <2>2. feed \in Seq(Nat) /\ notified \in Seq(Nat)
    <3>1. Places \subseteq Nat
      BY <2>1 DEF Places
    <3> QED BY <3>1, SeqMonotonic DEF IInv, Types
  <2>3. Published = feed[Len(feed)] /\ feed[1] \in Nat /\ Published \in Nat
    BY <2>2, EmptySeq, LenProperties, ElementOfSeq DEF Published
  <2>4. CASE r <= Published
    BY <2>1, <2>2, <2>3, <2>4, InRowHolds DEF IInv, Runs
  <2>5. CASE r > Published
    <3>1. notified # <<>>
      BY <2>1, <2>3, <2>5 DEF IInv, Caught
    <3>2. notified[1] = Published + 1 /\ notified[Len(notified)] = Len(rowTs) /\ InRow(notified)
      BY <3>1 DEF IInv, Ahead, Runs
    <3>3. r \in notified[1] .. notified[Len(notified)]
      BY <2>1, <2>3, <2>5, <3>2
    <3> QED BY <2>2, <3>1, <3>2, <3>3, InRowHolds
  <2> QED BY <2>1, <2>3, <2>4, <2>5
<1> QED BY <1>1, Invariance, PTL

(* The bridge keeps the promise: what it broadcasts runs along the rows of the
   database, none twice and none backwards, and skips none while writer and
   store have none of the habits.  A broadcast is the promise's Publish, an
   insertion its Write, and every other step one it does not see. *)
THEOREM KeepsFeedPromise == Spec => ImplementsFeedPromise
<1>1. Init => FP!Init
  BY EmptySeq DEF Init, FP!Init
<1>2. IInv /\ [Next]_vars => [FP!Next]_(FP!vars)
  <2> SUFFICES ASSUME IInv, [Next]_vars PROVE [FP!Next]_(FP!vars)
    OBVIOUS
  <2>1. CASE \E ts \in 1 .. MaxTs : Insert(ts)
    <3>1. PICK ts \in 1 .. MaxTs : Insert(ts)
      BY <2>1
    <3>2. Len(rowTs') = Len(rowTs) + 1
      BY <3>1, AppendProperties DEF Insert, IInv, Types
    <3> QED BY <3>1, <3>2 DEF Insert, FP!Next, FP!Write
  <2>2. CASE ReplayBroadcast \/ Forward
    <3>1. \E r \in Places : FP!Publish(r)
      BY <2>2, BroadcastKeeps, ForwardKeeps
    <3> QED BY <3>1 DEF Places, FP!Next
  <2>3. CASE ReplayQuery \/ ReplayFails \/ Listen \/ Retry \/ Drop \/ Shutdown \/ UNCHANGED vars
    <3>1. UNCHANGED <<env, rowTs, feed>>
      BY <2>3 DEF ReplayQuery, ReplayFails, Listen, Retry, Drop, Shutdown, vars
    <3> QED BY <3>1 DEF FP!vars
  <2> QED BY <2>1, <2>2, <2>3 DEF Next, LoopStep
<1> QED BY <1>1, <1>2, Invariance, PTL DEF Spec, ImplementsFeedPromise, FP!Spec
-----------------------------------------------------------------------------
(* The server's own feed and the page's socket, next to the bridge. *)
CONSTANTS FeedEnvs
VARIABLES feedEnv, job, stored, registry, filtered, sock, hook, got, bus, badge, asked, losses

Ws == INSTANCE LiveFeed WITH Envs <- FeedEnvs, env <- feedEnv, drops <- losses

Elements(q) == {q[i] : i \in DOMAIN q}
Tos(q) == {q[i].to : i \in DOMAIN q}
Live(s) == sock[s].client \in {"connecting", "open"}
Reliable == "devMount" \notin feedEnv.habits
Followed == feedEnv.flips > 0 /\ "httpFaults" \notin feedEnv.habits

Addressee == [to : Ws!Sock, only : BOOLEAN]
JobState == [pc : {"none", "storing", "failed", "sending"}, todo : Seq(Addressee), due : SUBSET Ws!Sock]
Sent == ({"telegram"} \X Ws!Telegram) \cup ({"state"} \X {"up", "down"})
Socket == [client : {"none", "connecting", "open", "closing"}, endpoint : {"none", "receiving", "gone"},
           linked : BOOLEAN, pipe : Seq(Sent)]

FeedTypes ==
  /\ feedEnv \in [telegrams : Nat, flips : Nat, drops : Nat, habits : SUBSET Ws!Habits]
  /\ job \in [Ws!Job -> JobState] /\ stored \subseteq Ws!Telegram
  /\ registry \in Seq(Ws!Sock) /\ filtered \subseteq Ws!Sock
  /\ sock \in [Ws!Sock -> Socket]
  /\ hook \in [timer : BOOLEAN, connected : BOOLEAN, ws : Ws!Page]
  /\ got \in [Ws!Telegram -> Nat] /\ bus \in [up : BOOLEAN, changes : Nat]
  /\ badge \in {"none", "up", "down"} /\ asked \in Seq({"asked", "up", "down"})

(* A link and messages on it belong to a socket of the page that is alive;
   nobody has heard of a socket that no endpoint serves yet. *)
Sockets ==
  /\ sock[0].client = "open" /\ sock[0].pipe = <<>>
  /\ \A s \in Ws!Sock :
       /\ sock[s].linked => sock[s].endpoint = "receiving" /\ Live(s)
       /\ sock[s].pipe # <<>> => Live(s)
       /\ sock[s].endpoint = "none" =>
            /\ sock[s].pipe = <<>> /\ s \notin Elements(registry)
            /\ \A j \in Ws!Job : s \notin Tos(job[j].todo)

Registered ==
  /\ \A i, k \in DOMAIN registry : registry[i] = registry[k] => i = k
  /\ filtered \subseteq Elements(registry)
  /\ \A s \in Ws!Sock : Ws!Takes(s) => s \in Elements(registry)

(* What is not in the store is nowhere on its way. *)
Telling(t) == <<"telegram", t>>
Backed ==
  \A t \in Ws!Telegram : t \notin stored =>
    /\ got[t] = 0 /\ job[Telling(t)].pc # "sending"
    /\ \A s \in Ws!Sock : Telling(t) \notin Elements(sock[s].pipe)

(* Who is still due a message is still to come in the loop. *)
Owed == \A j \in Ws!Job : job[j].pc = "sending" => job[j].due \subseteq Tos(job[j].todo)

Alone ==
  Reliable =>
    /\ \A s \in Ws!Page : sock[s].client # "closing" /\ (hook.timer => ~Live(s))
    /\ \A s, r \in Ws!Page : Live(s) /\ Live(r) => s = r

(* A telegram that the page has, or that is on its way to it, is not sent there
   once more. *)
Distinct(q) == \A i, k \in DOMAIN q : q[i].to = q[k].to => i = k
OnWay(t, q) == \E i \in DOMAIN q : q[i] = Telling(t) /\ \A k \in DOMAIN q : q[k] = Telling(t) => k = i
Once ==
  Reliable =>
    \A t \in Ws!Telegram :
      /\ got[t] \in {0, 1} /\ Distinct(job[Telling(t)].todo)
      /\ got[t] = 1 => job[Telling(t)].pc = "sending"
      /\ \A s \in Ws!Page :
           /\ Telling(t) \in Elements(sock[s].pipe) =>
                /\ got[t] = 0 /\ s \notin Tos(job[Telling(t)].todo)
                /\ job[Telling(t)].pc = "sending" /\ OnWay(t, sock[s].pipe)
           /\ got[t] = 1 /\ Live(s) => s \notin Tos(job[Telling(t)].todo)

(* The page's badge is right, will be by an answer, or by a message on its way. *)
Right ==
  IF asked = <<>> THEN badge = Ws!State(bus.up) ELSE asked[Len(asked)] \in {"asked", Ws!State(bus.up)}
WillHear(s) ==
  \/ \E i \in DOMAIN sock[s].pipe : sock[s].pipe[i][1] = "state"
  \/ \E f \in 1 .. feedEnv.flips : s \in Tos(job[<<"state", f>>].todo)
Connected == hook.connected => \E s \in Ws!Page : sock[s].client = "open"
Told ==
  Followed =>
    /\ badge = "none" => asked # <<>>
    /\ \A i, k \in DOMAIN asked : i < k /\ asked[k] # "asked" => asked[i] # "asked"
    /\ \A s \in Ws!Page : Ws!Takes(s) => Right \/ WillHear(s)

FeedInv ==
  FeedTypes /\ Sockets /\ Registered /\ Backed /\ Owed /\ Alone /\ Once /\ Connected /\ Told
-----------------------------------------------------------------------------
LEMMA PageIs == Ws!Page = 1 .. 3 /\ Ws!Sock = {0} \cup Ws!Page /\ Ws!Other = 0 /\ 0 \notin Ws!Page
BY DEF Ws!Page, Ws!Sock, Ws!Other

LEMMA JobIs ==
  ASSUME FeedTypes
  PROVE  /\ \A t \in Ws!Telegram : Telling(t) \in Ws!Job /\ Telling(t)[1] = "telegram" /\ Telling(t)[2] = t
         /\ \A f \in 1 .. feedEnv.flips : <<"state", f>> \in Ws!Job /\ <<"state", f>>[1] = "state"
         /\ \A j \in Ws!Job : \/ j[1] = "telegram" /\ j[2] \in Ws!Telegram /\ j = Telling(j[2])
                              \/ j[1] = "state" /\ j[2] \in 1 .. feedEnv.flips /\ j = <<"state", j[2]>>
BY DEF Ws!Job, Telling

LEMMA MessageIs ==
  ASSUME FeedTypes, NEW j \in Ws!Job
  PROVE  /\ Ws!Message(j) \in Sent
         /\ j[1] = "state" => Ws!Message(j)[1] = "state"
         /\ j[1] = "telegram" => Ws!Message(j) = j /\ Ws!Message(j)[1] = "telegram"
         /\ \A t \in Ws!Telegram : Ws!Message(j) = Telling(t) => j = Telling(t)
<1>1. CASE j[1] = "state"
  <2>1. Ws!StateAfter(j[2]) \in {"up", "down"}
    BY DEF Ws!StateAfter, Ws!State
  <2>2. Ws!Message(j) = <<"state", Ws!StateAfter(j[2])>>
    BY <1>1 DEF Ws!Message
  <2> QED BY <1>1, <2>1, <2>2 DEF Sent, Telling
<1>2. CASE j[1] = "telegram"
  <2>1. Ws!Message(j) = j
    BY <1>2 DEF Ws!Message
  <2> QED BY <1>2, <2>1, JobIs DEF Sent, Telling
<1> QED BY <1>1, <1>2, JobIs

(* Appending to a sequence, and taking its head off. *)
LEMMA Appended ==
  ASSUME NEW S, NEW q \in Seq(S), NEW x \in S
  PROVE  /\ Append(q, x) \in Seq(S) /\ Append(q, x) # <<>> /\ Len(Append(q, x)) = Len(q) + 1
         /\ DOMAIN q = 1 .. Len(q) /\ DOMAIN Append(q, x) = 1 .. Len(q) + 1 /\ Len(q) \in Nat
         /\ \A i \in 1 .. Len(q) : Append(q, x)[i] = q[i]
         /\ Append(q, x)[Len(q) + 1] = x
         /\ Elements(Append(q, x)) = Elements(q) \cup {x}
<1>1. /\ Append(q, x) \in Seq(S) /\ Len(Append(q, x)) = Len(q) + 1 /\ Append(q, x) # <<>>
      /\ DOMAIN q = 1 .. Len(q) /\ DOMAIN Append(q, x) = 1 .. Len(q) + 1 /\ Len(q) \in Nat
      /\ \A i \in 1 .. Len(q) : Append(q, x)[i] = q[i]
      /\ Append(q, x)[Len(q) + 1] = x
  BY AppendProperties, LenProperties
<1>2. Elements(Append(q, x)) = Elements(q) \cup {x}
  <2>1. \A i \in 1 .. Len(q) + 1 : i \in 1 .. Len(q) \/ i = Len(q) + 1
    BY <1>1
  <2>2. Len(q) + 1 \in 1 .. Len(q) + 1 /\ 1 .. Len(q) \subseteq 1 .. Len(q) + 1
    BY <1>1
  <2> QED BY <1>1, <2>1, <2>2 DEF Elements
<1> QED BY <1>1, <1>2

LEMMA Beheaded ==
  ASSUME NEW S, NEW q \in Seq(S), q # <<>>
  PROVE  /\ Head(q) = q[1] /\ q[1] \in S /\ Tail(q) \in Seq(S) /\ Len(Tail(q)) = Len(q) - 1
         /\ Len(q) \in Nat \ {0} /\ DOMAIN q = 1 .. Len(q) /\ DOMAIN Tail(q) = 1 .. Len(q) - 1
         /\ \A i \in 1 .. Len(q) - 1 : Tail(q)[i] = q[i + 1]
         /\ Elements(q) = {q[1]} \cup Elements(Tail(q)) /\ Tos(q) = {q[1].to} \cup Tos(Tail(q))
<1>1. /\ Head(q) = q[1] /\ q[1] \in S /\ Tail(q) \in Seq(S) /\ Len(Tail(q)) = Len(q) - 1
      /\ Len(q) \in Nat \ {0} /\ DOMAIN q = 1 .. Len(q) /\ DOMAIN Tail(q) = 1 .. Len(q) - 1
      /\ \A i \in 1 .. Len(q) - 1 : Tail(q)[i] = q[i + 1]
  BY HeadTailProperties, LenProperties, EmptySeq, ElementOfSeq
<1>2. \A i \in 1 .. Len(q) : i = 1 \/ (i - 1 \in 1 .. Len(q) - 1 /\ (i - 1) + 1 = i)
  BY <1>1
<1>3. \A i \in 1 .. Len(q) - 1 : i + 1 \in 1 .. Len(q)
  BY <1>1
<1>4. \A i \in 1 .. Len(q) : q[i] = q[1] \/ \E k \in 1 .. Len(q) - 1 : Tail(q)[k] = q[i]
  BY <1>1, <1>2
<1>5. \A k \in 1 .. Len(q) - 1 : \E i \in 1 .. Len(q) : Tail(q)[k] = q[i]
  BY <1>1, <1>3
<1>6. 1 \in 1 .. Len(q)
  BY <1>1
<1> DEFINE r == Tail(q)
           n == Len(q)
<1>10. DOMAIN q = 1 .. n /\ DOMAIN r = 1 .. n - 1
  BY <1>1
<1>11. /\ \A i \in 1 .. n : q[i] = q[1] \/ \E k \in 1 .. n - 1 : r[k] = q[i]
       /\ \A k \in 1 .. n - 1 : \E i \in 1 .. n : r[k] = q[i]
       /\ 1 \in 1 .. n
  BY <1>4, <1>5, <1>6
<1>7. Elements(q) = {q[1]} \cup Elements(r)
  <2> HIDE DEF r, n
  <2>1. ASSUME NEW x \in Elements(q) PROVE x \in {q[1]} \cup Elements(r)
    <3>1. PICK i \in 1 .. n : x = q[i]
      BY <1>10 DEF Elements
    <3>2. CASE q[i] = q[1]
      BY <3>1, <3>2
    <3>3. CASE \E k \in 1 .. n - 1 : r[k] = q[i]
      BY <1>10, <3>1, <3>3 DEF Elements
    <3> QED BY <1>11, <3>2, <3>3
  <2>2. ASSUME NEW x \in Elements(r) PROVE x \in Elements(q)
    <3>1. PICK k \in 1 .. n - 1 : x = r[k]
      BY <1>10 DEF Elements
    <3>2. PICK i \in 1 .. n : r[k] = q[i]
      BY <1>11
    <3> QED BY <1>10, <3>1, <3>2 DEF Elements
  <2>3. q[1] \in Elements(q)
    BY <1>10, <1>11 DEF Elements
  <2> QED BY <2>1, <2>2, <2>3
<1>8. Tos(q) = {q[1].to} \cup Tos(r)
  <2> HIDE DEF r, n
  <2>1. ASSUME NEW x \in Tos(q) PROVE x \in {q[1].to} \cup Tos(r)
    <3>1. PICK i \in 1 .. n : x = q[i].to
      BY <1>10 DEF Tos
    <3>2. CASE q[i] = q[1]
      BY <3>1, <3>2
    <3>3. CASE \E k \in 1 .. n - 1 : r[k] = q[i]
      BY <1>10, <3>1, <3>3 DEF Tos
    <3> QED BY <1>11, <3>2, <3>3
  <2>2. ASSUME NEW x \in Tos(r) PROVE x \in Tos(q)
    <3>1. PICK k \in 1 .. n - 1 : x = r[k].to
      BY <1>10 DEF Tos
    <3>2. PICK i \in 1 .. n : r[k] = q[i]
      BY <1>11
    <3> QED BY <1>10, <3>1, <3>2 DEF Tos
  <2>3. q[1].to \in Tos(q)
    BY <1>10, <1>11 DEF Tos
  <2> QED BY <2>1, <2>2, <2>3
<1> QED BY <1>1, <1>7, <1>8

(* A sequence without its i-th element. *)
LEMMA RemovedIs ==
  ASSUME NEW S, NEW q \in Seq(S), NEW i \in DOMAIN q
  PROVE  /\ Ws!RemoveAt(q, i) \in Seq(S) /\ Len(Ws!RemoveAt(q, i)) = Len(q) - 1
         /\ Len(q) \in Nat /\ DOMAIN q = 1 .. Len(q) /\ DOMAIN Ws!RemoveAt(q, i) = 1 .. Len(q) - 1
         /\ \A k \in 1 .. Len(q) - 1 : Ws!RemoveAt(q, i)[k] = IF k < i THEN q[k] ELSE q[k + 1]
<1> DEFINE n == Len(q)
           r == Ws!RemoveAt(q, i)
<1>1. n \in Nat /\ DOMAIN q = 1 .. n
  BY LenProperties
<1> DEFINE a == SubSeq(q, 1, i - 1)
           b == SubSeq(q, i + 1, n)
<1>2. i \in 1 .. n
  BY <1>1
<1>3. /\ a \in Seq(S) /\ Len(a) = i - 1
      /\ \A k \in 1 .. i - 1 : a[k] = q[k]
  <2>1. \A k \in 1 .. i - 1 : q[k] \in S
    BY <1>1, <1>2, ElementOfSeq
  <2> QED BY <1>1, <1>2, <2>1, SubSeqProperties
<1>4. /\ b \in Seq(S) /\ Len(b) = n - i
      /\ \A k \in 1 .. n - i : b[k] = q[i + k]
  <2>1. \A k \in i + 1 .. n : q[k] \in S
    BY <1>1, <1>2, ElementOfSeq
  <2>2. /\ b \in Seq(S) /\ Len(b) = IF i + 1 <= n THEN n - (i + 1) + 1 ELSE 0
        /\ \A k \in 1 .. n - (i + 1) + 1 : b[k] = q[(i + 1) + k - 1]
    BY <1>1, <1>2, <2>1, SubSeqProperties
  <2>3. n - (i + 1) + 1 = n - i /\ \A k \in Int : (i + 1) + k - 1 = i + k
    BY <1>1, <1>2
  <2>4. i + 1 <= n \/ (~(i + 1 <= n) /\ n - i = 0)
    <3>1. n \in Int /\ i \in Int /\ i <= n
      BY <1>1, <1>2
    <3> HIDE DEF n
    <3> QED BY <3>1
  <2>5. Len(b) = n - i
    BY <2>2, <2>3, <2>4
  <2>6. ASSUME NEW k \in 1 .. n - i PROVE b[k] = q[i + k]
    <3>1. k \in 1 .. n - (i + 1) + 1 /\ (i + 1) + k - 1 = i + k
      BY <2>3
    <3> QED BY <2>2, <3>1
  <2> QED BY <2>2, <2>5, <2>6
<1> HIDE DEF a, b
<1>5. r = a \o b
  BY DEF a, b, Ws!RemoveAt
<1> HIDE DEF r
<1>6. /\ a \o b \in Seq(S) /\ Len(a \o b) = n - 1
      /\ \A k \in 1 .. n - 1 : (a \o b)[k] = IF k <= i - 1 THEN a[k] ELSE b[k - (i - 1)]
  <2>1. (i - 1) + (n - i) = n - 1
    BY <1>1, <1>2
  <2>2. Len(a) + Len(b) = n - 1 /\ Len(a) = i - 1
    BY <1>3, <1>4, <2>1
  <2>3. /\ a \o b \in Seq(S) /\ Len(a \o b) = Len(a) + Len(b)
        /\ \A k \in 1 .. Len(a) + Len(b) : (a \o b)[k] = IF k <= Len(a) THEN a[k] ELSE b[k - Len(a)]
    BY <1>3, <1>4, ConcatProperties
  <2> HIDE DEF n
  <2> QED BY <2>2, <2>3
<1>7. ASSUME NEW k \in 1 .. n - 1 PROVE r[k] = IF k < i THEN q[k] ELSE q[k + 1]
  <2>1. CASE k < i
    <3>1. k \in 1 .. i - 1 /\ k <= i - 1
      BY <1>1, <1>2, <2>1
    <3> QED BY <1>3, <1>5, <1>6, <2>1, <3>1
  <2>2. CASE ~(k < i)
    <3>1. ~(k <= i - 1) /\ k - (i - 1) \in 1 .. n - i /\ i + (k - (i - 1)) = k + 1
      BY <1>1, <1>2, <2>2
    <3>2. r[k] = b[k - (i - 1)]
      BY <1>5, <1>6, <3>1
    <3>3. b[k - (i - 1)] = q[i + (k - (i - 1))]
      BY <1>4, <3>1
    <3> QED BY <2>2, <3>1, <3>2, <3>3
  <2> QED BY <2>1, <2>2
<1>8. DOMAIN r = 1 .. n - 1
  <2>1. Len(r) = n - 1 /\ r \in Seq(S)
    BY <1>5, <1>6
  <2> QED BY <2>1, LenProperties
<1> QED BY <1>1, <1>5, <1>6, <1>7, <1>8 DEF r

LEMMA WithoutIs ==
  ASSUME NEW S, NEW q \in Seq(S), \A i, k \in DOMAIN q : q[i] = q[k] => i = k, NEW s
  PROVE  /\ Ws!Without(q, s) \in Seq(S) /\ Elements(Ws!Without(q, s)) = Elements(q) \ {s}
         /\ \A i, k \in DOMAIN Ws!Without(q, s) : Ws!Without(q, s)[i] = Ws!Without(q, s)[k] => i = k
<1>1. Ws!ToSet(q) = Elements(q)
  BY DEF Ws!ToSet, Elements
<1>2. CASE s \notin Elements(q)
  BY <1>1, <1>2 DEF Ws!Without
<1>3. CASE s \in Elements(q)
  <2> DEFINE i == CHOOSE k \in DOMAIN q : q[k] = s
             n == Len(q)
             r == Ws!RemoveAt(q, i)
  <2>1. i \in DOMAIN q /\ q[i] = s
    BY <1>3 DEF Elements
  <2>2. Ws!Without(q, s) = r
    BY <1>1, <1>3 DEF Ws!Without
  <2>3. n \in Nat /\ DOMAIN q = 1 .. n
    BY LenProperties
  <2> HIDE DEF i
  <2>4. /\ Len(r) = n - 1 /\ r \in Seq(S)
        /\ \A k \in 1 .. n - 1 : r[k] = IF k < i THEN q[k] ELSE q[k + 1]
    BY <2>1, RemovedIs
  <2> HIDE DEF r
  <2>5. \A k \in 1 .. n - 1 : (k < i => k \in 1 .. n) /\ (~(k < i) => k + 1 \in 1 .. n)
    BY <2>1, <2>3
  <2>6. \A k \in 1 .. n : k < i \/ k = i \/ (k - 1 \in 1 .. n - 1 /\ ~(k - 1 < i) /\ (k - 1) + 1 = k)
    BY <2>1, <2>3
  <2>7. \A k \in 1 .. n : k < i => k \in 1 .. n - 1
    BY <2>1, <2>3
  <2>8. n - 1 \in Nat /\ DOMAIN r = 1 .. n - 1
    BY <2>1, <2>3, <2>4, LenProperties
  <2>10. \A k \in 1 .. n - 1 : r[k] \in Elements(q) /\ r[k] # s
    <3> SUFFICES ASSUME NEW k \in 1 .. n - 1 PROVE r[k] \in Elements(q) /\ r[k] # s
      OBVIOUS
    <3>1. CASE k < i
      BY <2>1, <2>3, <2>4, <2>5, <3>1 DEF Elements
    <3>2. CASE ~(k < i)
      <4>1. k + 1 \in 1 .. n /\ k + 1 # i /\ r[k] = q[k + 1]
        BY <2>1, <2>3, <2>4, <2>5, <3>2
      <4> QED BY <2>1, <2>3, <4>1 DEF Elements
    <3> QED BY <3>1, <3>2
  <2>11. \A k \in 1 .. n : q[k] # s => \E m \in 1 .. n - 1 : r[m] = q[k]
    <3> SUFFICES ASSUME NEW k \in 1 .. n, q[k] # s PROVE \E m \in 1 .. n - 1 : r[m] = q[k]
      OBVIOUS
    <3>1. CASE k < i
      BY <2>4, <2>7, <3>1
    <3>2. CASE ~(k < i)
      <4>1. k - 1 \in 1 .. n - 1 /\ ~(k - 1 < i) /\ (k - 1) + 1 = k
        BY <2>1, <2>6, <3>2
      <4>2. r[k - 1] = q[k]
        BY <2>4, <4>1
      <4> QED BY <4>1, <4>2
    <3> QED BY <3>1, <3>2
  <2>12. Elements(r) = Elements(q) \ {s}
    <3>1. ASSUME NEW x \in Elements(r) PROVE x \in Elements(q) \ {s}
      BY <2>8, <2>10, <3>1 DEF Elements
    <3>2. ASSUME NEW x \in Elements(q), x # s PROVE x \in Elements(r)
      <4>1. PICK k \in 1 .. n : q[k] = x
        BY <2>3 DEF Elements
      <4>2. PICK m \in 1 .. n - 1 : r[m] = x
        BY <2>11, <3>2, <4>1
      <4> QED BY <2>8, <4>2 DEF Elements
    <3> QED BY <3>1, <3>2
  <2>13. ASSUME NEW a \in 1 .. n - 1, NEW b \in 1 .. n - 1, r[a] = r[b] PROVE a = b
    <3>1. CASE a < i /\ b < i
      BY <2>3, <2>4, <2>5, <2>13, <3>1
    <3>2. CASE ~(a < i) /\ ~(b < i)
      <4>1. a + 1 = b + 1
        <5>1. a + 1 \in 1 .. n /\ b + 1 \in 1 .. n
          BY <2>5, <3>2
        <5>2. r[a] = q[a + 1] /\ r[b] = q[b + 1]
          BY <2>4, <3>2
        <5> QED BY <2>3, <2>13, <5>1, <5>2
      <4> QED BY <4>1
    <3>3. CASE a < i /\ ~(b < i)
      <4>1. a = b + 1
        BY <2>3, <2>4, <2>5, <2>13, <3>3
      <4> QED BY <2>1, <2>3, <3>3, <4>1
    <3>4. CASE ~(a < i) /\ b < i
      <4>1. b = a + 1
        BY <2>3, <2>4, <2>5, <2>13, <3>4
      <4> QED BY <2>1, <2>3, <3>4, <4>1
    <3> QED BY <3>1, <3>2, <3>3, <3>4
  <2> QED BY <2>2, <2>4, <2>8, <2>12, <2>13
<1> QED BY <1>2, <1>3

LEMMA FeedInit == Ws!Sized /\ Ws!Init => FeedInv
<1> SUFFICES ASSUME Ws!Sized, Ws!Init PROVE FeedInv
  OBVIOUS
<1>1. /\ feedEnv \in [telegrams : Nat, flips : Nat, drops : Nat, habits : SUBSET Ws!Habits]
      /\ job = [j \in Ws!Job |-> [pc |-> "none", todo |-> <<>>, due |-> {}]]
      /\ stored = {} /\ registry = <<0>> /\ filtered = {}
      /\ hook = [timer |-> FALSE, connected |-> FALSE, ws |-> 1]
      /\ got = [t \in Ws!Telegram |-> 0] /\ bus \in [up : BOOLEAN, changes : {0}]
      /\ badge = "none" /\ asked = (IF feedEnv.flips > 0 THEN <<"asked">> ELSE <<>>)
  BY DEF Ws!Init, Ws!Sized, Ws!Other
<1>2. /\ sock = [s \in Ws!Sock |-> sock[s]]
      /\ sock[0] = [client |-> "open", endpoint |-> "receiving", linked |-> TRUE, pipe |-> <<>>]
      /\ \A s \in Ws!Page : /\ sock[s].endpoint = "none" /\ sock[s].linked = FALSE /\ sock[s].pipe = <<>>
                            /\ sock[s] \in Socket /\ sock[s].client \in {"none", "connecting", "closing"}
                            /\ sock[s].client = "connecting" => s = 1
                            /\ sock[s].client = "closing" => ~Reliable
  <2>1. <<>> \in Seq(Sent)
    BY EmptySeq
  <2>2. 0 \in Ws!Sock /\ \A s \in Ws!Page : s \in Ws!Sock /\ s # 0
    BY PageIs
  <2>3. \A s \in Ws!Sock : sock[s] =
       CASE s = 0 -> [Ws!NoSock EXCEPT !.client = "open", !.endpoint = "receiving", !.linked = TRUE]
         [] s = 1 -> [Ws!NoSock EXCEPT !.client = "connecting"]
         [] s = 2 /\ "devMount" \in feedEnv.habits -> [Ws!NoSock EXCEPT !.client = "closing"]
         [] OTHER -> Ws!NoSock
    BY DEF Ws!Init, Ws!Other
  <2>4. sock = [s \in Ws!Sock |-> sock[s]]
    BY DEF Ws!Init
  <2>5. sock[0] = [client |-> "open", endpoint |-> "receiving", linked |-> TRUE, pipe |-> <<>>]
    <3>1. sock[0] = [Ws!NoSock EXCEPT !.client = "open", !.endpoint = "receiving", !.linked = TRUE]
      BY <2>2, <2>3
    <3> QED BY <3>1 DEF Ws!NoSock
  <2>6. ASSUME NEW s \in Ws!Page
        PROVE  /\ sock[s].endpoint = "none" /\ sock[s].linked = FALSE /\ sock[s].pipe = <<>>
               /\ sock[s] \in Socket /\ sock[s].client \in {"none", "connecting", "closing"}
               /\ sock[s].client = "connecting" => s = 1
               /\ sock[s].client = "closing" => ~Reliable
    <3>1. CASE s = 1
      <4>1. sock[s] = [client |-> "connecting", endpoint |-> "none", linked |-> FALSE, pipe |-> <<>>]
        <5>1. sock[s] = [Ws!NoSock EXCEPT !.client = "connecting"]
          BY <2>2, <2>3, <3>1
        <5> QED BY <5>1 DEF Ws!NoSock
      <4> QED BY <2>1, <3>1, <4>1 DEF Socket
    <3>2. CASE s = 2 /\ "devMount" \in feedEnv.habits
      <4>1. sock[s] = [client |-> "closing", endpoint |-> "none", linked |-> FALSE, pipe |-> <<>>]
        <5>1. sock[s] = [Ws!NoSock EXCEPT !.client = "closing"]
          BY <2>2, <2>3, <3>2
        <5> QED BY <5>1 DEF Ws!NoSock
      <4> QED BY <2>1, <3>2, <4>1 DEF Socket, Reliable
    <3>3. CASE s # 1 /\ ~(s = 2 /\ "devMount" \in feedEnv.habits)
      <4>1. sock[s] = [client |-> "none", endpoint |-> "none", linked |-> FALSE, pipe |-> <<>>]
        BY <2>2, <2>3, <3>3 DEF Ws!NoSock
      <4> QED BY <2>1, <3>3, <4>1 DEF Socket
    <3> QED BY <3>1, <3>2, <3>3
  <2> QED BY <2>4, <2>5, <2>6
<1>3. FeedTypes
  <2>1. job \in [Ws!Job -> JobState]
    BY <1>1, EmptySeq DEF JobState
  <2>2. sock[0] \in Socket
    <3>1. <<>> \in Seq(Sent)
      BY EmptySeq
    <3>2. [client |-> "open", endpoint |-> "receiving", linked |-> TRUE, pipe |-> <<>>] \in Socket
      BY <3>1 DEF Socket
    <3> QED BY <1>2, <3>2
  <2>3. sock \in [Ws!Sock -> Socket]
    BY <1>2, <2>2, PageIs
  <2>4. registry \in Seq(Ws!Sock) /\ asked \in Seq({"asked", "up", "down"})
    <3>1. 0 \in Ws!Sock
      BY PageIs
    <3>2. registry \in Seq(Ws!Sock)
      BY <1>1, <3>1
    <3>3. asked = <<"asked">> \/ asked = <<>>
      BY <1>1
    <3>4. asked \in Seq({"asked", "up", "down"})
      <4>1. CASE asked = <<>>
        BY <4>1, EmptySeq
      <4>2. CASE asked = <<"asked">>
        BY <4>2
      <4> QED BY <3>3, <4>1, <4>2
    <3> QED BY <3>2, <3>4
  <2>5. hook \in [timer : BOOLEAN, connected : BOOLEAN, ws : Ws!Page]
    BY <1>1, PageIs
  <2>6. got \in [Ws!Telegram -> Nat] /\ bus \in [up : BOOLEAN, changes : Nat]
    BY <1>1
  <2> QED BY <1>1, <2>1, <2>3, <2>4, <2>5, <2>6 DEF FeedTypes
<1>4. Elements(registry) = {0} /\ \A j \in Ws!Job : job[j].todo = <<>> /\ job[j].pc = "none"
  BY <1>1 DEF Elements
<1>5. Elements(<<>>) = {} /\ Tos(<<>>) = {}
  BY DEF Elements, Tos
<1>6. Sockets
  <2>1. \A s \in Ws!Page : s \notin Elements(registry)
    BY <1>4, PageIs
  <2> QED BY <1>2, <1>4, <1>5, <2>1, PageIs DEF Sockets, Live
<1>7. Registered
  BY <1>1, <1>2, <1>4, PageIs DEF Registered, Ws!Takes
<1>8. Backed /\ Owed
  <2>1. \A t \in Ws!Telegram : got[t] = 0 /\ job[Telling(t)].pc = "none"
    BY <1>1, <1>3, <1>4, JobIs
  <2>2. \A s \in Ws!Sock : Elements(sock[s].pipe) = {}
    BY <1>2, <1>5, PageIs
  <2> QED BY <1>4, <2>1, <2>2 DEF Backed, Owed
<1>9. Alone
  <2>1. \A s \in Ws!Page : Live(s) => s = 1
    BY <1>2 DEF Live
  <2>2. ~hook.timer
    BY <1>1
  <2>3. Reliable => \A s \in Ws!Page : sock[s].client # "closing"
    BY <1>2
  <2> QED BY <2>1, <2>2, <2>3 DEF Alone
<1>10. Once
  <2>1. \A t \in Ws!Telegram : got[t] = 0 /\ job[Telling(t)].todo = <<>>
    BY <1>1, <1>3, <1>4, JobIs
  <2>2. \A s \in Ws!Page : Elements(sock[s].pipe) = {}
    BY <1>2, <1>5
  <2> QED BY <2>1, <2>2 DEF Once, Distinct
<1>11. Connected /\ Told
  <2>1. \A s \in Ws!Page : ~Ws!Takes(s)
    BY <1>2 DEF Ws!Takes
  <2>2. feedEnv.flips > 0 => asked = <<"asked">> /\ asked # <<>> /\ DOMAIN asked = {1}
    BY <1>1
  <2> QED BY <1>1, <2>1, <2>2 DEF Connected, Told, Followed
<1> QED BY <1>3, <1>6, <1>7, <1>8, <1>9, <1>10, <1>11 DEF FeedInv
-----------------------------------------------------------------------------
LEMMA SnapshotIs ==
  ASSUME FeedInv, NEW j \in Ws!Job, job' = Ws!Broadcast(j)
  PROVE  /\ job' \in [Ws!Job -> JobState] /\ job'[j].pc = "sending" /\ Distinct(job'[j].todo)
         /\ Tos(job'[j].todo) = Elements(registry) /\ job'[j].due \subseteq Elements(registry)
         /\ \A k \in Ws!Job \ {j} : job'[k] = job[k]
<1> DEFINE q == [i \in DOMAIN registry |-> [to |-> registry[i], only |-> registry[i] \in filtered]]
           d == {c.to : c \in {x \in Ws!ToSet(q) : Ws!Wanted(j, x)}}
<1>1. job \in [Ws!Job -> JobState] /\ registry \in Seq(Ws!Sock)
  BY DEF FeedInv, FeedTypes
<1>2. DOMAIN registry = 1 .. Len(registry) /\ Len(registry) \in Nat /\ \A i \in DOMAIN registry : registry[i] \in Ws!Sock
  BY <1>1, LenProperties, ElementOfSeq
<1>3. job' = [job EXCEPT ![j] = [pc |-> "sending", todo |-> q, due |-> d]]
  BY DEF Ws!Broadcast
<1>4. q \in Seq(Addressee)
  <2>1. \A i \in DOMAIN registry : q[i] \in Addressee
    BY <1>2 DEF Addressee
  <2> QED BY <1>2, <2>1, SeqDef
<1>5. DOMAIN q = DOMAIN registry /\ \A i \in DOMAIN registry : q[i].to = registry[i]
  OBVIOUS
<1>6. Tos(q) = Elements(registry)
  <2> HIDE DEF q
  <2> QED BY <1>5 DEF Tos, Elements
<1>7. d \subseteq Elements(registry)
  <2> SUFFICES ASSUME NEW x \in d PROVE x \in Tos(q)
    BY <1>6
  <2> HIDE DEF q
  <2>1. PICK c \in Ws!ToSet(q) : x = c.to
    OBVIOUS
  <2> QED BY <2>1 DEF Ws!ToSet, Tos
<1>8. d \subseteq Ws!Sock
  BY <1>2, <1>7 DEF Elements
<1>9. Distinct(q)
  <2>1. \A i, k \in DOMAIN registry : registry[i] = registry[k] => i = k
    BY DEF FeedInv, Registered
  <2> HIDE DEF q
  <2> QED BY <1>5, <2>1 DEF Distinct
<1> HIDE DEF q, d
<1>10. [pc |-> "sending", todo |-> q, due |-> d] \in JobState
  BY <1>4, <1>8 DEF JobState
<1> QED BY <1>1, <1>3, <1>6, <1>7, <1>9, <1>10

(* A task of a telegram gets on without a broadcast: Receive, or the store
   does not take it. *)
LEMMA TaskKeeps ==
  ASSUME FeedInv, NEW t \in Ws!Telegram, Ws!Receive(t) \/ (Ws!StoreAnswers(t) /\ Ws!NotStored(t))
  PROVE  FeedInv'
<1> DEFINE j == Telling(t)
<1>1. /\ UNCHANGED <<feedEnv, stored, registry, filtered, sock, hook, got, bus, badge, asked, losses>>
      /\ job[j].pc # "sending" /\ j \in Ws!Job
      /\ \E p \in {"storing", "failed"} : job' = [job EXCEPT ![j].pc = p]
  BY JobIs DEF FeedInv, Ws!Receive, Ws!StoreAnswers, Ws!NotStored, Ws!page, Ws!status, Telling
<1> HIDE DEF j
<1>2. /\ job' \in [Ws!Job -> JobState] /\ job'[j].pc # "sending"
      /\ \A k \in Ws!Job : job'[k].todo = job[k].todo /\ job'[k].due = job[k].due
      /\ \A k \in Ws!Job \ {j} : job'[k] = job[k]
  <2>1. PICK p \in {"storing", "failed"} : job' = [job EXCEPT ![j].pc = p]
    BY <1>1
  <2>2. job \in [Ws!Job -> JobState]
    BY DEF FeedInv, FeedTypes
  <2> QED BY <1>1, <2>1, <2>2 DEF JobState
<1>3. \A k \in Ws!Job : job'[k].pc = "sending" <=> job[k].pc = "sending"
  BY <1>1, <1>2
<1>4. Ws!Job' = Ws!Job /\ Ws!Telegram' = Ws!Telegram
  BY <1>1 DEF Ws!Job, Ws!Telegram
<1>5. FeedTypes'
  <2>1. Socket' = Socket
    BY <1>4 DEF Socket, Sent
  <2> QED BY <1>1, <1>2, <1>4, <2>1 DEF FeedInv, FeedTypes
<1>6. Sockets' /\ Registered' /\ Alone' /\ Connected'
  BY <1>1, <1>2, <1>4
     DEF FeedInv, Sockets, Registered, Alone, Connected, Live, Ws!Takes, Reliable
<1>7. Backed' /\ Owed'
  BY <1>1, <1>2, <1>3, <1>4, JobIs DEF FeedInv, Backed, Owed, FeedTypes
<1>8. Once'
  BY <1>1, <1>2, <1>3, <1>4, JobIs DEF FeedInv, Once, Live, Reliable, OnWay
<1>9. Told'
  <2>1. \A s : WillHear(s)' <=> WillHear(s)
    BY <1>1, <1>2, JobIs DEF FeedInv, WillHear
  <2> QED BY <1>1, <2>1 DEF FeedInv, Told, Right, Followed, Ws!Takes
<1> QED BY <1>5, <1>6, <1>7, <1>8, <1>9 DEF FeedInv

(* A broadcast is begun, of a telegram that is stored now ... *)
LEMMA BroadcastBegins ==
  ASSUME FeedInv, NEW t \in Ws!Telegram, Ws!StoreAnswers(t), ~Ws!NotStored(t)
  PROVE  FeedInv'
<1> DEFINE j == Telling(t)
<1>1. /\ UNCHANGED <<feedEnv, registry, filtered, sock, hook, got, bus, badge, asked, losses>>
      /\ job[j].pc # "sending" /\ j \in Ws!Job /\ job' = Ws!Broadcast(j) /\ stored' = stored \cup {t}
  BY JobIs DEF FeedInv, Ws!StoreAnswers, Ws!page, Ws!status, Telling
<1> HIDE DEF j
<1>2. /\ job' \in [Ws!Job -> JobState] /\ job'[j].pc = "sending" /\ Distinct(job'[j].todo)
      /\ Tos(job'[j].todo) = Elements(registry) /\ job'[j].due \subseteq Elements(registry)
      /\ \A k \in Ws!Job \ {j} : job'[k] = job[k]
  BY <1>1, SnapshotIs
<1>4. Ws!Job' = Ws!Job /\ Ws!Telegram' = Ws!Telegram
  BY <1>1 DEF Ws!Job, Ws!Telegram
<1>5. FeedTypes'
  <2>1. Socket' = Socket
    BY <1>4 DEF Socket, Sent
  <2> QED BY <1>1, <1>2, <1>4, <2>1 DEF FeedInv, FeedTypes
<1>6. Sockets'
  <2>1. \A s \in Ws!Sock, k \in Ws!Job : sock[s].endpoint = "none" => s \notin Tos(job'[k].todo)
    BY <1>1, <1>2 DEF FeedInv, Sockets
  <2> QED BY <1>1, <1>4, <2>1 DEF FeedInv, Sockets, Live
<1>7. Registered' /\ Alone' /\ Connected'
  BY <1>1, <1>4
     DEF FeedInv, Registered, Alone, Connected, Live, Ws!Takes, Reliable
<1>8. Backed' /\ Owed'
  <2>1. \A u \in Ws!Telegram \ {t} : Telling(u) \in Ws!Job \ {j}
    BY JobIs DEF FeedInv, Telling, j
  <2>2. Backed'
    BY <1>1, <1>2, <1>4, <2>1 DEF FeedInv, Backed
  <2>3. Owed'
    BY <1>2, <1>4 DEF FeedInv, Owed
  <2> QED BY <2>2, <2>3
<1>9. Once'
  <2> SUFFICES ASSUME Reliable, NEW u \in Ws!Telegram
               PROVE  /\ got[u] \in {0, 1} /\ Distinct(job'[Telling(u)].todo)
                      /\ got[u] = 1 => job'[Telling(u)].pc = "sending"
                      /\ \A s \in Ws!Page :
                           /\ Telling(u) \in Elements(sock[s].pipe) =>
                                /\ got[u] = 0 /\ s \notin Tos(job'[Telling(u)].todo)
                                /\ job'[Telling(u)].pc = "sending" /\ OnWay(u, sock[s].pipe)
                           /\ got[u] = 1 /\ Live(s) => s \notin Tos(job'[Telling(u)].todo)
    BY <1>1, <1>4 DEF Once, Reliable, Live, OnWay
  <2>1. CASE u = t
    <3>1. got[t] = 0 /\ \A s \in Ws!Page : Telling(t) \notin Elements(sock[s].pipe)
      BY <1>1, <2>1 DEF FeedInv, Once, j
    <3> QED BY <1>2, <2>1, <3>1 DEF j
  <2>2. CASE u # t
    <3>1. Telling(u) \in Ws!Job \ {j}
      BY <2>2, JobIs DEF FeedInv, Telling, j
    <3> QED BY <1>2, <3>1 DEF FeedInv, Once
  <2> QED BY <2>1, <2>2
<1>10. Told'
  <2>1. \A s : WillHear(s)' <=> WillHear(s)
    <3>1. \A f \in 1 .. feedEnv.flips : <<"state", f>> \in Ws!Job \ {j}
      BY JobIs DEF FeedInv, Telling, j
    <3> QED BY <1>1, <1>2, <3>1 DEF WillHear
  <2> QED BY <1>1, <2>1 DEF FeedInv, Told, Right, Followed, Ws!Takes
<1> QED BY <1>5, <1>6, <1>7, <1>8, <1>9, <1>10 DEF FeedInv

(* ... or of a change of the bus connection. *)
LEMMA BusKeeps ==
  ASSUME FeedInv, Ws!BusChanges
  PROVE  FeedInv'
<1> DEFINE j == <<"state", bus.changes + 1>>
<1>1. /\ UNCHANGED <<feedEnv, stored, registry, filtered, sock, hook, got, badge, asked, losses>>
      /\ bus' = [up |-> ~bus.up, changes |-> bus.changes + 1] /\ job' = Ws!Broadcast(j)
      /\ bus.changes + 1 \in 1 .. feedEnv.flips
  BY DEF FeedInv, FeedTypes, Ws!BusChanges, Ws!page, Ws!status
<1>2. j \in Ws!Job /\ \A t \in Ws!Telegram : Telling(t) \in Ws!Job \ {j}
  BY <1>1, JobIs DEF FeedInv, Telling
<1>3. /\ job' \in [Ws!Job -> JobState] /\ job'[j].pc = "sending" /\ Distinct(job'[j].todo)
      /\ Tos(job'[j].todo) = Elements(registry) /\ job'[j].due \subseteq Elements(registry)
      /\ \A k \in Ws!Job \ {j} : job'[k] = job[k]
  BY <1>1, <1>2, SnapshotIs
<1>4. Ws!Job' = Ws!Job /\ Ws!Telegram' = Ws!Telegram
  BY <1>1 DEF Ws!Job, Ws!Telegram
<1>5. FeedTypes'
  <2>1. bus' \in [up : BOOLEAN, changes : Nat]
    BY <1>1 DEF FeedInv, FeedTypes
  <2>2. Socket' = Socket
    BY <1>4 DEF Socket, Sent
  <2> QED BY <1>1, <1>3, <1>4, <2>1, <2>2 DEF FeedInv, FeedTypes
<1>6. \A f \in 1 .. feedEnv.flips : <<"state", f>> = j \/ <<"state", f>> \in Ws!Job \ {j}
  BY JobIs DEF FeedInv
<1> HIDE DEF j
<1>7. Sockets'
  <2>1. \A s \in Ws!Sock, k \in Ws!Job : sock[s].endpoint = "none" => s \notin Tos(job'[k].todo)
    BY <1>2, <1>3 DEF FeedInv, Sockets
  <2> QED BY <1>1, <1>4, <2>1 DEF FeedInv, Sockets, Live
<1>8. Registered' /\ Alone' /\ Connected'
  BY <1>1, <1>4 DEF FeedInv, Registered, Alone, Connected, Live, Ws!Takes, Reliable
<1>9. Backed' /\ Owed'
  BY <1>1, <1>2, <1>3, <1>4 DEF FeedInv, Backed, Owed
<1>10. Once'
  BY <1>1, <1>2, <1>3, <1>4 DEF FeedInv, Once, Live, Reliable, OnWay
<1>11. Told'
  <2>1. \A s \in Ws!Page : Ws!Takes(s) => WillHear(s)'
    <3> SUFFICES ASSUME NEW s \in Ws!Page, Ws!Takes(s) PROVE WillHear(s)'
      OBVIOUS
    <3>1. s \in Tos(job'[j].todo)
      BY <1>3, PageIs DEF FeedInv, Registered
    <3> QED BY <1>1, <3>1 DEF WillHear, j
  <2> QED BY <1>1, <2>1 DEF FeedInv, Told, Followed, Ws!Takes
<1> QED BY <1>5, <1>7, <1>8, <1>9, <1>10, <1>11 DEF FeedInv

(* One round of the loop: the first of the snapshot is dealt with. *)
LEMMA LoopAdvances ==
  ASSUME FeedInv, NEW j \in Ws!Job, Ws!SendNext(j)
  PROVE  /\ UNCHANGED <<feedEnv, stored, hook, got, bus, badge, asked, losses>>
         /\ job[j].todo \in Seq(Addressee) /\ job[j].todo # <<>> /\ job[j].pc = "sending"
         /\ job' \in [Ws!Job -> JobState] /\ job'[j].pc = "sending" /\ job'[j].todo = Tail(job[j].todo)
         /\ job'[j].due = job[j].due \ {job[j].todo[1].to} /\ Head(job[j].todo) = job[j].todo[1]
         /\ job[j].todo[1].to \in Ws!Sock
         /\ \A k \in Ws!Job \ {j} : job'[k] = job[k]
         /\ Tos(job[j].todo) = {job[j].todo[1].to} \cup Tos(job'[j].todo)
         /\ Distinct(job[j].todo) => job[j].todo[1].to \notin Tos(job'[j].todo) /\ Distinct(job'[j].todo)
<1> DEFINE q == job[j].todo
<1>1. /\ job \in [Ws!Job -> JobState] /\ q \in Seq(Addressee) /\ q # <<>> /\ job[j].pc = "sending"
  BY DEF FeedInv, FeedTypes, JobState, Ws!SendNext
<1>2. /\ Head(q) = q[1] /\ q[1] \in Addressee /\ Tail(q) \in Seq(Addressee)
      /\ Len(q) \in Nat \ {0} /\ DOMAIN q = 1 .. Len(q) /\ DOMAIN Tail(q) = 1 .. Len(q) - 1
      /\ \A i \in 1 .. Len(q) - 1 : Tail(q)[i] = q[i + 1]
      /\ Tos(q) = {q[1].to} \cup Tos(Tail(q))
  BY <1>1, Beheaded
<1>3. /\ UNCHANGED <<feedEnv, stored, hook, got, bus, badge, asked, losses>>
      /\ job' = [job EXCEPT ![j].todo = Tail(@), ![j].due = @ \ {q[1].to}]
  BY <1>2 DEF Ws!SendNext, Ws!AfterRaise, Ws!page, Ws!status
<1>4. /\ job' \in [Ws!Job -> JobState] /\ job'[j].pc = "sending" /\ job'[j].todo = Tail(q)
      /\ job'[j].due = job[j].due \ {q[1].to} /\ \A k \in Ws!Job \ {j} : job'[k] = job[k]
  <2> HIDE DEF q
  <2>1. q = job[j].todo
    BY DEF q
  <2> QED BY <1>1, <1>2, <1>3, <2>1 DEF JobState
<1>5. ASSUME Distinct(q) PROVE q[1].to \notin Tos(Tail(q)) /\ Distinct(Tail(q))
  <2> DEFINE r == Tail(q)
             n == Len(q)
  <2>1. /\ n \in Nat /\ DOMAIN q = 1 .. n /\ DOMAIN r = 1 .. n - 1
        /\ \A i \in 1 .. n - 1 : r[i] = q[i + 1]
    BY <1>2
  <2>2. \A i, k \in 1 .. n : q[i].to = q[k].to => i = k
    BY <1>5, <2>1 DEF Distinct
  <2> HIDE DEF q, r, n
  <2>3. \A i \in 1 .. n - 1 : i + 1 \in 1 .. n /\ i + 1 # 1 /\ 1 \in 1 .. n
    BY <2>1
  <2>4. q[1].to \notin Tos(r)
    BY <2>1, <2>2, <2>3 DEF Tos
  <2>5. ASSUME NEW i \in 1 .. n - 1, NEW k \in 1 .. n - 1, r[i].to = r[k].to PROVE i = k
    <3>1. i + 1 = k + 1
      BY <2>1, <2>2, <2>3, <2>5
    <3> QED BY <3>1
  <2>6. Distinct(r)
    BY <2>1, <2>5 DEF Distinct
  <2> QED BY <2>4, <2>6 DEF r
<1>6. q[1].to \in Ws!Sock
  BY <1>2 DEF Addressee
<1> QED BY <1>1, <1>2, <1>3, <1>4, <1>5, <1>6

(* The message is lost, not wanted, or for the other client; or the send
   raises, and the connection is unregistered. *)
LEMMA SkipKeeps ==
  ASSUME FeedInv, NEW j \in Ws!Job, Ws!SendNext(j), UNCHANGED sock
  PROVE  FeedInv'
<1> DEFINE to == job[j].todo[1].to
<1>1. /\ UNCHANGED <<feedEnv, stored, sock, hook, got, bus, badge, asked, losses>>
      /\ job' \in [Ws!Job -> JobState] /\ job'[j].pc = "sending" /\ job[j].pc = "sending"
      /\ job'[j].due = job[j].due \ {to} /\ Tos(job[j].todo) = {to} \cup Tos(job'[j].todo)
      /\ Distinct(job[j].todo) => Distinct(job'[j].todo)
      /\ \A k \in Ws!Job \ {j} : job'[k] = job[k]
      /\ to \in Ws!Sock /\ job[j].todo \in Seq(Addressee)
  BY LoopAdvances
<1>2. Ws!Job' = Ws!Job /\ Ws!Telegram' = Ws!Telegram
  BY <1>1 DEF Ws!Job, Ws!Telegram
<1>3. /\ registry' \in Seq(Ws!Sock) /\ Registered' /\ Elements(registry') \subseteq Elements(registry)
      /\ filtered' \subseteq Ws!Sock
  <2>1. CASE UNCHANGED <<registry, filtered>>
    BY <1>1, <2>1 DEF FeedInv, FeedTypes, Registered, Ws!Takes
  <2>2. CASE registry' = Ws!Without(registry, to) /\ filtered' = filtered \ {to} /\ ~Ws!Takes(to)
    <3>1. /\ registry' \in Seq(Ws!Sock) /\ Elements(registry') = Elements(registry) \ {to}
          /\ \A i, k \in DOMAIN registry' : registry'[i] = registry'[k] => i = k
      <4>1. PICK q \in Seq(Ws!Sock) : q = registry
        BY DEF FeedInv, FeedTypes
      <4>2. \A i, k \in DOMAIN q : q[i] = q[k] => i = k
        BY <4>1 DEF FeedInv, Registered
      <4> QED BY <2>2, <4>1, <4>2, WithoutIs
    <3>2. filtered \subseteq Elements(registry) /\ \A s \in Ws!Sock : Ws!Takes(s) => s \in Elements(registry)
      BY DEF FeedInv, Registered
    <3>3. \A s : Ws!Takes(s)' = Ws!Takes(s)
      BY <1>1 DEF Ws!Takes
    <3> QED BY <2>2, <3>1, <3>2, <3>3 DEF FeedInv, FeedTypes, Registered
  <2>3. \/ UNCHANGED <<registry, filtered>>
        \/ registry' = Ws!Without(registry, to) /\ filtered' = filtered \ {to} /\ ~Ws!Takes(to)
    BY LoopAdvances DEF Ws!SendNext, Ws!Disconnect
  <2> QED BY <2>1, <2>2, <2>3
<1>4. FeedTypes'
  <2>1. Socket' = Socket
    BY <1>2 DEF Socket, Sent
  <2> QED BY <1>1, <1>2, <1>3, <2>1 DEF FeedInv, FeedTypes
<1>5. \A k \in Ws!Job : /\ Tos(job'[k].todo) \subseteq Tos(job[k].todo) /\ job'[k].pc = job[k].pc
                        /\ Distinct(job[k].todo) => Distinct(job'[k].todo)
  BY <1>1
<1>6. Sockets'
  BY <1>1, <1>2, <1>3, <1>5 DEF FeedInv, Sockets, Live
<1>7. Backed' /\ Owed' /\ Alone' /\ Connected'
  <2>1. Backed'
    BY <1>1, <1>2, <1>5, JobIs DEF FeedInv, Backed
  <2>2. Owed'
    BY <1>1, <1>2 DEF FeedInv, Owed
  <2> QED BY <1>1, <2>1, <2>2 DEF FeedInv, Alone, Connected, Live, Reliable
<1>8. Once'
  BY <1>1, <1>2, <1>5, JobIs DEF FeedInv, Once, Live, Reliable, OnWay
<1>9. Told'
  <2>1. ASSUME Followed, NEW s \in Ws!Page, Ws!Takes(s), WillHear(s) PROVE WillHear(s)'
    <3>1. CASE \E i \in DOMAIN sock[s].pipe : sock[s].pipe[i][1] = "state"
      BY <1>1, <3>1 DEF WillHear
    <3>2. CASE \E f \in 1 .. feedEnv.flips : s \in Tos(job[<<"state", f>>].todo)
      <4>1. PICK f \in 1 .. feedEnv.flips : s \in Tos(job[<<"state", f>>].todo)
        BY <3>2
      <4>2. CASE j # <<"state", f>>
        BY <1>1, <4>1, <4>2, JobIs DEF FeedInv, WillHear
      <4>3. CASE j = <<"state", f>> /\ s # to
        BY <1>1, <4>1, <4>3 DEF WillHear
      <4>4. CASE j = <<"state", f>> /\ s = to
        <5>1. Ws!Wanted(j, job[j].todo[1]) /\ Ws!Takes(s) /\ s # 0 /\ Head(job[j].todo) = job[j].todo[1]
          BY <2>1, <4>4, PageIs, LoopAdvances DEF Ws!Wanted, Ws!Passes
        <5>2. sock' = [sock EXCEPT ![s].pipe = Append(@, Ws!Message(j))]
          BY <4>4, <5>1, PageIs DEF Ws!SendNext
        <5>3. sock'[s].pipe = Append(sock[s].pipe, Ws!Message(j))
          BY <5>2, PageIs DEF FeedInv, FeedTypes, Socket
        <5>4. sock[s].pipe \in Seq(Sent) /\ Ws!Message(j) \in Sent
          BY MessageIs, PageIs DEF FeedInv, FeedTypes, Socket
        <5> QED BY <1>1, <5>3, <5>4, Appended
      <4> QED BY <4>2, <4>3, <4>4
    <3> QED BY <2>1, <3>1, <3>2 DEF WillHear
  <2> QED BY <1>1, <2>1 DEF FeedInv, Told, Right, Followed, Ws!Takes
<1> QED BY <1>3, <1>4, <1>6, <1>7, <1>8, <1>9 DEF FeedInv

(* A socket of the page takes the message. *)
LEMMA SendKeeps ==
  ASSUME FeedInv, NEW j \in Ws!Job, Ws!SendNext(j)
  PROVE  FeedInv'
<1> DEFINE to == job[j].todo[1].to
           m == Ws!Message(j)
<1>1. /\ UNCHANGED <<feedEnv, stored, hook, got, bus, badge, asked, losses>>
      /\ job' \in [Ws!Job -> JobState] /\ job'[j].pc = "sending" /\ job[j].pc = "sending"
      /\ job'[j].due = job[j].due \ {to} /\ Tos(job[j].todo) = {to} \cup Tos(job'[j].todo)
      /\ Distinct(job[j].todo) => to \notin Tos(job'[j].todo) /\ Distinct(job'[j].todo)
      /\ \A k \in Ws!Job \ {j} : job'[k] = job[k]
      /\ to \in Ws!Sock
  BY LoopAdvances
<1>2. \/ UNCHANGED sock
      \/ /\ Ws!Takes(to) /\ to # 0 /\ UNCHANGED <<registry, filtered>>
         /\ sock' = [sock EXCEPT ![to].pipe = Append(@, m)]
  BY LoopAdvances, PageIs DEF Ws!SendNext
<1>3. SUFFICES ASSUME Ws!Takes(to), to # 0, UNCHANGED <<registry, filtered>>,
                      sock' = [sock EXCEPT ![to].pipe = Append(@, m)]
               PROVE  FeedInv'
  BY <1>2, SkipKeeps
<1>4. to \in Ws!Page /\ Live(to) /\ sock[to] \in Socket /\ sock[to].pipe \in Seq(Sent) /\ m \in Sent
  BY <1>1, <1>3, PageIs, MessageIs DEF FeedInv, FeedTypes, Socket, Sockets, Ws!Takes
<1>5. /\ Append(sock[to].pipe, m) \in Seq(Sent)
      /\ Elements(Append(sock[to].pipe, m)) = Elements(sock[to].pipe) \cup {m}
  BY <1>4, Appended
<1>6. /\ sock' \in [Ws!Sock -> Socket] /\ sock'[to].pipe = Append(sock[to].pipe, m)
      /\ \A s \in Ws!Sock : /\ sock'[s].client = sock[s].client /\ sock'[s].endpoint = sock[s].endpoint
                            /\ sock'[s].linked = sock[s].linked
      /\ \A s \in Ws!Sock \ {to} : sock'[s] = sock[s]
  <2>1. sock \in [Ws!Sock -> Socket]
    BY DEF FeedInv, FeedTypes
  <2>2. sock' = [sock EXCEPT ![to] = [sock[to] EXCEPT !.pipe = Append(sock[to].pipe, m)]]
    BY <1>1, <1>3, <2>1
  <2>3. /\ [sock[to] EXCEPT !.pipe = Append(sock[to].pipe, m)] \in Socket
        /\ [sock[to] EXCEPT !.pipe = Append(sock[to].pipe, m)].pipe = Append(sock[to].pipe, m)
        /\ [sock[to] EXCEPT !.pipe = Append(sock[to].pipe, m)].client = sock[to].client
        /\ [sock[to] EXCEPT !.pipe = Append(sock[to].pipe, m)].endpoint = sock[to].endpoint
        /\ [sock[to] EXCEPT !.pipe = Append(sock[to].pipe, m)].linked = sock[to].linked
    BY <1>4, <1>5 DEF Socket
  <2> QED BY <1>1, <2>1, <2>2, <2>3
<1>7. /\ \A s \in Ws!Sock : /\ Ws!Takes(s)' = Ws!Takes(s) /\ Live(s)' = Live(s)
                            /\ Elements(sock'[s].pipe) \subseteq Elements(sock[s].pipe) \cup {m}
                            /\ s # to => sock'[s].pipe = sock[s].pipe
      /\ \A k \in Ws!Job : /\ Tos(job'[k].todo) \subseteq Tos(job[k].todo) /\ job'[k].pc = job[k].pc
                           /\ Distinct(job[k].todo) => Distinct(job'[k].todo)
      /\ Elements(sock'[to].pipe) = Elements(sock[to].pipe) \cup {m}
  BY <1>1, <1>5, <1>6 DEF Ws!Takes, Live
<1> HIDE DEF to, m
<1>8. Ws!Job' = Ws!Job /\ Ws!Telegram' = Ws!Telegram
  BY <1>1 DEF Ws!Job, Ws!Telegram
<1>9. FeedTypes'
  <2>1. Socket' = Socket
    BY <1>8 DEF Socket, Sent
  <2> QED BY <1>1, <1>3, <1>6, <1>8, <2>1 DEF FeedInv, FeedTypes
<1>10. Sockets'
  <2>1. sock'[0] = sock[0]
    BY <1>3, <1>6, PageIs
  <2>2. ASSUME NEW s \in Ws!Sock
        PROVE  /\ sock'[s].linked => sock'[s].endpoint = "receiving" /\ Live(s)'
               /\ sock'[s].pipe # <<>> => Live(s)'
               /\ sock'[s].endpoint = "none" =>
                    /\ sock'[s].pipe = <<>> /\ s \notin Elements(registry)
                    /\ \A k \in Ws!Job : s \notin Tos(job'[k].todo)
    <3>1. CASE s = to
      BY <1>3, <1>4, <1>6, <1>7, <3>1 DEF FeedInv, Sockets, Ws!Takes
    <3>2. CASE s # to
      <4>1. sock'[s] = sock[s]
        BY <1>6, <3>2
      <4> QED BY <1>7, <4>1 DEF FeedInv, Sockets
    <3> QED BY <3>1, <3>2
  <2> QED BY <1>3, <1>8, <2>1, <2>2 DEF FeedInv, Sockets
<1>11. Registered' /\ Alone' /\ Connected'
  BY <1>1, <1>3, <1>6, <1>7, PageIs DEF FeedInv, Registered, Alone, Connected, Reliable
<1>12. Backed'
  <2>1. \A t \in Ws!Telegram : t \notin stored => m # Telling(t)
    BY <1>1, MessageIs DEF FeedInv, Backed, m
  <2> QED BY <1>1, <1>7, <1>8, <2>1, JobIs DEF FeedInv, Backed
<1>13. Owed'
  BY <1>1, <1>8 DEF FeedInv, Owed
<1>14. Once'
  <2> SUFFICES ASSUME Reliable, NEW t \in Ws!Telegram
               PROVE  /\ got[t] \in {0, 1} /\ Distinct(job'[Telling(t)].todo)
                      /\ got[t] = 1 => job'[Telling(t)].pc = "sending"
                      /\ \A s \in Ws!Page :
                           /\ Telling(t) \in Elements(sock'[s].pipe) =>
                                /\ got[t] = 0 /\ s \notin Tos(job'[Telling(t)].todo)
                                /\ job'[Telling(t)].pc = "sending" /\ OnWay(t, sock'[s].pipe)
                           /\ got[t] = 1 /\ Live(s)' => s \notin Tos(job'[Telling(t)].todo)
    BY <1>1, <1>8 DEF Once, Reliable, OnWay
  <2>1. Telling(t) \in Ws!Job
    BY JobIs DEF FeedInv
  <2>2. CASE m # Telling(t)
    <3>1. ASSUME NEW s \in Ws!Page, Telling(t) \in Elements(sock'[s].pipe) PROVE OnWay(t, sock'[s].pipe)
      <4>1. CASE s # to
        BY <1>7, <3>1, <4>1, PageIs DEF FeedInv, Once
      <4>2. CASE s = to
        <5>1. Telling(t) \in Elements(sock[to].pipe)
          BY <1>7, <2>2, <3>1, <4>2
        <5>2. PICK i \in DOMAIN sock[to].pipe :
                sock[to].pipe[i] = Telling(t) /\ \A k \in DOMAIN sock[to].pipe : sock[to].pipe[k] = Telling(t) => k = i
          BY <1>4, <5>1 DEF FeedInv, Once, OnWay
        <5>3. /\ Len(sock[to].pipe) \in Nat /\ DOMAIN sock[to].pipe = 1 .. Len(sock[to].pipe)
              /\ DOMAIN sock'[to].pipe = 1 .. Len(sock[to].pipe) + 1
              /\ \A k \in 1 .. Len(sock[to].pipe) : sock'[to].pipe[k] = sock[to].pipe[k]
              /\ sock'[to].pipe[Len(sock[to].pipe) + 1] = m
          BY <1>4, <1>6, Appended
        <5>4. \A k \in 1 .. Len(sock[to].pipe) + 1 : k \in 1 .. Len(sock[to].pipe) \/ k = Len(sock[to].pipe) + 1
          BY <5>3
        <5>5. i \in 1 .. Len(sock[to].pipe) + 1
          BY <5>3
        <5>6. sock'[to].pipe[i] = Telling(t)
          BY <5>2, <5>3
        <5>7. \A k \in DOMAIN sock'[to].pipe : sock'[to].pipe[k] = Telling(t) => k = i
          BY <2>2, <5>2, <5>3, <5>4
        <5> QED BY <4>2, <5>3, <5>5, <5>6, <5>7 DEF OnWay
      <4> QED BY <4>1, <4>2
    <3>2. \A s \in Ws!Page : Telling(t) \in Elements(sock'[s].pipe) => Telling(t) \in Elements(sock[s].pipe)
      BY <1>7, <2>2, PageIs
    <3>3. /\ got[t] \in {0, 1} /\ Distinct(job[Telling(t)].todo)
          /\ got[t] = 1 => job[Telling(t)].pc = "sending"
          /\ \A s \in Ws!Page :
               /\ Telling(t) \in Elements(sock[s].pipe) =>
                    got[t] = 0 /\ s \notin Tos(job[Telling(t)].todo) /\ job[Telling(t)].pc = "sending"
               /\ got[t] = 1 /\ Live(s) => s \notin Tos(job[Telling(t)].todo)
      BY DEF FeedInv, Once
    <3>4. /\ Tos(job'[Telling(t)].todo) \subseteq Tos(job[Telling(t)].todo)
          /\ job'[Telling(t)].pc = job[Telling(t)].pc /\ Distinct(job'[Telling(t)].todo)
          /\ \A s \in Ws!Page : Live(s)' = Live(s)
      BY <1>7, <2>1, <3>3, PageIs
    <3> QED BY <3>1, <3>2, <3>3, <3>4
  <2>3. CASE m = Telling(t)
    <3>1. j = Telling(t) /\ to \in Tos(job[j].todo)
      BY <1>1, <2>3, MessageIs DEF FeedInv, m
    <3>2. got[t] = 0 /\ Telling(t) \notin Elements(sock[to].pipe)
      BY <1>4, <3>1 DEF FeedInv, Once
    <3>3. ASSUME NEW s \in Ws!Page, s # to PROVE Elements(sock[s].pipe) = {}
      <4>1. ~Live(s)
        BY <1>4, <3>3 DEF FeedInv, Alone
      <4>2. sock[s].pipe = <<>>
        BY <4>1, PageIs DEF FeedInv, Sockets
      <4> QED BY <4>2 DEF Elements
    <3>4. OnWay(t, sock'[to].pipe)
      <4>1. /\ Len(sock[to].pipe) \in Nat /\ DOMAIN sock[to].pipe = 1 .. Len(sock[to].pipe)
            /\ DOMAIN sock'[to].pipe = 1 .. Len(sock[to].pipe) + 1
            /\ \A k \in 1 .. Len(sock[to].pipe) : sock'[to].pipe[k] = sock[to].pipe[k]
            /\ sock'[to].pipe[Len(sock[to].pipe) + 1] = m
        BY <1>4, <1>6, Appended
      <4>2. /\ \A k \in 1 .. Len(sock[to].pipe) + 1 : k \in 1 .. Len(sock[to].pipe) \/ k = Len(sock[to].pipe) + 1
            /\ Len(sock[to].pipe) + 1 \in 1 .. Len(sock[to].pipe) + 1
        BY <4>1
      <4>3. \A k \in 1 .. Len(sock[to].pipe) : sock[to].pipe[k] # Telling(t)
        BY <3>2, <4>1 DEF Elements
      <4> QED BY <2>3, <4>1, <4>2, <4>3 DEF OnWay
    <3>5. to \notin Tos(job'[j].todo) /\ Distinct(job'[j].todo)
      BY <1>1, <3>1 DEF FeedInv, Once
    <3>6. \A s \in Ws!Page : Telling(t) \in Elements(sock'[s].pipe) => s = to
      BY <1>7, <3>3, PageIs
    <3> QED BY <1>1, <3>1, <3>2, <3>4, <3>5, <3>6
  <2> QED BY <2>2, <2>3
<1>15. Told'
  <2>1. ASSUME Followed, NEW s \in Ws!Page, Ws!Takes(s), WillHear(s) PROVE WillHear(s)'
    <3>1. /\ Len(sock[to].pipe) \in Nat /\ DOMAIN sock[to].pipe = 1 .. Len(sock[to].pipe)
          /\ DOMAIN sock'[to].pipe = 1 .. Len(sock[to].pipe) + 1
          /\ \A k \in 1 .. Len(sock[to].pipe) : sock'[to].pipe[k] = sock[to].pipe[k]
          /\ sock'[to].pipe[Len(sock[to].pipe) + 1] = m
      BY <1>4, <1>6, Appended
    <3>2. Len(sock[to].pipe) + 1 \in 1 .. Len(sock[to].pipe) + 1 /\ 1 .. Len(sock[to].pipe) \subseteq 1 .. Len(sock[to].pipe) + 1
      BY <3>1
    <3>3. CASE \E i \in DOMAIN sock[s].pipe : sock[s].pipe[i][1] = "state"
      <4>1. \E i \in DOMAIN sock'[s].pipe : sock'[s].pipe[i][1] = "state"
        <5>1. CASE s = to
          <6>1. PICK i \in 1 .. Len(sock[to].pipe) : sock[to].pipe[i][1] = "state"
            BY <3>1, <3>3, <5>1
          <6>2. i \in DOMAIN sock'[to].pipe /\ sock'[to].pipe[i] = sock[to].pipe[i]
            BY <3>1, <3>2
          <6> QED BY <5>1, <6>1, <6>2
        <5>2. CASE s # to
          BY <1>7, <3>3, <5>2, PageIs
        <5> QED BY <5>1, <5>2
      <4> QED BY <4>1 DEF WillHear
    <3>4. CASE \E f \in 1 .. feedEnv.flips : s \in Tos(job[<<"state", f>>].todo)
      <4>1. PICK f \in 1 .. feedEnv.flips : s \in Tos(job[<<"state", f>>].todo)
        BY <3>4
      <4>2. CASE j # <<"state", f>>
        BY <1>1, <4>1, <4>2, JobIs DEF FeedInv, WillHear
      <4>3. CASE j = <<"state", f>> /\ s # to
        BY <1>1, <4>1, <4>3 DEF WillHear
      <4>4. CASE j = <<"state", f>> /\ s = to
        <5>1. m[1] = "state"
          BY <4>4, MessageIs DEF FeedInv, m
        <5> QED BY <3>1, <3>2, <4>4, <5>1 DEF WillHear
      <4> QED BY <4>2, <4>3, <4>4
    <3> QED BY <2>1, <3>3, <3>4 DEF WillHear
  <2> QED BY <1>1, <1>7, <2>1, PageIs DEF FeedInv, Told, Right, Followed
<1> QED BY <1>9, <1>10, <1>11, <1>12, <1>13, <1>14, <1>15 DEF FeedInv

LEMMA SocketBecomes ==
  ASSUME FeedInv, NEW s \in Ws!Sock, NEW r \in Socket, sock' = [sock EXCEPT ![s] = r]
  PROVE  sock' \in [Ws!Sock -> Socket] /\ sock'[s] = r /\ \A q \in Ws!Sock \ {s} : sock'[q] = sock[q]
BY DEF FeedInv, FeedTypes

LEMMA PipeIs ==
  ASSUME FeedInv, NEW s \in Ws!Sock
  PROVE  /\ sock[s] \in Socket /\ sock[s].pipe \in Seq(Sent)
         /\ sock[s] = [client |-> sock[s].client, endpoint |-> sock[s].endpoint,
                       linked |-> sock[s].linked, pipe |-> sock[s].pipe]
BY DEF FeedInv, FeedTypes, Socket

(* The other client sets its filters. *)
LEMMA FiltersKeep ==
  ASSUME FeedInv, Ws!UpdateFilters
  PROVE  FeedInv'
<1>1. /\ UNCHANGED <<feedEnv, job, stored, sock, hook, got, bus, badge, asked, losses>>
      /\ Ws!Takes(0) /\ filtered' = {0}
      /\ registry' = (IF 0 \in Elements(registry) THEN registry ELSE Append(registry, 0))
  BY PageIs DEF Ws!UpdateFilters, Ws!page, Ws!status, Ws!ToSet, Elements
<1>2. 0 \in Elements(registry) /\ registry' = registry
  BY <1>1, PageIs DEF FeedInv, Registered
<1>3. Ws!Job' = Ws!Job /\ Ws!Telegram' = Ws!Telegram
  BY <1>1 DEF Ws!Job, Ws!Telegram
<1>4. FeedTypes'
  <2>1. Socket' = Socket
    BY <1>3 DEF Socket, Sent
  <2> QED BY <1>1, <1>2, <1>3, <2>1, PageIs DEF FeedInv, FeedTypes
<1>5. Sockets' /\ Registered'
  BY <1>1, <1>2, <1>3 DEF FeedInv, Sockets, Registered, Live, Ws!Takes
<1>6. Backed' /\ Owed' /\ Alone' /\ Connected'
  BY <1>1, <1>3 DEF FeedInv, Backed, Owed, Alone, Connected, Live, Reliable
<1>7. Once'
  BY <1>1, <1>3 DEF FeedInv, Once, Live, Reliable, OnWay
<1>8. Told'
  BY <1>1, <1>3 DEF FeedInv, Told, Right, Followed, Ws!Takes, WillHear
<1> QED BY <1>4, <1>5, <1>6, <1>7, <1>8 DEF FeedInv

(* A new connection is registered, and told the state of the bus unless it has
   gone by then. *)
LEMMA AcceptKeeps ==
  ASSUME FeedInv, NEW s \in Ws!Sock, Ws!Accept(s) \/ Ws!AcceptGone(s)
  PROVE  FeedInv'
<1>1. /\ UNCHANGED <<feedEnv, job, stored, filtered, hook, got, bus, badge, asked>>
      /\ sock[s].client = "connecting" /\ sock[s].endpoint = "none" /\ registry' = Append(registry, s)
  BY DEF Ws!Accept, Ws!AcceptGone, Ws!page, Ws!status
<1>2. /\ s \in Ws!Page /\ s \notin Elements(registry) /\ sock[s].pipe = <<>> /\ ~sock[s].linked
      /\ \A j \in Ws!Job : s \notin Tos(job[j].todo)
  BY <1>1, PageIs DEF FeedInv, Sockets
<1>3. <<"state", Ws!State(bus.up)>> \in Sent
  BY DEF Sent, Ws!State
<1>4. \/ sock' = [sock EXCEPT ![s] = [client |-> "connecting", endpoint |-> "receiving", linked |-> TRUE,
                                      pipe |-> <<<<"state", Ws!State(bus.up)>>>>]]
      \/ sock' = [sock EXCEPT ![s] = [client |-> "connecting", endpoint |-> "gone", linked |-> sock[s].linked,
                                      pipe |-> sock[s].pipe]]
  <2>1. sock[s] = [client |-> "connecting", endpoint |-> "none", linked |-> sock[s].linked, pipe |-> sock[s].pipe]
    BY <1>1, PipeIs
  <2>2. CASE Ws!Accept(s)
    BY <2>2 DEF Ws!Accept
  <2>3. CASE Ws!AcceptGone(s)
    <3>1. sock' = [sock EXCEPT ![s] = [@ EXCEPT !.endpoint = "gone"]]
      BY <2>3 DEF FeedInv, FeedTypes, Ws!AcceptGone
    <3>2. [sock[s] EXCEPT !.endpoint = "gone"]
            = [client |-> "connecting", endpoint |-> "gone", linked |-> sock[s].linked, pipe |-> sock[s].pipe]
      BY <2>1
    <3> QED BY <3>1, <3>2
  <2> QED BY <2>2, <2>3
<1>5. PICK r \in Socket :
        /\ sock' = [sock EXCEPT ![s] = r] /\ r.client = "connecting"
        /\ \/ /\ r.endpoint = "receiving" /\ r.linked = TRUE /\ r.pipe = <<<<"state", Ws!State(bus.up)>>>>
           \/ r.endpoint = "gone" /\ r.linked = FALSE /\ r.pipe = <<>>
  <2>1. CASE sock' = [sock EXCEPT ![s] = [client |-> "connecting", endpoint |-> "receiving", linked |-> TRUE,
                                          pipe |-> <<<<"state", Ws!State(bus.up)>>>>]]
    <3>1. <<<<"state", Ws!State(bus.up)>>>> \in Seq(Sent)
      BY <1>3
    <3>2. [client |-> "connecting", endpoint |-> "receiving", linked |-> TRUE,
           pipe |-> <<<<"state", Ws!State(bus.up)>>>>] \in Socket
      BY <3>1 DEF Socket
    <3> QED BY <2>1, <3>2
  <2>2. CASE sock' = [sock EXCEPT ![s] = [client |-> "connecting", endpoint |-> "gone", linked |-> sock[s].linked,
                                          pipe |-> sock[s].pipe]]
    <3>1. sock[s].linked = FALSE /\ sock[s].pipe \in Seq(Sent)
      BY <1>2, PipeIs DEF Socket
    <3>2. [client |-> "connecting", endpoint |-> "gone", linked |-> sock[s].linked, pipe |-> sock[s].pipe] \in Socket
      BY <3>1 DEF Socket
    <3> QED BY <1>2, <2>2, <3>1, <3>2
  <2> QED BY <1>4, <2>1, <2>2
<1>6. /\ sock' \in [Ws!Sock -> Socket] /\ sock'[s] = r /\ \A q \in Ws!Sock \ {s} : sock'[q] = sock[q]
      /\ sock'[0] = sock[0]
  <2>1. /\ sock' \in [Ws!Sock -> Socket] /\ sock'[s] = r /\ \A q \in Ws!Sock \ {s} : sock'[q] = sock[q]
    BY <1>5, SocketBecomes
  <2> QED BY <1>2, <2>1, PageIs
<1>7. \A t \in Ws!Telegram, q \in Ws!Sock :
        Telling(t) \in Elements(sock'[q].pipe) => q # s /\ Telling(t) \in Elements(sock[q].pipe)
  BY <1>5, <1>6 DEF Elements, Telling
<1>8. \A q \in Ws!Sock : Live(q)' = Live(q) /\ (q # s => Ws!Takes(q)' = Ws!Takes(q))
  BY <1>1, <1>5, <1>6 DEF Live, Ws!Takes
<1>9. /\ registry' \in Seq(Ws!Sock) /\ Elements(registry') = Elements(registry) \cup {s}
      /\ \A i, k \in DOMAIN registry' : registry'[i] = registry'[k] => i = k
  <2>1. PICK q \in Seq(Ws!Sock) : q = registry
    BY DEF FeedInv, FeedTypes
  <2>2. /\ Append(q, s) \in Seq(Ws!Sock) /\ Elements(Append(q, s)) = Elements(q) \cup {s}
        /\ Len(q) \in Nat /\ DOMAIN q = 1 .. Len(q) /\ DOMAIN Append(q, s) = 1 .. Len(q) + 1
        /\ \A i \in 1 .. Len(q) : Append(q, s)[i] = q[i]
        /\ Append(q, s)[Len(q) + 1] = s
    BY Appended
  <2>3. \A i \in 1 .. Len(q) : q[i] # s
    BY <1>2, <2>1, <2>2 DEF Elements
  <2>4. \A i, k \in 1 .. Len(q) : q[i] = q[k] => i = k
    BY <2>1, <2>2 DEF FeedInv, Registered
  <2>5. \A i \in 1 .. Len(q) + 1 : i \in 1 .. Len(q) \/ i = Len(q) + 1
    BY <2>2
  <2>6. \A i, k \in 1 .. Len(q) + 1 : Append(q, s)[i] = Append(q, s)[k] => i = k
    BY <2>2, <2>3, <2>4, <2>5
  <2> QED BY <1>1, <2>1, <2>2, <2>6
<1>10. Ws!Job' = Ws!Job /\ Ws!Telegram' = Ws!Telegram
  BY <1>1 DEF Ws!Job, Ws!Telegram
<1>11. FeedTypes'
  <2>1. Socket' = Socket
    BY <1>10 DEF Socket, Sent
  <2> QED BY <1>1, <1>6, <1>9, <1>10, <2>1 DEF FeedInv, FeedTypes
<1>12. Sockets'
  <2>1. ASSUME NEW q \in Ws!Sock
        PROVE  /\ sock'[q].linked => sock'[q].endpoint = "receiving" /\ Live(q)'
               /\ sock'[q].pipe # <<>> => Live(q)'
               /\ sock'[q].endpoint = "none" =>
                    /\ sock'[q].pipe = <<>> /\ q \notin Elements(registry')
                    /\ \A k \in Ws!Job : q \notin Tos(job[k].todo)
    <3>1. CASE q = s
      BY <1>1, <1>5, <1>6, <1>8, <3>1 DEF Live
    <3>2. CASE q # s
      BY <1>6, <1>8, <1>9, <3>2 DEF FeedInv, Sockets
    <3> QED BY <3>1, <3>2
  <2> QED BY <1>1, <1>6, <1>10, <2>1 DEF FeedInv, Sockets
<1>13. Registered'
  <2>1. \A q \in Ws!Sock : Ws!Takes(q)' => q \in Elements(registry')
    BY <1>8, <1>9 DEF FeedInv, Registered
  <2> QED BY <1>1, <1>9, <2>1 DEF FeedInv, Registered
<1>14. Backed' /\ Owed'
  BY <1>1, <1>7, <1>10 DEF FeedInv, Backed, Owed
<1>15. Alone' /\ Connected'
  <2>1. \A q \in Ws!Page : sock'[q].client = sock[q].client
    BY <1>1, <1>5, <1>6, PageIs
  <2> QED BY <1>1, <1>8, <2>1, PageIs DEF FeedInv, Alone, Connected, Reliable
<1>16. Once'
  <2>1. \A t \in Ws!Telegram, q \in Ws!Page :
          Telling(t) \in Elements(sock'[q].pipe) =>
            Telling(t) \in Elements(sock[q].pipe) /\ sock'[q].pipe = sock[q].pipe
    BY <1>6, <1>7, PageIs
  <2>2. \A q \in Ws!Page : Live(q)' = Live(q)
    BY <1>8, PageIs
  <2> QED BY <1>1, <1>10, <2>1, <2>2 DEF FeedInv, Once, Reliable, OnWay
<1>17. Told'
  <2>1. ASSUME NEW q \in Ws!Page, Ws!Takes(q)', q # s PROVE Ws!Takes(q) /\ (WillHear(q) => WillHear(q)')
    BY <1>1, <1>6, <1>8, <2>1, PageIs DEF WillHear
  <2>2. Ws!Takes(s)' => WillHear(s)'
    BY <1>5, <1>6 DEF Ws!Takes, WillHear
  <2> QED BY <1>1, <2>1, <2>2 DEF FeedInv, Told, Right, Followed
<1> QED BY <1>11, <1>12, <1>13, <1>14, <1>15, <1>16, <1>17 DEF FeedInv

(* The endpoint of a broken link unregisters its connection. *)
LEMMA EndpointKeeps ==
  ASSUME FeedInv, NEW s \in Ws!Sock, Ws!EndpointEnds(s)
  PROVE  FeedInv'
<1>1. /\ UNCHANGED <<feedEnv, job, stored, hook, got, bus, badge, asked, losses>>
      /\ sock[s].endpoint = "receiving" /\ ~sock[s].linked
      /\ sock' = [sock EXCEPT ![s].endpoint = "gone"]
      /\ registry' = Ws!Without(registry, s) /\ filtered' = filtered \ {s}
  BY DEF Ws!EndpointEnds, Ws!Disconnect, Ws!page, Ws!status
<1>2. /\ sock' \in [Ws!Sock -> Socket]
      /\ \A q \in Ws!Sock : /\ sock'[q].client = sock[q].client /\ sock'[q].linked = sock[q].linked
                            /\ sock'[q].pipe = sock[q].pipe
                            /\ sock'[q].endpoint = IF q = s THEN "gone" ELSE sock[q].endpoint
  BY <1>1 DEF FeedInv, FeedTypes, Socket
<1>3. \A q \in Ws!Sock : Live(q)' = Live(q) /\ Ws!Takes(q)' = (Ws!Takes(q) /\ q # s) /\ ~Ws!Takes(s)
  BY <1>1, <1>2 DEF Live, Ws!Takes
<1>4. /\ registry' \in Seq(Ws!Sock) /\ Elements(registry') = Elements(registry) \ {s}
      /\ \A i, k \in DOMAIN registry' : registry'[i] = registry'[k] => i = k
  <2>1. PICK q \in Seq(Ws!Sock) : q = registry
    BY DEF FeedInv, FeedTypes
  <2>2. \A i, k \in DOMAIN q : q[i] = q[k] => i = k
    BY <2>1 DEF FeedInv, Registered
  <2> QED BY <1>1, <2>1, <2>2, WithoutIs
<1>5. Ws!Job' = Ws!Job /\ Ws!Telegram' = Ws!Telegram
  BY <1>1 DEF Ws!Job, Ws!Telegram
<1>6. FeedTypes'
  <2>1. Socket' = Socket
    BY <1>5 DEF Socket, Sent
  <2> QED BY <1>1, <1>2, <1>4, <1>5, <2>1 DEF FeedInv, FeedTypes
<1>7. Sockets'
  BY <1>1, <1>2, <1>3, <1>4, <1>5, PageIs DEF FeedInv, Sockets
<1>8. Registered'
  BY <1>1, <1>3, <1>4 DEF FeedInv, Registered
<1>9. Backed' /\ Owed'
  BY <1>1, <1>2, <1>5 DEF FeedInv, Backed, Owed
<1>10. Alone' /\ Connected'
  BY <1>1, <1>2, <1>3, PageIs DEF FeedInv, Alone, Connected, Reliable
<1>11. Once'
  <2>1. \A q \in Ws!Page : Live(q)' = Live(q) /\ sock'[q].pipe = sock[q].pipe
    BY <1>2, <1>3, PageIs
  <2> QED BY <1>1, <1>5, <2>1 DEF FeedInv, Once, Reliable, OnWay
<1>12. Told'
  <2>1. ASSUME NEW q \in Ws!Page
        PROVE  (Ws!Takes(q)' => Ws!Takes(q)) /\ (WillHear(q) => WillHear(q)')
    <3>1. q \in Ws!Sock
      BY PageIs
    <3>2. sock'[q].pipe = sock[q].pipe
      BY <1>2, <3>1
    <3>3. WillHear(q) => WillHear(q)'
      BY <1>1, <3>2 DEF WillHear
    <3> QED BY <1>3, <3>1, <3>3
  <2> QED BY <1>1, <2>1 DEF FeedInv, Told, Right, Followed
<1> QED BY <1>6, <1>7, <1>8, <1>9, <1>10, <1>11, <1>12 DEF FeedInv

(* The messages that a broken link still delivers. *)
LEMMA PrefixIs ==
  ASSUME NEW q \in Seq(Sent), NEW n \in 0 .. Len(q)
  PROVE  /\ SubSeq(q, 1, n) \in Seq(Sent) /\ Elements(SubSeq(q, 1, n)) \subseteq Elements(q)
         /\ q = <<>> => SubSeq(q, 1, n) = <<>>
         /\ \A t : OnWay(t, q) /\ Telling(t) \in Elements(SubSeq(q, 1, n)) => OnWay(t, SubSeq(q, 1, n))
<1> DEFINE m == Len(q)
           r == SubSeq(q, 1, n)
<1>1. m \in Nat /\ DOMAIN q = 1 .. m /\ n \in 0 .. m /\ 1 .. n \subseteq 1 .. m
  BY LenProperties
<1>2. r \in Seq(Sent) /\ DOMAIN r = 1 .. n /\ \A i \in 1 .. n : r[i] = q[i]
  <2>1. \A i \in 1 .. n : q[i] \in Sent
    BY <1>1, ElementOfSeq
  <2>2. /\ SubSeq(q, 1, n) \in Seq(Sent)
        /\ Len(SubSeq(q, 1, n)) = IF 1 <= n THEN n - 1 + 1 ELSE 0
        /\ \A i \in 1 .. n - 1 + 1 : SubSeq(q, 1, n)[i] = q[1 + i - 1]
    BY <1>1, <2>1, SubSeqProperties
  <2>3. Len(r) = n /\ \A i \in 1 .. n : r[i] = q[i]
    BY <1>1, <2>2
  <2> QED BY <2>2, <2>3, LenProperties
<1>3. q = <<>> => r = <<>>
  <2> SUFFICES ASSUME q = <<>> PROVE r = <<>>
    OBVIOUS
  <2>1. n = 0
    BY <1>1
  <2> QED BY <1>2, <2>1, EmptySeq
<1> HIDE DEF r, m
<1>4. Elements(r) \subseteq Elements(q)
  BY <1>1, <1>2 DEF Elements
<1>5. ASSUME NEW t, OnWay(t, q), Telling(t) \in Elements(r) PROVE OnWay(t, r)
  <2>1. PICK i \in 1 .. m : q[i] = Telling(t) /\ \A k \in 1 .. m : q[k] = Telling(t) => k = i
    BY <1>1, <1>5 DEF OnWay
  <2>2. PICK k \in 1 .. n : r[k] = Telling(t)
    BY <1>2, <1>5 DEF Elements
  <2>3. \A l \in 1 .. n : r[l] = Telling(t) => l = k
    BY <1>1, <1>2, <2>1, <2>2
  <2> QED BY <1>2, <2>2, <2>3 DEF OnWay
<1> QED BY <1>2, <1>3, <1>4, <1>5 DEF r

(* A link breaks and the end of what was on it is lost, or a connect fails. *)
LEMMA BreakKeeps ==
  ASSUME FeedInv, NEW s \in Ws!Sock, Ws!Break(s)
  PROVE  FeedInv'
<1>1. UNCHANGED <<feedEnv, job, stored, registry, filtered, hook, got, bus, badge, asked>>
  BY DEF Ws!Break, Ws!server, Ws!page, Ws!status
<1>2. PICK r \in Socket :
        /\ sock' = [sock EXCEPT ![s] = r] /\ r.client = sock[s].client
        /\ ~r.linked /\ (sock[s].endpoint = "none" => s # 0) /\ r.endpoint # "none"
        /\ Live(s)
        /\ \/ /\ r.endpoint = sock[s].endpoint
              /\ \E n \in 0 .. Len(sock[s].pipe) : r.pipe = SubSeq(sock[s].pipe, 1, n)
           \/ r.endpoint = "gone" /\ r.pipe = sock[s].pipe
  <2>1. CASE /\ sock[s].linked
             /\ \E n \in 0 .. Len(sock[s].pipe) :
                  sock' = [sock EXCEPT ![s].linked = FALSE, ![s].pipe = SubSeq(@, 1, n)]
    <3>1. PICK n \in 0 .. Len(sock[s].pipe) :
            sock' = [sock EXCEPT ![s].linked = FALSE, ![s].pipe = SubSeq(@, 1, n)]
      BY <2>1
    <3>2. sock[s].endpoint = "receiving" /\ Live(s)
      BY <2>1 DEF FeedInv, Sockets
    <3>3. SubSeq(sock[s].pipe, 1, n) \in Seq(Sent)
      BY PipeIs, PrefixIs
    <3>4. PICK r : r = [sock[s] EXCEPT !.linked = FALSE, !.pipe = SubSeq(sock[s].pipe, 1, n)]
      OBVIOUS
    <3>5. /\ r \in Socket /\ r.client = sock[s].client /\ r.endpoint = sock[s].endpoint
          /\ r.linked = FALSE /\ r.pipe = SubSeq(sock[s].pipe, 1, n)
      <4>1. PICK a \in Socket, b \in Seq(Sent) : a = sock[s] /\ b = SubSeq(sock[s].pipe, 1, n)
        BY <3>3, PipeIs
      <4>2. r = [a EXCEPT !.linked = FALSE, !.pipe = b]
        BY <3>4, <4>1
      <4>3. /\ r \in Socket /\ r.client = a.client /\ r.endpoint = a.endpoint
            /\ r.linked = FALSE /\ r.pipe = b
        BY <4>2 DEF Socket
      <4> QED BY <4>1, <4>3
    <3>6. sock' = [sock EXCEPT ![s] = r]
      BY <3>1, <3>4 DEF FeedInv, FeedTypes
    <3> QED BY <2>1, <3>2, <3>5, <3>6
  <2>2. CASE /\ sock[s].client = "connecting" /\ sock[s].endpoint = "none"
             /\ sock' = [sock EXCEPT ![s].endpoint = "gone"]
    <3>1. s # 0 /\ ~sock[s].linked /\ Live(s)
      BY <2>2 DEF FeedInv, Sockets, Live
    <3> DEFINE r == [sock[s] EXCEPT !.endpoint = "gone"]
    <3>2. /\ r \in Socket /\ r.client = sock[s].client /\ r.endpoint = "gone" /\ r.linked = sock[s].linked
          /\ r.pipe = sock[s].pipe
      BY PipeIs DEF Socket
    <3>3. sock' = [sock EXCEPT ![s] = r]
      BY <2>2 DEF FeedInv, FeedTypes
    <3> HIDE DEF r
    <3> QED BY <3>1, <3>2, <3>3
  <2> QED BY <2>1, <2>2 DEF Ws!Break
<1>3. /\ sock' \in [Ws!Sock -> Socket] /\ sock'[s] = r /\ \A q \in Ws!Sock \ {s} : sock'[q] = sock[q]
  BY <1>2, SocketBecomes
<1>4. /\ \A q \in Ws!Sock : /\ sock'[q].client = sock[q].client /\ Live(q)' = Live(q)
                            /\ Ws!Takes(q)' => Ws!Takes(q) /\ q # s
                            /\ Elements(sock'[q].pipe) \subseteq Elements(sock[q].pipe)
                            /\ sock[q].pipe = <<>> => sock'[q].pipe = <<>>
                            /\ \A t \in Ws!Telegram :
                                 OnWay(t, sock[q].pipe) /\ Telling(t) \in Elements(sock'[q].pipe) =>
                                   OnWay(t, sock'[q].pipe)
  <2> SUFFICES ASSUME NEW q \in Ws!Sock
               PROVE  /\ sock'[q].client = sock[q].client /\ Live(q)' = Live(q)
                      /\ Ws!Takes(q)' => Ws!Takes(q) /\ q # s
                      /\ Elements(sock'[q].pipe) \subseteq Elements(sock[q].pipe)
                      /\ sock[q].pipe = <<>> => sock'[q].pipe = <<>>
                      /\ \A t \in Ws!Telegram :
                           OnWay(t, sock[q].pipe) /\ Telling(t) \in Elements(sock'[q].pipe) =>
                             OnWay(t, sock'[q].pipe)
    OBVIOUS
  <2>1. CASE q # s
    BY <1>3, <2>1 DEF Live, Ws!Takes
  <2>2. CASE q = s
    <3>1. sock'[q].client = sock[q].client /\ Live(q)' = Live(q) /\ ~Ws!Takes(q)'
      BY <1>2, <1>3, <2>2 DEF Live, Ws!Takes
    <3>2. CASE r.pipe = sock[s].pipe
      BY <1>3, <2>2, <3>1, <3>2
    <3>3. CASE \E n \in 0 .. Len(sock[s].pipe) : r.pipe = SubSeq(sock[s].pipe, 1, n)
      <4>1. PICK n \in 0 .. Len(sock[s].pipe) : r.pipe = SubSeq(sock[s].pipe, 1, n)
        BY <3>3
      <4>2. PICK p \in Seq(Sent) : p = sock[s].pipe
        BY PipeIs
      <4>3. /\ Elements(SubSeq(p, 1, n)) \subseteq Elements(p) /\ (p = <<>> => SubSeq(p, 1, n) = <<>>)
            /\ \A t : OnWay(t, p) /\ Telling(t) \in Elements(SubSeq(p, 1, n)) => OnWay(t, SubSeq(p, 1, n))
        BY <4>1, <4>2, PrefixIs
      <4>4. sock'[q].pipe = SubSeq(p, 1, n) /\ sock[q].pipe = p
        BY <1>3, <2>2, <4>1, <4>2
      <4> QED BY <3>1, <4>3, <4>4
    <3> QED BY <1>2, <3>2, <3>3
  <2> QED BY <2>1, <2>2
<1>5. Ws!Job' = Ws!Job /\ Ws!Telegram' = Ws!Telegram
  BY <1>1 DEF Ws!Job, Ws!Telegram
<1>6. FeedTypes'
  <2>1. Socket' = Socket
    BY <1>5 DEF Socket, Sent
  <2> QED BY <1>1, <1>3, <1>5, <2>1 DEF FeedInv, FeedTypes
<1>7. Sockets'
  <2>1. \A q \in Ws!Sock : sock'[q].linked => q # s
    BY <1>2, <1>3
  <2>2. \A q \in Ws!Sock : sock'[q].endpoint = "none" => q # s
    BY <1>2, <1>3
  <2> QED BY <1>1, <1>3, <1>4, <1>5, <2>1, <2>2, PageIs DEF FeedInv, Sockets
<1>8. Registered'
  BY <1>1, <1>4 DEF FeedInv, Registered
<1>9. Backed' /\ Owed'
  BY <1>1, <1>4, <1>5 DEF FeedInv, Backed, Owed
<1>10. Alone' /\ Connected'
  BY <1>1, <1>4, PageIs DEF FeedInv, Alone, Connected, Reliable
<1>11. Once'
  <2>1. \A q \in Ws!Page, t \in Ws!Telegram :
          /\ Live(q)' = Live(q)
          /\ Telling(t) \in Elements(sock'[q].pipe) =>
               /\ Telling(t) \in Elements(sock[q].pipe)
               /\ OnWay(t, sock[q].pipe) => OnWay(t, sock'[q].pipe)
    BY <1>4, PageIs
  <2> QED BY <1>1, <1>5, <2>1 DEF FeedInv, Once, Reliable
<1>12. Told'
  <2>1. \A q \in Ws!Page : Ws!Takes(q)' => Ws!Takes(q) /\ (WillHear(q) => WillHear(q)')
    BY <1>1, <1>3, <1>4, PageIs DEF WillHear
  <2> QED BY <1>1, <2>1 DEF FeedInv, Told, Right, Followed
<1> QED BY <1>6, <1>7, <1>8, <1>9, <1>10, <1>11, <1>12 DEF FeedInv

(* A socket opens. *)
LEMMA OpenKeeps ==
  ASSUME FeedInv, NEW s \in Ws!Sock, Ws!OnOpen(s)
  PROVE  FeedInv'
<1>1. /\ UNCHANGED <<feedEnv, job, stored, registry, filtered, got, bus, badge, asked, losses>>
      /\ sock[s].client = "connecting" /\ sock[s].linked /\ sock' = [sock EXCEPT ![s].client = "open"]
      /\ hook' = [hook EXCEPT !.connected = TRUE]
  BY DEF Ws!OnOpen, Ws!server, Ws!status
<1>2. s \in Ws!Page /\ Live(s)
  BY <1>1, PageIs DEF FeedInv, Sockets, Live
<1>3. /\ sock' \in [Ws!Sock -> Socket]
      /\ \A q \in Ws!Sock : /\ sock'[q].endpoint = sock[q].endpoint /\ sock'[q].linked = sock[q].linked
                            /\ sock'[q].pipe = sock[q].pipe
                            /\ sock'[q].client = IF q = s THEN "open" ELSE sock[q].client
  BY <1>1 DEF FeedInv, FeedTypes, Socket
<1>4. \A q \in Ws!Sock : Live(q)' = Live(q) /\ Ws!Takes(q)' = Ws!Takes(q)
  BY <1>1, <1>3 DEF Live, Ws!Takes
<1>5. Ws!Job' = Ws!Job /\ Ws!Telegram' = Ws!Telegram
  BY <1>1 DEF Ws!Job, Ws!Telegram
<1>6. hook' \in [timer : BOOLEAN, connected : BOOLEAN, ws : Ws!Page] /\ hook'.timer = hook.timer
  BY <1>1 DEF FeedInv, FeedTypes
<1>7. FeedTypes'
  <2>1. Socket' = Socket
    BY <1>5 DEF Socket, Sent
  <2> QED BY <1>1, <1>3, <1>5, <1>6, <2>1 DEF FeedInv, FeedTypes
<1>8. Sockets' /\ Registered' /\ Backed' /\ Owed'
  BY <1>1, <1>2, <1>3, <1>4, <1>5, PageIs DEF FeedInv, Sockets, Registered, Backed, Owed
<1>9. Alone'
  BY <1>1, <1>3, <1>4, <1>6, PageIs DEF FeedInv, Alone, Reliable
<1>10. Connected'
  BY <1>2, <1>3, PageIs DEF Connected
<1>11. Once'
  <2>1. \A q \in Ws!Page : Live(q)' = Live(q) /\ sock'[q].pipe = sock[q].pipe
    BY <1>3, <1>4, PageIs
  <2> QED BY <1>1, <1>5, <2>1 DEF FeedInv, Once, Reliable, OnWay
<1>12. Told'
  <2>1. \A q \in Ws!Page : (Ws!Takes(q)' => Ws!Takes(q)) /\ (WillHear(q) => WillHear(q)')
    BY <1>1, <1>3, <1>4, PageIs DEF WillHear
  <2> QED BY <1>1, <2>1 DEF FeedInv, Told, Right, Followed
<1> QED BY <1>7, <1>8, <1>9, <1>10, <1>11, <1>12 DEF FeedInv

(* A socket closes: nothing is on its way to it any more, and the timer runs. *)
LEMMA CloseKeeps ==
  ASSUME FeedInv, NEW s \in Ws!Sock, Ws!OnClose(s)
  PROVE  FeedInv'
<1>1. /\ UNCHANGED <<feedEnv, job, stored, registry, filtered, got, bus, badge, asked, losses>>
      /\ s # 0 /\ Ws!Broken(s) /\ sock' = [sock EXCEPT ![s].client = "none", ![s].pipe = <<>>]
      /\ hook' = [hook EXCEPT !.connected = FALSE, !.timer = TRUE]
  BY PageIs DEF Ws!OnClose, Ws!Retries, Ws!server, Ws!status
<1>2. s \in Ws!Page /\ ~sock[s].linked /\ (Reliable => Live(s))
  <2>1. s \in Ws!Page
    BY <1>1, PageIs
  <2>2. CASE sock[s].client = "closing"
    BY <2>1, <2>2 DEF FeedInv, Sockets, Alone, Live
  <2>3. CASE sock[s].client # "closing"
    BY <1>1, <2>1, <2>3 DEF Ws!Broken, Live
  <2> QED BY <2>1, <2>2, <2>3
<1>3. /\ sock' \in [Ws!Sock -> Socket] /\ sock'[s].client = "none" /\ sock'[s].pipe = <<>>
      /\ sock'[s].endpoint = sock[s].endpoint /\ sock'[s].linked = sock[s].linked
      /\ \A q \in Ws!Sock \ {s} : sock'[q] = sock[q]
  <2>1. sock \in [Ws!Sock -> Socket] /\ <<>> \in Seq(Sent)
    BY EmptySeq DEF FeedInv, FeedTypes
  <2> QED BY <1>1, <2>1 DEF Socket
<1>4. /\ ~Live(s)' /\ Elements(sock'[s].pipe) = {}
      /\ \A q \in Ws!Sock : /\ Live(q)' => Live(q) /\ q # s
                            /\ Ws!Takes(q)' = Ws!Takes(q)
                            /\ Ws!Takes(q) => q # s
  BY <1>2, <1>3 DEF Live, Ws!Takes, Elements
<1>5. Ws!Job' = Ws!Job /\ Ws!Telegram' = Ws!Telegram
  BY <1>1 DEF Ws!Job, Ws!Telegram
<1>6. hook' \in [timer : BOOLEAN, connected : BOOLEAN, ws : Ws!Page] /\ ~hook'.connected
  BY <1>1 DEF FeedInv, FeedTypes
<1>7. FeedTypes'
  <2>1. Socket' = Socket
    BY <1>5 DEF Socket, Sent
  <2> QED BY <1>1, <1>3, <1>5, <1>6, <2>1 DEF FeedInv, FeedTypes
<1>8. Sockets'
  <2>1. \A q \in Ws!Sock \ {s} : Live(q)' = Live(q)
    BY <1>3 DEF Live
  <2> QED BY <1>1, <1>2, <1>3, <1>5, <2>1, PageIs DEF FeedInv, Sockets
<1>9. Registered' /\ Owed'
  BY <1>1, <1>4, <1>5 DEF FeedInv, Registered, Owed
<1>10. Backed'
  <2>1. \A q \in Ws!Sock : Elements(sock'[q].pipe) \subseteq Elements(sock[q].pipe)
    BY <1>3, <1>4
  <2> QED BY <1>1, <1>5, <2>1 DEF FeedInv, Backed
<1>11. Alone'
  <2>1. ASSUME Reliable, NEW q \in Ws!Page PROVE sock'[q].client # "closing" /\ ~Live(q)'
    <3>1. CASE q = s
      BY <1>3, <1>4, <3>1
    <3>2. CASE q # s
      <4>1. ~Live(q) /\ sock[q].client # "closing" /\ sock'[q] = sock[q]
        BY <1>2, <1>3, <2>1, <3>2, PageIs DEF FeedInv, Alone
      <4> QED BY <4>1 DEF Live
    <3> QED BY <3>1, <3>2
  <2> QED BY <1>1, <2>1 DEF Alone, Reliable
<1>12. Connected'
  BY <1>6 DEF Connected
<1>13. Once'
  <2>1. ASSUME NEW q \in Ws!Page
        PROVE  /\ Live(q)' => Live(q)
               /\ \A t : Telling(t) \in Elements(sock'[q].pipe) =>
                    /\ Telling(t) \in Elements(sock[q].pipe)
                    /\ OnWay(t, sock[q].pipe) => OnWay(t, sock'[q].pipe)
    BY <1>3, <1>4, PageIs
  <2> QED BY <1>1, <1>5, <2>1 DEF FeedInv, Once, Reliable
<1>14. Told'
  <2>1. ASSUME NEW q \in Ws!Page, Ws!Takes(q)' PROVE Ws!Takes(q) /\ (WillHear(q) => WillHear(q)')
    BY <1>1, <1>3, <1>4, <2>1, PageIs DEF WillHear
  <2> QED BY <1>1, <2>1 DEF FeedInv, Told, Right, Followed
<1> QED BY <1>7, <1>8, <1>9, <1>10, <1>11, <1>12, <1>13, <1>14 DEF FeedInv

(* The timer opens a new socket, which nobody has heard of yet, unless one is
   open. *)
LEMMA TimerKeeps ==
  ASSUME FeedInv, Ws!TimerFires
  PROVE  FeedInv'
<1>1. UNCHANGED <<feedEnv, job, stored, registry, filtered, got, bus, badge, asked, losses>> /\ hook.timer
  BY DEF Ws!TimerFires, Ws!server, Ws!status
<1>2. /\ hook' \in [timer : BOOLEAN, connected : BOOLEAN, ws : Ws!Page] /\ ~hook'.timer
      /\ hook'.connected = hook.connected
      /\ \/ UNCHANGED sock
         \/ \E s \in Ws!Unused : sock' = [sock EXCEPT ![s] = [Ws!NoSock EXCEPT !.client = "connecting"]]
  <2>1. hook \in [timer : BOOLEAN, connected : BOOLEAN, ws : Ws!Page]
    BY DEF FeedInv, FeedTypes
  <2>2. CASE UNCHANGED sock /\ hook' = [hook EXCEPT !.timer = FALSE]
    BY <2>1, <2>2
  <2>3. CASE \E s \in Ws!Unused : /\ hook' = [hook EXCEPT !.timer = FALSE, !.ws = s]
                                  /\ sock' = [sock EXCEPT ![s] = [Ws!NoSock EXCEPT !.client = "connecting"]]
    <3>1. PICK s \in Ws!Unused : /\ hook' = [hook EXCEPT !.timer = FALSE, !.ws = s]
                                 /\ sock' = [sock EXCEPT ![s] = [Ws!NoSock EXCEPT !.client = "connecting"]]
      BY <2>3
    <3>2. s \in Ws!Page
      BY DEF Ws!Unused
    <3> QED BY <2>1, <3>1, <3>2
  <2> QED BY <2>2, <2>3 DEF Ws!TimerFires, Ws!TimerDone
<1>3. Ws!Job' = Ws!Job /\ Ws!Telegram' = Ws!Telegram
  BY <1>1 DEF Ws!Job, Ws!Telegram
<1>4. Socket' = Socket
  BY <1>3 DEF Socket, Sent
<1>5. CASE UNCHANGED sock
  <2>1. FeedTypes'
    BY <1>1, <1>2, <1>3, <1>4, <1>5 DEF FeedInv, FeedTypes
  <2>2. Sockets' /\ Registered' /\ Backed' /\ Owed'
    BY <1>1, <1>3, <1>5 DEF FeedInv, Sockets, Registered, Backed, Owed, Live, Ws!Takes
  <2>3. Alone' /\ Connected'
    BY <1>1, <1>2, <1>5 DEF FeedInv, Alone, Connected, Live, Reliable
  <2>4. Once'
    BY <1>1, <1>3, <1>5 DEF FeedInv, Once, Live, Reliable, OnWay
  <2>5. Told'
    BY <1>1, <1>5 DEF FeedInv, Told, Right, Followed, Ws!Takes, WillHear
  <2> QED BY <2>1, <2>2, <2>3, <2>4, <2>5 DEF FeedInv
<1>6. CASE \E s \in Ws!Unused : sock' = [sock EXCEPT ![s] = [Ws!NoSock EXCEPT !.client = "connecting"]]
  <2>0. PICK r : r = [Ws!NoSock EXCEPT !.client = "connecting"]
    OBVIOUS
  <2>1. PICK s \in Ws!Unused : sock' = [sock EXCEPT ![s] = r]
    BY <1>6, <2>0
  <2>2. /\ s \in Ws!Page /\ s \in Ws!Sock /\ s # 0 /\ sock[s].client = "none" /\ s \notin Elements(registry)
        /\ ~Ws!Takes(s) /\ ~Live(s) /\ \A j \in Ws!Job : s \notin Tos(job[j].todo)
    BY PageIs DEF Ws!Unused, Ws!Takes, Live, Ws!ToSet, Elements, Tos
  <2>3. /\ r \in Socket /\ r.client = "connecting" /\ r.endpoint = "none" /\ r.linked = FALSE
        /\ r.pipe = <<>>
    <3>1. Ws!NoSock \in Socket
      BY EmptySeq DEF Ws!NoSock, Socket
    <3>2. /\ Ws!NoSock.endpoint = "none" /\ Ws!NoSock.linked = FALSE /\ Ws!NoSock.pipe = <<>>
      BY DEF Ws!NoSock
    <3> QED BY <2>0, <3>1, <3>2 DEF Socket
  <2>4. /\ sock' \in [Ws!Sock -> Socket] /\ sock'[s] = r /\ \A q \in Ws!Sock \ {s} : sock'[q] = sock[q]
    BY <2>1, <2>2, <2>3, SocketBecomes
  <2>5. /\ Elements(sock'[s].pipe) = {} /\ ~Ws!Takes(s)'
        /\ \A q \in Ws!Sock : Ws!Takes(q)' = Ws!Takes(q)
        /\ \A q \in Ws!Sock : Elements(sock'[q].pipe) \subseteq Elements(sock[q].pipe)
        /\ \A q \in Ws!Sock \ {s} : Live(q)' = Live(q)
    BY <2>2, <2>3, <2>4 DEF Elements, Ws!Takes, Live
  <2>6. FeedTypes'
    BY <1>1, <1>2, <1>3, <1>4, <2>4 DEF FeedInv, FeedTypes
  <2>7. Sockets'
    <3>1. ASSUME NEW q \in Ws!Sock
          PROVE  /\ sock'[q].linked => sock'[q].endpoint = "receiving" /\ Live(q)'
                 /\ sock'[q].pipe # <<>> => Live(q)'
                 /\ sock'[q].endpoint = "none" =>
                      /\ sock'[q].pipe = <<>> /\ q \notin Elements(registry)
                      /\ \A j \in Ws!Job : q \notin Tos(job[j].todo)
      <4>1. CASE q = s
        BY <2>2, <2>3, <2>4, <4>1
      <4>2. CASE q # s
        <5>1. sock'[q] = sock[q] /\ Live(q)' = Live(q)
          BY <2>4, <2>5, <4>2
        <5> QED BY <5>1 DEF FeedInv, Sockets
      <4> QED BY <4>1, <4>2
    <3>2. sock'[0] = sock[0]
      BY <2>2, <2>4, PageIs
    <3> QED BY <1>1, <1>3, <3>1, <3>2 DEF FeedInv, Sockets
  <2>8. Registered' /\ Backed' /\ Owed'
    BY <1>1, <1>3, <2>5 DEF FeedInv, Registered, Backed, Owed
  <2>9. Alone'
    <3>1. ASSUME Reliable, NEW q \in Ws!Page
          PROVE  sock'[q].client # "closing" /\ (Live(q)' => q = s)
      <4>1. CASE q = s
        BY <2>3, <2>4, <4>1
      <4>2. CASE q # s
        <5>1. ~Live(q) /\ sock[q].client # "closing"
          BY <1>1, <3>1 DEF FeedInv, Alone
        <5> QED BY <2>4, <2>5, <4>2, <5>1, PageIs
      <4> QED BY <4>1, <4>2
    <3> QED BY <1>1, <1>2, <3>1 DEF Alone, Reliable
  <2>10. Connected'
    BY <1>2, <2>2, <2>4, PageIs DEF FeedInv, Connected
  <2>11. Once'
    <3>1. ASSUME NEW q \in Ws!Page, NEW t \in Ws!Telegram
          PROVE  /\ Telling(t) \in Elements(sock'[q].pipe) =>
                      Telling(t) \in Elements(sock[q].pipe) /\ sock'[q].pipe = sock[q].pipe
                 /\ Live(q)' => Live(q) \/ q \notin Tos(job[Telling(t)].todo)
      <4>1. Telling(t) \in Ws!Job
        BY JobIs DEF FeedInv
      <4> QED BY <2>2, <2>4, <2>5, <4>1, PageIs
    <3>2. \A q \in Ws!Page, t \in Ws!Telegram :
            OnWay(t, sock[q].pipe) /\ Telling(t) \in Elements(sock'[q].pipe) => OnWay(t, sock'[q].pipe)
      BY <3>1
    <3> QED BY <1>1, <1>3, <3>1, <3>2 DEF FeedInv, Once, Reliable
  <2>12. Told'
    <3>1. ASSUME NEW q \in Ws!Page, Ws!Takes(q)' PROVE Ws!Takes(q) /\ (WillHear(q) => WillHear(q)')
      <4>1. q # s /\ q \in Ws!Sock
        BY <2>5, <3>1, PageIs
      <4> QED BY <1>1, <2>4, <2>5, <3>1, <4>1 DEF WillHear
    <3> QED BY <1>1, <3>1 DEF FeedInv, Told, Right, Followed
  <2> QED BY <2>6, <2>7, <2>8, <2>9, <2>10, <2>11, <2>12 DEF FeedInv
<1> QED BY <1>2, <1>5, <1>6

(* The page takes the first message on its socket. *)
LEMMA MessageTaken ==
  ASSUME FeedInv, NEW s \in Ws!Sock, Ws!OnMessage(s)
  PROVE  /\ s \in Ws!Page /\ Live(s) /\ sock[s].pipe \in Seq(Sent) /\ sock[s].pipe # <<>>
         /\ Head(sock[s].pipe) = sock[s].pipe[1] /\ sock[s].pipe[1] \in Sent
         /\ sock' \in [Ws!Sock -> Socket] /\ sock'[s].pipe = Tail(sock[s].pipe)
         /\ \A q \in Ws!Sock : /\ sock'[q].client = sock[q].client /\ sock'[q].endpoint = sock[q].endpoint
                               /\ sock'[q].linked = sock[q].linked
         /\ \A q \in Ws!Sock \ {s} : sock'[q] = sock[q]
         /\ Elements(sock[s].pipe) = {sock[s].pipe[1]} \cup Elements(sock'[s].pipe)
<1>1. sock[s].client = "open" /\ sock[s].pipe # <<>> /\ sock' = [sock EXCEPT ![s].pipe = Tail(@)]
  BY DEF Ws!OnMessage
<1>2. PICK q \in Seq(Sent) : q = sock[s].pipe
  BY PipeIs
<1>3. /\ Head(q) = q[1] /\ q[1] \in Sent /\ Tail(q) \in Seq(Sent)
      /\ Elements(q) = {q[1]} \cup Elements(Tail(q))
  BY <1>1, <1>2, Beheaded
<1>4. s \in Ws!Page /\ Live(s)
  BY <1>1, PageIs DEF FeedInv, Sockets, Live
<1>5. sock' = [sock EXCEPT ![s] = [sock[s] EXCEPT !.pipe = Tail(q)]]
  BY <1>1, <1>2 DEF FeedInv, FeedTypes
<1>6. /\ [sock[s] EXCEPT !.pipe = Tail(q)] \in Socket
      /\ [sock[s] EXCEPT !.pipe = Tail(q)].pipe = Tail(q)
      /\ [sock[s] EXCEPT !.pipe = Tail(q)].client = sock[s].client
      /\ [sock[s] EXCEPT !.pipe = Tail(q)].endpoint = sock[s].endpoint
      /\ [sock[s] EXCEPT !.pipe = Tail(q)].linked = sock[s].linked
  BY <1>3, PipeIs DEF Socket
<1>7. /\ sock' \in [Ws!Sock -> Socket] /\ sock'[s].pipe = Tail(q)
      /\ \A p \in Ws!Sock : /\ sock'[p].client = sock[p].client /\ sock'[p].endpoint = sock[p].endpoint
                            /\ sock'[p].linked = sock[p].linked
      /\ \A p \in Ws!Sock \ {s} : sock'[p] = sock[p]
  BY <1>5, <1>6, SocketBecomes
<1> QED BY <1>1, <1>2, <1>3, <1>4, <1>7

LEMMA MessageKeeps ==
  ASSUME FeedInv, NEW s \in Ws!Sock, Ws!OnMessage(s)
  PROVE  FeedInv'
<1> DEFINE m == sock[s].pipe[1]
<1>1. /\ s \in Ws!Page /\ Live(s) /\ sock[s].pipe \in Seq(Sent) /\ sock[s].pipe # <<>> /\ m \in Sent
      /\ sock' \in [Ws!Sock -> Socket] /\ sock'[s].pipe = Tail(sock[s].pipe)
      /\ \A q \in Ws!Sock : /\ sock'[q].client = sock[q].client /\ sock'[q].endpoint = sock[q].endpoint
                            /\ sock'[q].linked = sock[q].linked
      /\ \A q \in Ws!Sock \ {s} : sock'[q] = sock[q]
      /\ Elements(sock[s].pipe) = {m} \cup Elements(sock'[s].pipe)
  BY MessageTaken
<1>2. /\ UNCHANGED <<feedEnv, job, stored, registry, filtered, hook, bus, losses>>
      /\ \/ /\ m[1] = "telegram" /\ got' = [got EXCEPT ![m[2]] = @ + 1] /\ UNCHANGED <<badge, asked>>
         \/ /\ m[1] # "telegram" /\ badge' = (IF badge = "none" THEN badge ELSE m[2])
            /\ asked' = Ws!Refresh /\ UNCHANGED got
  BY MessageTaken DEF Ws!OnMessage, Ws!server, Ws!status
<1>3. \/ m[1] = "telegram" /\ m[2] \in Ws!Telegram /\ m = Telling(m[2])
      \/ m[1] = "state" /\ m[2] \in {"up", "down"}
  BY <1>1 DEF Sent, Telling
<1>4. \A q \in Ws!Sock : /\ Live(q)' = Live(q) /\ Ws!Takes(q)' = Ws!Takes(q)
                         /\ Elements(sock'[q].pipe) \subseteq Elements(sock[q].pipe)
                         /\ sock'[q].pipe # <<>> => sock[q].pipe # <<>>
                         /\ q # s => sock'[q].pipe = sock[q].pipe
  <2>1. \A q \in Ws!Sock : Live(q)' = Live(q) /\ Ws!Takes(q)' = Ws!Takes(q)
    BY <1>1 DEF Live, Ws!Takes
  <2> QED BY <1>1, <2>1
<1> HIDE DEF m
<1>5. Ws!Job' = Ws!Job /\ Ws!Telegram' = Ws!Telegram
  BY <1>2 DEF Ws!Job, Ws!Telegram
<1>6. asked' # asked => asked' = Append(asked, "asked")
  BY <1>2 DEF Ws!Refresh
<1>7. FeedTypes'
  <2>1. Socket' = Socket
    BY <1>5 DEF Socket, Sent
  <2>2. got' \in [Ws!Telegram -> Nat]
    <3>1. got \in [Ws!Telegram -> Nat]
      BY DEF FeedInv, FeedTypes
    <3>2. CASE m[1] = "telegram"
      <4>1. m[2] \in Ws!Telegram /\ got' = [got EXCEPT ![m[2]] = @ + 1]
        BY <1>2, <1>3, <3>2
      <4>2. got[m[2]] + 1 \in Nat
        BY <3>1, <4>1
      <4> QED BY <3>1, <4>1, <4>2
    <3>3. CASE m[1] # "telegram"
      BY <1>2, <3>1, <3>3
    <3> QED BY <3>2, <3>3
  <2>3. badge' \in {"none", "up", "down"}
    BY <1>2, <1>3 DEF FeedInv, FeedTypes
  <2>4. asked' \in Seq({"asked", "up", "down"})
    <3>1. PICK a \in Seq({"asked", "up", "down"}) : a = asked
      BY DEF FeedInv, FeedTypes
    <3>2. Append(a, "asked") \in Seq({"asked", "up", "down"})
      BY Appended
    <3> QED BY <1>6, <3>1, <3>2
  <2> QED BY <1>1, <1>2, <1>5, <2>1, <2>2, <2>3, <2>4 DEF FeedInv, FeedTypes
<1>8. Sockets'
  <2>1. \A q \in Ws!Sock : sock[q].pipe = <<>> => sock'[q].pipe = <<>>
    BY <1>4
  <2> QED BY <1>1, <1>2, <1>4, <1>5, <2>1, PageIs DEF FeedInv, Sockets
<1>9. Registered' /\ Owed'
  BY <1>2, <1>4, <1>5 DEF FeedInv, Registered, Owed
<1>10. Alone' /\ Connected'
  BY <1>1, <1>2, <1>4, PageIs DEF FeedInv, Alone, Connected, Reliable
<1>11. \A t \in Ws!Telegram : got'[t] = got[t] \/ (m = Telling(t) /\ got'[t] = got[t] + 1)
  BY <1>2, <1>3 DEF FeedInv, FeedTypes
<1>12. Backed'
  <2>1. \A t \in Ws!Telegram : t \notin stored => m # Telling(t)
    BY <1>1 DEF FeedInv, Backed
  <2> QED BY <1>2, <1>4, <1>5, <1>11, <2>1 DEF FeedInv, Backed
<1>13. Once'
  <2> SUFFICES ASSUME Reliable, NEW t \in Ws!Telegram
               PROVE  /\ got'[t] \in {0, 1} /\ Distinct(job[Telling(t)].todo)
                      /\ got'[t] = 1 => job[Telling(t)].pc = "sending"
                      /\ \A q \in Ws!Page :
                           /\ Telling(t) \in Elements(sock'[q].pipe) =>
                                /\ got'[t] = 0 /\ q \notin Tos(job[Telling(t)].todo)
                                /\ job[Telling(t)].pc = "sending" /\ OnWay(t, sock'[q].pipe)
                           /\ got'[t] = 1 /\ Live(q)' => q \notin Tos(job[Telling(t)].todo)
    BY <1>2, <1>5 DEF Once, Reliable
  <2>1. /\ got[t] \in {0, 1} /\ Distinct(job[Telling(t)].todo)
        /\ got[t] = 1 => job[Telling(t)].pc = "sending"
        /\ \A q \in Ws!Page :
             /\ Telling(t) \in Elements(sock[q].pipe) =>
                  /\ got[t] = 0 /\ q \notin Tos(job[Telling(t)].todo)
                  /\ job[Telling(t)].pc = "sending" /\ OnWay(t, sock[q].pipe)
             /\ got[t] = 1 /\ Live(q) => q \notin Tos(job[Telling(t)].todo)
    BY DEF FeedInv, Once
  <2>2. PICK p \in Seq(Sent) : p = sock[s].pipe /\ p # <<>> /\ p[1] = m /\ Tail(p) = sock'[s].pipe
    BY <1>1 DEF m
  <2>3. /\ Len(p) \in Nat \ {0} /\ DOMAIN p = 1 .. Len(p) /\ DOMAIN Tail(p) = 1 .. Len(p) - 1
        /\ \A i \in 1 .. Len(p) - 1 : Tail(p)[i] = p[i + 1]
    BY <2>2, Beheaded
  <2>4. /\ 1 \in 1 .. Len(p)
        /\ \A i \in 1 .. Len(p) - 1 : i + 1 \in 1 .. Len(p) /\ i + 1 # 1
        /\ \A i, k \in 1 .. Len(p) - 1 : i + 1 = k + 1 => i = k
    <3>1. Len(p) \in Nat \ {0}
      BY <2>3
    <3> QED BY <3>1
  <2>5. CASE m # Telling(t)
    <3>1. ASSUME Telling(t) \in Elements(sock'[s].pipe) PROVE OnWay(t, sock'[s].pipe)
      <4>1. OnWay(t, p)
        BY <1>1, <1>4, <2>1, <2>2, <3>1, PageIs
      <4>2. PICK i \in 1 .. Len(p) - 1 : Tail(p)[i] = Telling(t)
        BY <2>2, <2>3, <3>1 DEF Elements
      <4>3. \A k \in 1 .. Len(p) - 1 : Tail(p)[k] = Telling(t) => k + 1 = i + 1
        BY <2>3, <2>4, <4>1, <4>2 DEF OnWay
      <4>4. \A k \in 1 .. Len(p) - 1 : Tail(p)[k] = Telling(t) => k = i
        BY <2>4, <4>2, <4>3
      <4>5. DOMAIN Tail(p) = 1 .. Len(p) - 1
        BY <2>3
      <4>6. \A r : r = Tail(p) => OnWay(t, r)
        BY <4>2, <4>4, <4>5 DEF OnWay
      <4> QED BY <2>2, <4>6
    <3>2. got'[t] = got[t]
      BY <1>11, <2>5
    <3>3. \A q \in Ws!Page : /\ Telling(t) \in Elements(sock'[q].pipe) =>
                                  Telling(t) \in Elements(sock[q].pipe) /\ OnWay(t, sock'[q].pipe)
                             /\ Live(q)' = Live(q)
      <4> SUFFICES ASSUME NEW q \in Ws!Page
                   PROVE  /\ Telling(t) \in Elements(sock'[q].pipe) =>
                               Telling(t) \in Elements(sock[q].pipe) /\ OnWay(t, sock'[q].pipe)
                          /\ Live(q)' = Live(q)
        OBVIOUS
      <4>1. CASE q = s
        BY <1>4, <3>1, <4>1, PageIs
      <4>2. CASE q # s
        BY <1>4, <2>1, <4>2, PageIs
      <4> QED BY <4>1, <4>2
    <3> QED BY <2>1, <3>2, <3>3
  <2>6. CASE m = Telling(t)
    <3>1. Telling(t) \in Elements(sock[s].pipe)
      BY <1>1, <2>6
    <3>2. got[t] = 0 /\ s \notin Tos(job[Telling(t)].todo) /\ job[Telling(t)].pc = "sending" /\ OnWay(t, p)
      BY <1>1, <2>1, <2>2, <3>1
    <3>3. Telling(t) \notin Elements(Tail(p))
      <4>1. \A i \in 1 .. Len(p) - 1 : Tail(p)[i] # Telling(t)
        BY <2>2, <2>3, <2>4, <2>6, <3>2 DEF OnWay
      <4> QED BY <2>3, <4>1 DEF Elements
    <3>4. ASSUME NEW q \in Ws!Page, q # s PROVE ~Live(q) /\ Elements(sock'[q].pipe) = {}
      <4>1. ~Live(q)
        BY <1>1, <3>4 DEF FeedInv, Alone
      <4>2. sock'[q].pipe = <<>>
        BY <1>4, <3>4, <4>1, PageIs DEF FeedInv, Sockets
      <4> QED BY <4>1, <4>2 DEF Elements
    <3>5. got'[t] \in {0, 1}
      BY <1>11, <3>2
    <3>6. \A q \in Ws!Page : Telling(t) \notin Elements(sock'[q].pipe) /\ (Live(q)' => q = s)
      BY <1>4, <2>2, <3>3, <3>4, PageIs
    <3> QED BY <2>1, <3>2, <3>5, <3>6
  <2> QED BY <2>5, <2>6
<1>14. Told'
  <2>1. CASE m[1] = "telegram"
    <3>1. \A q \in Ws!Page : WillHear(q) => WillHear(q)'
      <4> SUFFICES ASSUME NEW q \in Ws!Page, WillHear(q) PROVE WillHear(q)'
        OBVIOUS
      <4>1. CASE q # s
        BY <1>2, <1>4, <4>1, PageIs DEF WillHear
      <4>2. CASE \E f \in 1 .. feedEnv.flips : q \in Tos(job[<<"state", f>>].todo)
        BY <1>2, <4>2 DEF WillHear
      <4>3. CASE q = s /\ \E i \in DOMAIN sock[s].pipe : sock[s].pipe[i][1] = "state"
        <5>1. PICK p \in Seq(Sent) : p = sock[s].pipe /\ p # <<>> /\ p[1] = m /\ Tail(p) = sock'[s].pipe
          BY <1>1 DEF m
        <5>2. \E x \in Elements(p) : x[1] = "state"
          BY <4>3, <5>1 DEF Elements
        <5>3. \E x \in Elements(Tail(p)) : x[1] = "state"
          BY <1>1, <2>1, <5>1, <5>2
        <5> QED BY <4>3, <5>1, <5>3 DEF WillHear, Elements
      <4> QED BY <4>1, <4>2, <4>3 DEF WillHear
    <3>2. \A q \in Ws!Page : Ws!Takes(q)' = Ws!Takes(q)
      BY <1>4, PageIs
    <3> QED BY <1>2, <2>1, <3>1, <3>2 DEF FeedInv, Told, Right, Followed
  <2>2. CASE m[1] # "telegram" /\ Followed
    <3>1. asked' = Append(asked, "asked")
      BY <1>2, <2>2 DEF Ws!Refresh, Followed
    <3>2. PICK a \in Seq({"asked", "up", "down"}) : a = asked
      BY DEF FeedInv, FeedTypes
    <3>3. /\ asked' # <<>> /\ Len(asked') = Len(a) + 1 /\ Len(a) \in Nat
          /\ DOMAIN a = 1 .. Len(a) /\ DOMAIN asked' = 1 .. Len(a) + 1
          /\ \A i \in 1 .. Len(a) : asked'[i] = a[i]
          /\ asked'[Len(a) + 1] = "asked"
      BY <3>1, <3>2, Appended
    <3>4. Right'
      BY <3>3 DEF Right
    <3>5. ASSUME NEW i \in DOMAIN asked', NEW k \in DOMAIN asked', i < k, asked'[k] # "asked"
          PROVE  asked'[i] # "asked"
      <4>1. k \in 1 .. Len(a) /\ i \in 1 .. Len(a)
        BY <3>3, <3>5
      <4> QED BY <2>2, <3>2, <3>3, <3>5, <4>1 DEF FeedInv, Told
    <3> QED BY <3>3, <3>4, <3>5 DEF Told
  <2>3. CASE ~Followed
    BY <1>2, <2>3 DEF Told, Followed
  <2> QED BY <2>1, <2>2, <2>3
<1> QED BY <1>7, <1>8, <1>9, <1>10, <1>12, <1>13, <1>14 DEF FeedInv

(* Requests for the config and their answers touch nothing else. *)
LEMMA RequestKeeps ==
  ASSUME FeedInv, UNCHANGED <<feedEnv, job, stored, registry, filtered, sock, hook, got, bus>>,
         badge' \in {"none", "up", "down"}, asked' \in Seq({"asked", "up", "down"}), Told'
  PROVE  FeedInv'
<1>1. Ws!Job' = Ws!Job /\ Ws!Telegram' = Ws!Telegram
  BY DEF Ws!Job, Ws!Telegram
<1>2. FeedTypes'
  <2>1. Socket' = Socket
    BY <1>1 DEF Socket, Sent
  <2> QED BY <1>1, <2>1 DEF FeedInv, FeedTypes
<1>3. Sockets' /\ Registered' /\ Backed' /\ Owed'
  BY <1>1 DEF FeedInv, Sockets, Registered, Backed, Owed, Live, Ws!Takes
<1>4. Alone' /\ Connected'
  BY DEF FeedInv, Alone, Connected, Live, Reliable
<1>5. Once'
  BY <1>1 DEF FeedInv, Once, Live, Reliable, OnWay
<1> QED BY <1>2, <1>3, <1>4, <1>5 DEF FeedInv

(* The server answers a request with the state of the bus at that moment. *)
LEMMA AnswerKeeps ==
  ASSUME FeedInv, NEW i \in DOMAIN asked, Ws!ServerAnswers(i)
  PROVE  FeedInv'
<1>1. /\ UNCHANGED <<feedEnv, job, stored, registry, filtered, sock, hook, got, bus, badge>>
      /\ asked[i] = "asked" /\ asked' = [asked EXCEPT ![i] = Ws!State(bus.up)]
      /\ "httpFaults" \in feedEnv.habits \/ \A k \in 1 .. i - 1 : asked[k] # "asked"
  BY DEF Ws!ServerAnswers, Ws!server, Ws!page
<1>2. PICK a \in Seq({"asked", "up", "down"}) : a = asked
  BY DEF FeedInv, FeedTypes
<1>3. Ws!State(bus.up) \in {"up", "down"}
  BY DEF Ws!State
<1>4. /\ Len(a) \in Nat /\ DOMAIN a = 1 .. Len(a) /\ i \in 1 .. Len(a) /\ asked' \in Seq({"asked", "up", "down"})
      /\ DOMAIN asked' = 1 .. Len(a) /\ Len(asked') = Len(a)
      /\ \A k \in 1 .. Len(a) : asked'[k] = IF k = i THEN Ws!State(bus.up) ELSE a[k]
  <2>1. Len(a) \in Nat /\ DOMAIN a = 1 .. Len(a) /\ i \in 1 .. Len(a)
    BY <1>2, LenProperties
  <2>2. \A k \in 1 .. Len(a) : a[k] \in {"asked", "up", "down"}
    BY <2>1, ElementOfSeq
  <2>3. asked' = [k \in 1 .. Len(a) |-> IF k = i THEN Ws!State(bus.up) ELSE a[k]]
    BY <1>1, <1>2, <2>1
  <2>4. \A k \in 1 .. Len(a) : (IF k = i THEN Ws!State(bus.up) ELSE a[k]) \in {"asked", "up", "down"}
    BY <1>3, <2>2
  <2>5. asked' \in Seq({"asked", "up", "down"})
    BY <2>1, <2>3, <2>4, SeqDef
  <2>6. Len(asked') \in Nat /\ DOMAIN asked' = 1 .. Len(asked')
    BY <2>5, LenProperties
  <2>7. Len(asked') = Len(a)
    BY <2>1, <2>3, <2>6
  <2> QED BY <2>1, <2>3, <2>5, <2>7
<1>5. Told'
  <2> SUFFICES ASSUME Followed PROVE Told'
    BY <1>1 DEF Told, Followed
  <2>1. asked' # <<>>
    BY <1>4, EmptySeq
  <2>2. ASSUME NEW j \in DOMAIN asked', NEW k \in DOMAIN asked', j < k, asked'[k] # "asked"
        PROVE  asked'[j] # "asked"
    <3>1. \A l \in 1 .. Len(a) : l < i => a[l] # "asked"
      BY <1>1, <1>2, <1>4 DEF Followed
    <3>2. CASE j = i
      BY <1>3, <1>4, <3>2
    <3>3. CASE j # i /\ k = i
      BY <1>4, <2>2, <3>1, <3>3
    <3>4. CASE j # i /\ k # i
      BY <1>2, <1>4, <2>2, <3>4 DEF FeedInv, Told
    <3> QED BY <3>2, <3>3, <3>4
  <2>3. Right => Right'
    <3>1. Len(a) \in 1 .. Len(a)
      BY <1>4
    <3>2. bus' = bus /\ asked # <<>>
      BY <1>1, <1>2, <1>4, EmptySeq
    <3> QED BY <1>2, <1>4, <2>1, <3>1, <3>2 DEF Right
  <2>4. \A s \in Ws!Page : (Ws!Takes(s)' => Ws!Takes(s)) /\ (WillHear(s) => WillHear(s)')
    BY <1>1 DEF Ws!Takes, WillHear
  <2> QED BY <1>1, <2>1, <2>2, <2>3, <2>4 DEF FeedInv, Told
<1> QED BY <1>1, <1>4, <1>5, RequestKeeps DEF FeedInv, FeedTypes

(* An answer is shown, in the order of the requests unless they overtake each
   other, or lost. *)
LEMMA ShownKeeps ==
  ASSUME FeedInv, NEW i \in DOMAIN asked, Ws!AnswerShown(i) \/ Ws!AnswerLost(i)
  PROVE  FeedInv'
<1>1. /\ UNCHANGED <<feedEnv, job, stored, registry, filtered, sock, hook, got, bus>>
      /\ asked' = Ws!RemoveAt(asked, i)
      /\ \/ badge' = asked[i] /\ asked[i] # "asked" /\ (i > 1 => "httpFaults" \in feedEnv.habits)
         \/ UNCHANGED badge /\ "httpFaults" \in feedEnv.habits
  BY DEF Ws!AnswerShown, Ws!AnswerLost, Ws!server, Ws!page
<1>2. PICK a \in Seq({"asked", "up", "down"}) : a = asked
  BY DEF FeedInv, FeedTypes
<1>3. /\ asked' \in Seq({"asked", "up", "down"}) /\ Len(asked') = Len(a) - 1
      /\ Len(a) \in Nat /\ DOMAIN a = 1 .. Len(a) /\ DOMAIN asked' = 1 .. Len(a) - 1
      /\ \A k \in 1 .. Len(a) - 1 : asked'[k] = IF k < i THEN a[k] ELSE a[k + 1]
  <2>1. i \in DOMAIN a
    BY <1>2
  <2>2. asked' = Ws!RemoveAt(a, i)
    BY <1>1, <1>2
  <2>3. /\ Ws!RemoveAt(a, i) \in Seq({"asked", "up", "down"}) /\ Len(Ws!RemoveAt(a, i)) = Len(a) - 1
        /\ Len(a) \in Nat /\ DOMAIN a = 1 .. Len(a) /\ DOMAIN Ws!RemoveAt(a, i) = 1 .. Len(a) - 1
        /\ \A k \in 1 .. Len(a) - 1 : Ws!RemoveAt(a, i)[k] = IF k < i THEN a[k] ELSE a[k + 1]
    BY <2>1, RemovedIs
  <2> QED BY <2>2, <2>3
<1>4. i \in 1 .. Len(a) /\ \A k \in 1 .. Len(a) : a[k] \in {"asked", "up", "down"}
  BY <1>2, <1>3, ElementOfSeq
<1>5. badge' \in {"none", "up", "down"}
  BY <1>1, <1>2, <1>4 DEF FeedInv, FeedTypes
<1>6. Told'
  <2> SUFFICES ASSUME Followed PROVE Told'
    BY <1>1 DEF Told, Followed
  <2>1. i = 1 /\ badge' = a[1] /\ a[1] # "asked"
    BY <1>1, <1>2, <1>3, <1>4 DEF Followed
  <2>2. badge' # "none"
    BY <1>4, <2>1
  <2>3. \A k \in 1 .. Len(a) - 1 : asked'[k] = a[k + 1] /\ k + 1 \in 1 .. Len(a)
    BY <1>3, <2>1
  <2>4. ASSUME NEW j \in DOMAIN asked', NEW k \in DOMAIN asked', j < k, asked'[k] # "asked"
        PROVE  asked'[j] # "asked"
    <3>1. j + 1 < k + 1
      BY <1>3, <2>4
    <3> QED BY <1>2, <1>3, <2>3, <2>4, <3>1 DEF FeedInv, Told
  <2>5. Right => Right'
    <3>1. asked # <<>>
      BY <1>2, <1>3, <1>4, EmptySeq
    <3>2. CASE Len(a) = 1
      <4>1. asked' = <<>>
        BY <1>3, <3>2, EmptySeq
      <4> QED BY <1>1, <1>2, <2>1, <3>1, <3>2, <4>1 DEF Right
    <3>3. CASE Len(a) # 1
      <4>1. Len(a) - 1 \in 1 .. Len(a) - 1 /\ (Len(a) - 1) + 1 = Len(a)
        BY <1>3, <1>4, <3>3
      <4>2. asked' # <<>> /\ asked'[Len(asked')] = a[Len(a)]
        BY <1>3, <2>3, <4>1, EmptySeq
      <4> QED BY <1>1, <1>2, <3>1, <4>2 DEF Right
    <3> QED BY <3>2, <3>3
  <2>6. \A s \in Ws!Page : (Ws!Takes(s)' => Ws!Takes(s)) /\ (WillHear(s) => WillHear(s)')
    BY <1>1 DEF Ws!Takes, WillHear
  <2> QED BY <1>1, <2>2, <2>4, <2>5, <2>6 DEF FeedInv, Told
<1> QED BY <1>1, <1>3, <1>5, <1>6, RequestKeeps
-----------------------------------------------------------------------------
LEMMA FeedStepKeeps == FeedInv /\ [Ws!Next]_(Ws!vars) => FeedInv'
<1> SUFFICES ASSUME FeedInv, [Ws!Next]_(Ws!vars) PROVE FeedInv'
  OBVIOUS
<1>1. CASE Ws!ServerStep
  <2>1. ASSUME NEW t \in Ws!Telegram, Ws!StoreAnswers(t) PROVE FeedInv'
    BY <2>1, TaskKeeps, BroadcastBegins
  <2>2. ASSUME NEW j \in Ws!Job, Ws!SendNext(j) PROVE FeedInv'
    BY <2>2, SendKeeps
  <2>3. ASSUME NEW s \in Ws!Sock, Ws!Accept(s) \/ Ws!EndpointEnds(s) PROVE FeedInv'
    BY <2>3, AcceptKeeps, EndpointKeeps
  <2> QED BY <1>1, <2>1, <2>2, <2>3 DEF Ws!ServerStep
<1>2. CASE Ws!PageStep
  <2>1. ASSUME NEW s \in Ws!Sock, Ws!OnOpen(s) \/ Ws!OnClose(s) \/ Ws!OnMessage(s) PROVE FeedInv'
    BY <2>1, OpenKeeps, CloseKeeps, MessageKeeps
  <2>2. ASSUME NEW i \in DOMAIN asked, Ws!ServerAnswers(i) \/ Ws!AnswerShown(i) PROVE FeedInv'
    BY <2>2, AnswerKeeps, ShownKeeps
  <2> QED BY <1>2, <2>1, <2>2, TimerKeeps DEF Ws!PageStep
<1>3. ASSUME NEW t \in Ws!Telegram, Ws!Receive(t) PROVE FeedInv'
  BY <1>3, TaskKeeps
<1>4. ASSUME NEW s \in Ws!Sock, Ws!AcceptGone(s) \/ Ws!Break(s) PROVE FeedInv'
  BY <1>4, AcceptKeeps, BreakKeeps
<1>5. ASSUME NEW i \in DOMAIN asked, Ws!AnswerLost(i) PROVE FeedInv'
  BY <1>5, ShownKeeps
<1>6. CASE UNCHANGED Ws!vars
  <2>1. UNCHANGED <<feedEnv, job, stored, registry, filtered, sock, hook, got, bus, badge, asked>>
    BY <1>6 DEF Ws!vars
  <2>2. Told'
    BY <2>1 DEF FeedInv, Told, Right, Followed, Ws!Takes, WillHear
  <2> QED BY <2>1, <2>2, RequestKeeps DEF FeedInv, FeedTypes
<1> QED BY <1>1, <1>2, <1>3, <1>4, <1>5, <1>6, BusKeeps, FiltersKeep DEF Ws!Next

(* The inductive invariant of the live feed. *)
THEOREM FeedInvariance == Ws!Sized /\ Ws!Spec => []FeedInv
<1>1. Ws!Sized /\ Ws!Init => FeedInv
  BY FeedInit
<1>2. FeedInv /\ [Ws!Next]_(Ws!vars) => FeedInv'
  BY FeedStepKeeps
<1> QED BY <1>1, <1>2, PTL DEF Ws!Spec

(* What reaches a page over its WebSocket was stored first, came over one
   socket and at most once, nobody whose link holds was left out of a
   broadcast, and the badge tells the state of the bus (ws_manager.py,
   useWebSocket.ts). *)
THEOREM FeedStaysTrue == Ws!Sized /\ Ws!Spec => []Ws!FeedIsTrue
<1>1. FeedInv => Ws!TypeOK
  <2> SUFFICES ASSUME FeedInv PROVE Ws!TypeOK
    OBVIOUS
  <2>1. job \in [Ws!Job -> [pc : {"none", "storing", "failed", "sending"},
                            todo : Seq([to : Ws!Sock, only : BOOLEAN]), due : SUBSET Ws!Sock]]
    BY DEF FeedInv, FeedTypes, JobState, Addressee
  <2>2. Ws!IsInjective(registry) /\ filtered \subseteq Ws!ToSet(registry)
    BY DEF FeedInv, Registered, Ws!IsInjective, Ws!ToSet, Elements
  <2>3. \A s \in Ws!Sock : sock[s].client \in {"none", "connecting", "open", "closing"}
                           /\ sock[s].endpoint \in {"none", "receiving", "gone"}
    BY DEF FeedInv, FeedTypes, Socket
  <2>4. hook.ws \in Ws!Page /\ hook.timer \in BOOLEAN /\ hook.connected \in BOOLEAN
    BY DEF FeedInv, FeedTypes
  <2>5. stored \subseteq Ws!Telegram /\ registry \in Seq(Ws!Sock) /\ badge \in {"none", "up", "down"}
    BY DEF FeedInv, FeedTypes
  <2> QED BY <2>1, <2>2, <2>3, <2>4, <2>5 DEF Ws!TypeOK
<1>2. FeedInv => Ws!FeedIsStored
  BY DEF FeedInv, Backed, Ws!FeedIsStored
<1>3. FeedInv => Ws!OneSocket
  <2> SUFFICES ASSUME FeedInv, Reliable
               PROVE  /\ \A s, r \in Ws!Page :
                           {sock[s].client, sock[r].client} \subseteq {"connecting", "open"} => s = r
                      /\ \A t \in Ws!Telegram : got[t] <= 1
    BY DEF Ws!OneSocket, Reliable
  <2>1. \A s, r \in Ws!Page : Live(s) /\ Live(r) => s = r
    BY DEF FeedInv, Alone
  <2>2. \A t \in Ws!Telegram : got[t] \in {0, 1}
    BY DEF FeedInv, Once
  <2>3. \A t \in Ws!Telegram : got[t] <= 1
    BY <2>2
  <2> QED BY <2>1, <2>3 DEF Live
<1>4. FeedInv => Ws!NobodyLeftOut
  BY DEF FeedInv, Owed, Tos, Ws!NobodyLeftOut
<1>5. FeedInv => Ws!BadgeTrue
  <2> SUFFICES ASSUME FeedInv, Followed, asked = <<>>, hook.connected,
                      \A s \in Ws!Page : sock[s].client = "open" => Ws!Takes(s) /\ sock[s].pipe = <<>>,
                      \A j \in Ws!Job : j[1] = "state" => job[j].todo = <<>>
               PROVE  badge = Ws!State(bus.up)
    BY DEF Ws!BadgeTrue, Followed
  <2>1. PICK s \in Ws!Page : Ws!Takes(s) /\ sock[s].pipe = <<>>
    BY DEF FeedInv, Connected
  <2>2. ~WillHear(s)
    <3>1. DOMAIN sock[s].pipe = {}
      BY <2>1
    <3>2. \A f \in 1 .. feedEnv.flips : job[<<"state", f>>].todo = <<>>
      BY JobIs DEF FeedInv
    <3>3. Tos(<<>>) = {}
      BY DEF Tos
    <3> QED BY <3>1, <3>2, <3>3 DEF WillHear
  <2> QED BY <2>1, <2>2 DEF FeedInv, Told, Right
<1>6. FeedInv => Ws!FeedIsTrue
  BY <1>1, <1>2, <1>3, <1>4, <1>5 DEF Ws!FeedIsTrue
<1> QED BY <1>6, FeedInvariance, PTL
-----------------------------------------------------------------------------
(* The bridge of Home Assistant, which takes the place of the other one: what
   both have has one name. *)
CONSTANTS HaEnvs
VARIABLES haEnv, haTs, flushed, events, local, legacy, watcher

Ha == INSTANCE HaLiveBridge WITH Envs <- HaEnvs, env <- haEnv, ts <- haTs

HaPlaces == 1 .. Len(haTs)
Utc == haEnv.habits \cap {"east", "west"} = {}
Plain == haEnv.habits \cap {"busy", "east", "west"} = {}
Kept == haEnv.habits \cap (Ha!Lossy \cup {"east"}) = {}

(* The telegram that _last_seen is the timestamp of. *)
Mark == IF pc = "replay" THEN replay[Len(replay)] ELSE Ha!Newest

HaTypes ==
  /\ haEnv \in [source : {"ha_websocket", "poll"}, habits : SUBSET Ha!Habits]
  /\ haTs \in Seq(Nat) /\ Len(haTs) <= MaxRows /\ \A r \in HaPlaces : haTs[r] >= Ha!First
  /\ flushed \in 0 .. Len(haTs)
  /\ pc \in (IF Ha!Polls THEN {"sleep", "replay", "stopped"}
             ELSE {"connect", "query", "replay", "listen", "backoff", "stopped"})
  /\ pc # "sleep" => connected = (pc \notin {"connect", "backoff", "stopped"})
  /\ replay \in Seq(HaPlaces) /\ events \in Seq(HaPlaces) /\ feed \in Seq(HaPlaces)
  /\ drops \in 0 .. MaxDrops /\ watcher \in {"start", "running", "over"}
  /\ local \in BOOLEAN /\ legacy \in BOOLEAN /\ seen \in Nat
  /\ pc = "replay" <=> replay # <<>>
  /\ events # <<>> => ~Ha!Polls /\ pc \in {"query", "replay", "listen"}
  /\ Utc => ~local

Clock ==
  \A r, s \in HaPlaces :
    r < s => haTs[r] <= haTs[s] /\ ("sameTs" \notin haEnv.habits => haTs[r] < haTs[s])

HaRuns == InRow(replay) /\ InRow(events) /\ (events # <<>> => events[Len(events)] = Len(haTs))

(* Timestamps in UTC tell the telegrams shown from those to come. *)
Stands ==
  Utc =>
    /\ pc = "replay" => Ha!Newest < replay[1] /\ seen = haTs[Mark] /\ (Ha!Polls \/ feed # <<>>)
    /\ pc \notin {"replay", "stopped"} =>
         seen = IF feed # <<>> THEN haTs[Mark] ELSE IF Ha!Polls THEN Ha!First - 1 ELSE 0

(* What is announced comes behind what was replayed, *)
Single ==
  Plain =>
    /\ \A i, k \in DOMAIN feed : feed[i] = feed[k] => i = k
    /\ feed # <<>> => feed[Len(feed)] = Ha!Newest
    /\ events # <<>> => Mark < events[1] /\ (pc = "query" => feed = <<>>)

(* ... and close behind it. *)
Filled ==
  Kept /\ pc # "stopped" =>
    /\ \A r \in HaPlaces :
         r <= Mark /\ (Ha!Polls \/ r >= feed[1]) => r \in Elements(feed) \cup Elements(replay)
    /\ pc = "replay" => replay[1] = Ha!Newest + 1
    /\ ~Ha!Polls => flushed = Len(haTs) /\ Len(haTs) - Ha!Newest <= Limit - 1
    /\ ~Ha!Polls /\ pc \in {"replay", "listen"} /\ feed # <<>> =>
         IF events = <<>> THEN Mark = Len(haTs) ELSE events[1] <= Mark + 1

HaInv == HaTypes /\ Clock /\ HaRuns /\ Stands /\ Single /\ Filled
-----------------------------------------------------------------------------
LEMMA MaxIs ==
  ASSUME NEW S \in SUBSET Nat, NEW m \in S, \A y \in S : y <= m
  PROVE  Ha!Max(S) = m
<1>1. \A x \in S : (\A y \in S : x >= y) => x = m
  BY SMT
<1>2. \A y \in S : m >= y
  BY SMT
<1> QED BY <1>1, <1>2 DEF Ha!Max

(* Newest is the greatest of what was shown. *)
LEMMA NewestIs ==
  ASSUME HaTypes
  PROVE  /\ Len(haTs) \in Nat /\ Ha!Newest \in 0 .. Len(haTs)
         /\ \A i \in DOMAIN feed : feed[i] <= Ha!Newest /\ feed[i] \in HaPlaces
         /\ feed = <<>> => Ha!Newest = 0
         /\ feed # <<>> => Ha!Newest \in HaPlaces /\ Ha!Newest \in Elements(feed)
<1>1. Len(haTs) \in Nat /\ feed \in Seq(HaPlaces)
  BY LenProperties DEF HaTypes
<1>2. \A i \in DOMAIN feed : feed[i] \in HaPlaces
  BY <1>1, ElementOfSeq, LenProperties
<1> DEFINE S == {0} \cup Elements(feed)
           U == {u \in Nat : \A y \in S : y <= u}
<1>3. S \in SUBSET (0 .. Len(haTs)) /\ S \in SUBSET Nat
  BY <1>1, <1>2 DEF Elements, HaPlaces
<1>4. Len(haTs) \in U
  BY <1>1, <1>3
<1>5. PICK m \in U : \A u \in U : m <= u
  <2> HIDE DEF U
  <2>1. U \in SUBSET Nat
    BY DEF U
  <2> QED BY <1>4, <2>1, LeastNatural
<1>6. m \in Nat /\ \A y \in S : y <= m
  BY <1>5
<1>7. m \in S
  <2> SUFFICES ASSUME m \notin S PROVE FALSE
    OBVIOUS
  <2>1. m # 0
    OBVIOUS
  <2>2. \A y \in S : y \in Nat /\ y <= m /\ y # m
    BY <1>3, <1>6
  <2>3. m - 1 \in Nat /\ \A y \in S : y <= m - 1
    <3> HIDE DEF S
    <3> QED BY <1>6, <2>1, <2>2
  <2>4. m <= m - 1
    BY <1>5, <2>3
  <2> QED BY <1>6, <2>4
<1>8. Ha!Newest = m
  <2>1. Ha!Newest = Ha!Max(S)
    BY DEF Ha!Newest, Ha!ToSet, Elements
  <2> HIDE DEF S
  <2> QED BY <1>3, <1>6, <1>7, <2>1, MaxIs
<1>9. feed = <<>> => S = {0}
  BY DEF Elements
<1>10. feed # <<>> => \E i \in DOMAIN feed : feed[i] \in HaPlaces
  BY <1>1, <1>2, EmptySeq, LenProperties
<1>11. \A i \in DOMAIN feed : feed[i] \in S
  BY DEF Elements
<1>12. m \in 0 .. Len(haTs)
  BY <1>3, <1>7
<1>13. feed # <<>> => m # 0
  BY <1>6, <1>10, <1>11 DEF HaPlaces
<1>14. m \in Elements(feed) \/ m = 0
  BY <1>7
<1>15. feed = <<>> => m = 0
  BY <1>7, <1>9
<1> HIDE DEF S, U
<1> QED BY <1>1, <1>2, <1>6, <1>8, <1>11, <1>12, <1>13, <1>14, <1>15 DEF HaPlaces

LEMMA NewestAfter ==
  ASSUME HaTypes, NEW x \in HaPlaces, feed' = Append(feed, x)
  PROVE  /\ Ha!Newest' = IF x > Ha!Newest THEN x ELSE Ha!Newest
         /\ feed' \in Seq(HaPlaces) /\ feed' # <<>> /\ Len(feed') = Len(feed) + 1
         /\ feed'[Len(feed')] = x /\ \A i \in DOMAIN feed : feed'[i] = feed[i]
         /\ DOMAIN feed = 1 .. Len(feed) /\ DOMAIN feed' = 1 .. Len(feed) + 1 /\ Len(feed) \in Nat
         /\ Elements(feed') = Elements(feed) \cup {x}
         /\ feed # <<>> => feed'[1] = feed[1]
         /\ feed = <<>> => feed'[1] = x
<1>1. feed \in Seq(HaPlaces)
  BY DEF HaTypes
<1>2. PICK q \in Seq(HaPlaces) : q = feed
  BY <1>1
<1>3. /\ feed' \in Seq(HaPlaces) /\ feed' # <<>> /\ Len(feed') = Len(feed) + 1
      /\ DOMAIN feed = 1 .. Len(feed) /\ DOMAIN feed' = 1 .. Len(feed) + 1 /\ Len(feed) \in Nat
      /\ \A i \in 1 .. Len(feed) : feed'[i] = feed[i]
      /\ feed'[Len(feed) + 1] = x
      /\ Elements(feed') = Elements(feed) \cup {x}
  BY <1>2, Appended
<1>4. /\ feed # <<>> => feed'[1] = feed[1]
      /\ feed = <<>> => feed'[1] = x
  BY <1>1, <1>3, EmptySeq
<1>5. Ha!Newest' = IF x > Ha!Newest THEN x ELSE Ha!Newest
  <2> DEFINE S == {0} \cup Elements(feed')
             m == IF x > Ha!Newest THEN x ELSE Ha!Newest
  <2>1. /\ Ha!Newest \in Nat /\ x \in Nat /\ \A y \in Elements(feed) : y \in Nat /\ y <= Ha!Newest
        /\ Ha!Newest \in Elements(feed) \/ Ha!Newest = 0
    <3>1. \A y \in Elements(feed) : y \in HaPlaces /\ y <= Ha!Newest
      BY NewestIs DEF Elements
    <3>2. Ha!Newest \in Nat /\ (Ha!Newest \in Elements(feed) \/ Ha!Newest = 0)
      BY NewestIs
    <3> QED BY <3>1, <3>2 DEF HaPlaces
  <2>2. S \in SUBSET Nat /\ m \in S /\ \A y \in S : y <= m
    BY <1>3, <2>1
  <2>3. Ha!Newest' = Ha!Max(S)
    BY DEF Ha!Newest, Ha!ToSet, Elements
  <2> HIDE DEF S, m
  <2>4. Ha!Newest' = m
    BY <2>2, <2>3, MaxIs
  <2> QED BY <2>4 DEF m
<1> QED BY <1>3, <1>4, <1>5

LEMMA HabitsKept ==
  ASSUME HaTypes
  PROVE  /\ Ha!Polls <=> haEnv.source = "poll"
         /\ Plain => Utc /\ "busy" \notin haEnv.habits
         /\ Kept => Utc /\ "sameTs" \notin haEnv.habits
         /\ Kept /\ ~Ha!Polls => /\ "late" \notin haEnv.habits /\ "longGap" \notin haEnv.habits
                                 /\ "queryFails" \notin haEnv.habits
BY DEF Plain, Utc, Kept, Ha!Lossy, Ha!Polls

LEMMA ReadIs ==
  ASSUME HaTypes, Clock
  PROVE  /\ Len(haTs) \in Nat /\ flushed \in 0 .. Len(haTs)
         /\ \A r \in HaPlaces :
              /\ Ha!Read(r) \in Nat /\ haTs[r] \in Nat /\ haTs[r] >= 3 /\ (Utc => Ha!Read(r) = haTs[r])
              /\ \A s \in HaPlaces : r <= s => Ha!Read(r) <= Ha!Read(s) /\ haTs[r] <= haTs[s]
<1>1. Len(haTs) \in Nat /\ \A r \in HaPlaces : haTs[r] \in Nat
  <2>1. haTs \in Seq(Nat)
    BY DEF HaTypes
  <2> QED BY <2>1, ElementOfSeq, LenProperties DEF HaPlaces
<1>2. \A r \in HaPlaces : haTs[r] >= 3
  BY DEF HaTypes, Ha!First
<1> DEFINE d == IF ~local THEN 0 ELSE IF Ha!Has("east") THEN 2 ELSE -2
<1>3. \A r \in HaPlaces : Ha!Read(r) = haTs[r] + d
  BY DEF Ha!Read
<1>4. d \in {0, 2, -2} /\ (Utc => d = 0)
  BY DEF HaTypes
<1> HIDE DEF d
<1>5. \A r, s \in HaPlaces : r <= s => haTs[r] <= haTs[s]
  <2> SUFFICES ASSUME NEW r \in HaPlaces, NEW s \in HaPlaces, r <= s PROVE haTs[r] <= haTs[s]
    OBVIOUS
  <2>1. r = s \/ r < s
    BY DEF HaPlaces
  <2> QED BY <1>1, <2>1 DEF Clock
<1>6. \A r \in HaPlaces : Ha!Read(r) \in Nat /\ (Utc => Ha!Read(r) = haTs[r])
  BY <1>1, <1>2, <1>3, <1>4
<1>7. \A r, s \in HaPlaces : r <= s => Ha!Read(r) <= Ha!Read(s)
  BY <1>1, <1>3, <1>4, <1>5
<1> QED BY <1>1, <1>2, <1>5, <1>6, <1>7 DEF HaTypes

(* Of the rows in the database those before a timestamp are the first ones. *)
LEMMA HaOlderCounts ==
  ASSUME HaTypes, Clock, NEW t \in Nat
  PROVE  Ha!Older(t) \in 0 .. flushed /\ \A r \in 1 .. flushed : Ha!Read(r) < t <=> r <= Ha!Older(t)
<1> DEFINE S == {n \in 0 .. flushed : \A r \in 1 .. flushed : r > n => Ha!Read(r) >= t}
<1>1. /\ flushed \in Nat /\ \A r \in 1 .. flushed : r \in HaPlaces /\ Ha!Read(r) \in Nat
      /\ \A r, s \in 1 .. flushed : r <= s => Ha!Read(r) <= Ha!Read(s)
  <2>1. flushed \in Nat /\ \A r \in 1 .. flushed : r \in HaPlaces
    BY ReadIs DEF HaPlaces
  <2> QED BY <2>1, ReadIs
<1>2. flushed \in S /\ S \in SUBSET Nat
  BY <1>1
<1>3. PICK n \in S : \A m \in S : n <= m
  <2> HIDE DEF S
  <2> QED BY <1>2, LeastNatural
<1>4. ASSUME NEW r \in 1 .. flushed, r <= n PROVE Ha!Read(r) < t
  <2> SUFFICES ASSUME Ha!Read(r) >= t PROVE FALSE
    BY <1>1
  <2>1. \A s \in 1 .. flushed : s > r - 1 => Ha!Read(s) >= t
    <3> SUFFICES ASSUME NEW s \in 1 .. flushed, s > r - 1 PROVE Ha!Read(s) >= t
      OBVIOUS
    <3>1. r <= s
      BY <1>1
    <3> QED BY <1>1, <3>1
  <2>2. r - 1 \in S
    BY <1>1, <2>1
  <2>3. n <= r - 1 /\ n \in Nat
    BY <1>2, <1>3, <2>2
  <2> QED BY <1>4, <2>3
<1>5. n \in 0 .. flushed /\ \A r \in 1 .. flushed : Ha!Read(r) < t <=> r <= n
  BY <1>1, <1>3, <1>4
<1> QED BY <1>5 DEF Ha!Older

(* What a query finds: rows that follow each other behind the newest one shown,
   and where the store has none of the habits that lose some, close behind it. *)
LEMMA HaFreshRows ==
  ASSUME HaInv, pc \in {"query", "sleep"}, seen # 0
  PROVE  /\ Ha!Fresh \in Seq(HaPlaces) /\ InRow(Ha!Fresh)
         /\ Ha!Fresh # <<>> => /\ Ha!Fresh[Len(Ha!Fresh)] \in HaPlaces
                               /\ Utc => Ha!Newest < Ha!Fresh[1]
                               /\ Kept => Ha!Fresh[1] = Ha!Newest + 1
         /\ Kept /\ ~Ha!Polls =>
              IF Ha!Fresh = <<>> THEN Ha!Newest = Len(haTs) ELSE Ha!Fresh[Len(Ha!Fresh)] = Len(haTs)
         /\ Utc /\ ~Ha!Polls => feed # <<>>
<1> DEFINE lo == Ha!Older(seen + 1)
           hi == Ha!PageEnd
           n == Len(haTs)
           w == Ha!Newest
<1>1. /\ n \in Nat /\ flushed \in Nat /\ flushed <= n /\ w \in 0 .. n /\ seen \in Nat /\ seen + 1 \in Nat
      /\ feed = <<>> => w = 0
      /\ feed # <<>> => w \in HaPlaces
  BY NewestIs DEF HaInv, HaTypes
<1>2. /\ lo \in 0 .. flushed /\ \A r \in 1 .. flushed : Ha!Read(r) < seen + 1 <=> r <= lo
      /\ Ha!Older(seen) \in 0 .. flushed /\ \A r \in 1 .. flushed : Ha!Read(r) < seen <=> r <= Ha!Older(seen)
  BY <1>1, HaOlderCounts DEF HaInv
<1>3. \A r \in HaPlaces :
        /\ Ha!Read(r) \in Nat /\ haTs[r] \in Nat /\ haTs[r] >= 3 /\ (Utc => Ha!Read(r) = haTs[r])
        /\ \A s \in HaPlaces : r <= s => haTs[r] <= haTs[s]
  BY ReadIs DEF HaInv
<1>4. hi \in 0 .. flushed /\ (hi = flushed \/ hi = Ha!Older(seen) + Limit)
  <2>1. Ha!Older(seen) + Limit \in Nat
    BY <1>1, <1>2, BoundsAssumption
  <2> QED BY <1>1, <1>2, <2>1 DEF Ha!PageEnd
<1>5. ASSUME Utc
      PROVE  seen = IF feed # <<>> THEN haTs[w] ELSE IF Ha!Polls THEN 2 ELSE 0
  BY <1>5 DEF HaInv, Stands, Mark, Ha!First
<1>6. ASSUME Utc, lo < hi PROVE w <= lo
  <2> SUFFICES ASSUME feed # <<>>, lo < w PROVE FALSE
    BY <1>1, <1>2
  <2>1. lo + 1 \in 1 .. flushed /\ lo + 1 \in HaPlaces /\ lo + 1 <= w
    BY <1>1, <1>2, <1>4, <1>6 DEF HaPlaces
  <2>2. haTs[lo + 1] <= haTs[w]
    BY <1>1, <1>3, <2>1
  <2>3. ~(Ha!Read(lo + 1) < seen + 1)
    BY <1>2, <2>1
  <2> QED BY <1>1, <1>3, <1>5, <1>6, <2>1, <2>2, <2>3
<1>7. ASSUME Kept PROVE lo <= w
  <2> SUFFICES ASSUME lo > w PROVE FALSE
    BY <1>1, <1>2
  <2>1. Utc /\ "sameTs" \notin haEnv.habits
    BY <1>7, HabitsKept DEF HaInv
  <2>2. lo \in 1 .. flushed /\ lo \in HaPlaces
    BY <1>1, <1>2 DEF HaPlaces
  <2>3. haTs[lo] < seen + 1
    BY <1>2, <1>3, <2>1, <2>2
  <2>4. CASE feed # <<>>
    <3>1. w < lo /\ w \in HaPlaces
      BY <1>1, <2>4
    <3>2. haTs[w] < haTs[lo]
      BY <2>1, <2>2, <3>1 DEF HaInv, Clock
    <3> QED BY <1>1, <1>3, <1>5, <2>1, <2>2, <2>3, <2>4, <3>1, <3>2
  <2>5. CASE feed = <<>>
    BY <1>3, <1>5, <2>1, <2>2, <2>3, <2>5
  <2> QED BY <2>4, <2>5
<1>8. ASSUME Utc, ~Ha!Polls PROVE feed # <<>> /\ seen = haTs[w] /\ w \in HaPlaces
  BY <1>1, <1>5, <1>8
<1>9. ASSUME Kept, ~Ha!Polls PROVE hi = n /\ lo = w
  <2>1. Utc /\ "sameTs" \notin haEnv.habits /\ feed # <<>> /\ seen = haTs[w] /\ w \in HaPlaces
    BY <1>8, <1>9, HabitsKept DEF HaInv
  <2>2. flushed = n /\ n - w <= Limit - 1
    BY <1>9 DEF HaInv, Filled
  <2>3. w - 1 <= Ha!Older(seen)
    <3>1. CASE w = 1
      BY <1>2, <3>1
    <3>2. CASE w # 1
      <4>1. w - 1 \in HaPlaces /\ w - 1 < w /\ w - 1 \in 1 .. flushed
        BY <1>1, <2>1, <2>2, <3>2 DEF HaPlaces
      <4>2. haTs[w - 1] < haTs[w]
        BY <2>1, <4>1 DEF HaInv, Clock
      <4>3. Ha!Read(w - 1) < seen
        BY <1>3, <2>1, <4>1, <4>2
      <4> QED BY <1>2, <4>1, <4>3
    <3> QED BY <3>1, <3>2
  <2>4. hi = n
    BY <1>1, <1>2, <2>2, <2>3, BoundsAssumption DEF Ha!PageEnd
  <2>5. w \in 1 .. flushed /\ Ha!Read(w) < seen + 1
    BY <1>1, <1>3, <2>1, <2>2 DEF HaPlaces
  <2>6. w <= lo
    BY <1>2, <2>5
  <2>7. lo <= w
    BY <1>7, <1>9
  <2> QED BY <1>1, <1>2, <2>4, <2>6, <2>7
<1> DEFINE q == Consecutive(lo, hi)
<1>10. Ha!Fresh = q
  BY DEF Ha!Fresh, Ha!Consecutive, Consecutive
<1> HIDE DEF lo, hi, q, w, n
<1>11. lo \in Nat /\ hi \in Nat /\ hi <= n
  BY <1>1, <1>2, <1>4
<1>12. /\ q \in Seq(1 .. hi) /\ (hi <= lo => q = <<>>) /\ (lo < hi => Len(q) = hi - lo)
       /\ \A i \in DOMAIN q : q[i] = lo + i
  BY <1>11, ConsecutiveIs DEF q
<1>13. q \in Seq(HaPlaces)
  <2>1. \A r \in 1 .. hi : r \in HaPlaces
    BY <1>1, <1>11 DEF HaPlaces, n
  <2>2. 1 .. hi \subseteq HaPlaces
    BY <2>1
  <2> QED BY <1>12, <2>2, SeqMonotonic
<1>14. lo < hi => Len(q) \in DOMAIN q /\ 1 \in DOMAIN q /\ q[Len(q)] = hi /\ q[1] = lo + 1
  BY <1>11, <1>12
<1>15. (q # <<>> => lo < hi) /\ (q = <<>> => hi <= lo)
  BY <1>11, <1>12
<1>16. InRow(q)
  BY <1>11, <1>12, <1>14, <1>15 DEF InRow
<1>17. q # <<>> => hi \in HaPlaces
  <2>1. q # <<>> => hi \in 1 .. n
    BY <1>1, <1>11, <1>15
  <2> QED BY <2>1 DEF HaPlaces, n
<1>18. w \in Nat
  BY <1>1
<1>19. q # <<>> /\ Utc => w < q[1]
  BY <1>6, <1>11, <1>14, <1>15, <1>18
<1>20. q # <<>> /\ Kept => q[1] = w + 1
  <2>1. Kept => Utc
    BY HabitsKept DEF HaInv
  <2> QED BY <1>6, <1>7, <1>11, <1>14, <1>15, <1>18, <2>1
<1>21. Kept /\ ~Ha!Polls => IF q = <<>> THEN w = n ELSE q[Len(q)] = n
  BY <1>1, <1>9, <1>11, <1>14, <1>15
<1> QED BY <1>8, <1>10, <1>13, <1>14, <1>15, <1>16, <1>17, <1>19, <1>20, <1>21 DEF w, n

LEMMA HaInitHolds == Ha!Sized /\ Ha!Init => HaInv
<1> SUFFICES ASSUME Ha!Sized, Ha!Init PROVE HaInv
  OBVIOUS
<1>1. /\ haEnv \in HaEnvs /\ haTs = <<>> /\ flushed = 0 /\ feed = <<>> /\ replay = <<>> /\ events = <<>>
      /\ drops = 0 /\ pc = (IF Ha!Polls THEN "sleep" ELSE "connect") /\ connected = Ha!Polls
      /\ seen = (IF Ha!Polls THEN 2 ELSE 0) /\ legacy = FALSE /\ watcher = "start"
      /\ local = (Ha!Has("east") \/ Ha!Has("west"))
  BY DEF Ha!Init, Ha!First
<1>2. Len(haTs) = 0 /\ HaPlaces = {}
  BY <1>1 DEF HaPlaces
<1>3. HaTypes
  <2>1. haEnv \in [source : {"ha_websocket", "poll"}, habits : SUBSET Ha!Habits]
    BY <1>1 DEF Ha!Sized
  <2>2. /\ haTs \in Seq(Nat) /\ replay \in Seq(HaPlaces) /\ events \in Seq(HaPlaces)
        /\ feed \in Seq(HaPlaces)
    BY <1>1, EmptySeq
  <2>3. Len(haTs) <= MaxRows /\ flushed \in 0 .. Len(haTs) /\ drops \in 0 .. MaxDrops /\ seen \in Nat
    BY <1>1, <1>2, BoundsAssumption
  <2>4. local \in BOOLEAN /\ (Utc => ~local)
    BY <1>1 DEF Utc, Ha!Has
  <2>5. pc # "replay" /\ (pc # "sleep" => pc = "connect" /\ connected = FALSE)
    BY <1>1
  <2> QED BY <1>1, <1>2, <2>1, <2>2, <2>3, <2>4, <2>5 DEF HaTypes
<1>4. Ha!Newest = 0 /\ Mark = 0
  <2>1. Ha!Newest = 0
    BY <1>1, <1>3, NewestIs
  <2> QED BY <1>1, <2>1 DEF Mark
<1>5. Clock /\ HaRuns /\ Stands /\ Single
  BY <1>1, <1>2, <1>4 DEF Clock, HaRuns, InRow, Stands, Single, Ha!First
<1>6. Filled
  <2>1. pc \notin {"replay", "listen"}
    BY <1>1
  <2>2. flushed = Len(haTs) /\ Len(haTs) - Ha!Newest <= Limit - 1
    BY <1>1, <1>2, <1>4, BoundsAssumption
  <2> QED BY <1>2, <2>1, <2>2 DEF Filled
<1> QED BY <1>3, <1>5, <1>6 DEF HaInv

LEMMA MarkIs ==
  ASSUME HaTypes
  PROVE  /\ Mark \in 0 .. Len(haTs) /\ Len(haTs) \in Nat /\ Mark \in Int
         /\ pc = "replay" \/ feed # <<>> => Mark \in HaPlaces
         /\ pc # "replay" => Mark = Ha!Newest
<1>1. pc = "replay" => replay[Len(replay)] \in HaPlaces
  <2>1. replay \in Seq(HaPlaces) /\ (pc = "replay" => replay # <<>>)
    BY DEF HaTypes
  <2> QED BY <2>1, ElementOfSeq, LenProperties, EmptySeq
<1> QED BY <1>1, NewestIs DEF Mark, HaPlaces

(* A telegram comes, and is announced to a session that listens. *)
LEMMA EmitKeeps ==
  ASSUME HaInv, NEW step \in {0, 1}, Ha!Emit(step)
  PROVE  HaInv'
<1> DEFINE n == Len(haTs)
           t == IF haTs = <<>> THEN Ha!First ELSE haTs[Len(haTs)] + step
<1>1. /\ n \in Nat /\ Ha!Newest \in 0 .. n /\ Mark \in 0 .. n
      /\ (feed # <<>> => Ha!Newest \in HaPlaces) /\ (pc = "replay" \/ feed # <<>> => Mark \in HaPlaces)
  BY NewestIs, MarkIs DEF HaInv
<1>2. /\ UNCHANGED <<haEnv, pc, connected, seen, replay, feed, drops, local, legacy, watcher>>
      /\ Ha!Newest' = Ha!Newest /\ Mark' = Mark /\ n < MaxRows
      /\ haTs' = Append(haTs, t)
  BY DEF Ha!Emit, Ha!Newest, Mark, Ha!convention, Ha!Last
<1>3. t \in Nat /\ t >= 3 /\ (\A r \in HaPlaces : haTs[r] <= t)
      /\ ("sameTs" \notin haEnv.habits => \A r \in HaPlaces : haTs[r] < t)
  <2>1. CASE haTs = <<>>
    BY <2>1 DEF HaPlaces, Ha!First
  <2>2. CASE haTs # <<>>
    <3>1. n \in HaPlaces
      <4>1. haTs \in Seq(Nat)
        BY DEF HaInv, HaTypes
      <4> QED BY <1>1, <2>2, <4>1, EmptySeq DEF HaPlaces
    <3>2. \A r \in HaPlaces : haTs[r] \in Nat /\ haTs[r] >= 3 /\ haTs[r] <= haTs[n]
      BY <1>1, <3>1, ReadIs DEF HaInv, HaPlaces
    <3>3. step = 0 => "sameTs" \in haEnv.habits
      BY DEF Ha!Emit, Ha!Has
    <3> QED BY <2>2, <3>1, <3>2, <3>3
  <2> QED BY <2>1, <2>2
<1> HIDE DEF t
<1>4. /\ haTs' \in Seq(Nat) /\ Len(haTs') = n + 1 /\ HaPlaces' = HaPlaces \cup {n + 1}
      /\ n + 1 \notin HaPlaces /\ n + 1 \in HaPlaces'
      /\ haTs'[n + 1] = t /\ \A r \in HaPlaces : haTs'[r] = haTs[r]
  <2>1. haTs \in Seq(Nat)
    BY DEF HaInv, HaTypes
  <2>2. haTs' \in Seq(Nat) /\ Len(haTs') = n + 1 /\ haTs'[n + 1] = t
        /\ \A r \in 1 .. n : haTs'[r] = haTs[r]
    BY <1>2, <1>3, <2>1, AppendProperties
  <2> QED BY <1>1, <2>1, <2>2 DEF HaPlaces
<1>5. events' = IF pc \in {"query", "replay", "listen"} /\ ~Ha!Polls THEN Append(events, n + 1) ELSE events
  BY <1>4 DEF Ha!Emit
<1>6. /\ events \in Seq(HaPlaces) /\ replay \in Seq(HaPlaces') /\ feed \in Seq(HaPlaces')
      /\ events \in Seq(HaPlaces')
  <2>1. HaPlaces \subseteq HaPlaces'
    BY <1>4
  <2> QED BY <2>1, SeqMonotonic DEF HaInv, HaTypes
<1>7. ASSUME pc \in {"query", "replay", "listen"}, ~Ha!Polls
      PROVE /\ HaRuns' /\ Single' /\ events' \in Seq(HaPlaces')
            /\ events' # <<>> => ~Ha!Polls /\ pc \in {"query", "replay", "listen"}
            /\ Kept /\ ~Ha!Polls /\ pc \in {"replay", "listen"} /\ feed # <<>> =>
                 IF events' = <<>> THEN Mark = n + 1 ELSE events'[1] <= Mark + 1
  <2>1. events' = Append(events, n + 1)
    BY <1>5, <1>7
  <2>2. /\ events' \in Seq(HaPlaces') /\ events' # <<>> /\ Len(events') = Len(events) + 1
        /\ DOMAIN events = 1 .. Len(events) /\ DOMAIN events' = 1 .. Len(events) + 1 /\ Len(events) \in Nat
        /\ \A i \in 1 .. Len(events) : events'[i] = events[i]
        /\ events'[Len(events) + 1] = n + 1
    <3>1. PICK q \in Seq(HaPlaces') : q = events
      BY <1>6
    <3>2. PICK x \in HaPlaces' : x = n + 1
      BY <1>4
    <3>3. events' = Append(q, x)
      BY <2>1, <3>1, <3>2
    <3> DEFINE P == HaPlaces'
    <3> HIDE DEF P
    <3>4. q \in Seq(P) /\ x \in P
      BY <3>1, <3>2 DEF P
    <3>5. /\ Append(q, x) \in Seq(P) /\ Append(q, x) # <<>> /\ Len(Append(q, x)) = Len(q) + 1
          /\ DOMAIN q = 1 .. Len(q) /\ DOMAIN Append(q, x) = 1 .. Len(q) + 1 /\ Len(q) \in Nat
          /\ \A i \in 1 .. Len(q) : Append(q, x)[i] = q[i]
          /\ Append(q, x)[Len(q) + 1] = x
      BY <3>4, Appended
    <3> QED BY <3>1, <3>2, <3>3, <3>5 DEF P
  <2>3. ASSUME events = <<>> PROVE events'[1] = n + 1 /\ InRow(events') /\ events'[Len(events')] = n + 1
    <3>1. Len(events) = 0
      BY <2>3
    <3>2. events'[1] = n + 1 /\ DOMAIN events' = 1 .. 1 /\ Len(events') = 1
      BY <2>2, <3>1
    <3> QED BY <1>1, <3>2 DEF InRow
  <2>4. events # <<>> =>
          /\ Len(events) > 0 /\ events'[1] = events[1] /\ events[Len(events)] = n
          /\ \A i \in 1 .. Len(events) : events[i] = events[1] + i - 1
          /\ events[1] \in Nat /\ events[1] <= n
    <3>1. events # <<>> => Len(events) > 0
      BY <1>6, <2>2, EmptySeq
    <3>2. events # <<>> => events[1] \in HaPlaces
      BY <1>6, <2>2, <3>1, ElementOfSeq
    <3>3. events # <<>> => events[1] \in Nat /\ events[1] <= n
      BY <1>1, <3>2 DEF HaPlaces
    <3>4. InRow(events) /\ (events # <<>> => events[Len(events)] = n)
      BY DEF HaInv, HaRuns
    <3>5. \A i \in 1 .. Len(events) : events[i] = events[1] + i - 1
      BY <2>2, <3>4 DEF InRow
    <3> QED BY <2>2, <3>1, <3>3, <3>4, <3>5
  <2>5. ASSUME events # <<>> PROVE InRow(events')
    <3>1. \A i \in 1 .. Len(events) : events'[i] = events'[1] + i - 1
      BY <2>2, <2>4, <2>5
    <3>2. n = events[1] + Len(events) - 1
      BY <2>2, <2>4, <2>5
    <3>3. events'[Len(events) + 1] = events'[1] + (Len(events) + 1) - 1
      BY <2>2, <2>4, <2>5, <3>2
    <3>4. \A i \in 1 .. Len(events) + 1 : i \in 1 .. Len(events) \/ i = Len(events) + 1
      BY <2>2
    <3> QED BY <2>2, <3>1, <3>3, <3>4 DEF InRow
  <2>6. HaRuns'
    <3>1. InRow(events') /\ events'[Len(events')] = n + 1
      BY <2>2, <2>3, <2>5
    <3> QED BY <1>2, <1>4, <3>1 DEF HaInv, HaRuns
  <2>7. events'[1] = IF events = <<>> THEN n + 1 ELSE events[1]
    BY <2>2, <2>3, <2>4
  <2>8. Single'
    <3> SUFFICES ASSUME Plain PROVE Mark < events'[1] /\ (pc = "query" => feed = <<>>)
      BY <1>2 DEF HaInv, Single, Plain
    <3>1. Mark < events'[1]
      BY <1>1, <2>7 DEF HaInv, Single
    <3>2. pc = "query" => feed = <<>>
      <4>1. pc = "query" => seen = 0
        BY <1>7 DEF Ha!Emit, Ha!Has, Plain
      <4>2. feed # <<>> => haTs[Mark] # 0
        BY <1>1, ReadIs DEF HaInv
      <4>3. Utc
        BY DEF Plain, Utc
      <4> QED BY <4>1, <4>2, <4>3 DEF HaInv, Stands
    <3> QED BY <3>1, <3>2
  <2>9. Kept /\ ~Ha!Polls /\ pc \in {"replay", "listen"} /\ feed # <<>> => events'[1] <= Mark + 1
    BY <1>1, <1>7, <2>2, <2>7 DEF HaInv, Filled
  <2>10. events' \in Seq(HaPlaces') /\ (events' # <<>> => ~Ha!Polls /\ pc \in {"query", "replay", "listen"})
    BY <1>7, <2>2
  <2> QED BY <2>2, <2>6, <2>8, <2>9, <2>10
<1>8. ASSUME ~(pc \in {"query", "replay", "listen"} /\ ~Ha!Polls)
      PROVE /\ HaRuns' /\ Single' /\ events' \in Seq(HaPlaces')
            /\ events' # <<>> => ~Ha!Polls /\ pc \in {"query", "replay", "listen"}
            /\ Kept /\ ~Ha!Polls /\ pc \in {"replay", "listen"} /\ feed # <<>> =>
                 IF events' = <<>> THEN Mark = n + 1 ELSE events'[1] <= Mark + 1
  <2>1. events' = events /\ events = <<>>
    BY <1>5, <1>8 DEF HaInv, HaTypes
  <2>2. HaRuns' /\ Single'
    BY <1>2, <2>1 DEF HaInv, HaRuns, InRow, Single, Plain
  <2> QED BY <1>6, <1>8, <2>1, <2>2
<1>9. /\ HaRuns' /\ Single' /\ events' \in Seq(HaPlaces')
      /\ events' # <<>> => ~Ha!Polls /\ pc \in {"query", "replay", "listen"}
      /\ Kept /\ ~Ha!Polls /\ pc \in {"replay", "listen"} /\ feed # <<>> =>
           IF events' = <<>> THEN Mark = n + 1 ELSE events'[1] <= Mark + 1
  BY <1>7, <1>8
<1>10. flushed' = IF "late" \in haEnv.habits THEN flushed ELSE n + 1
  BY <1>4 DEF Ha!Emit, Ha!Has
<1>11. HaTypes'
  <2>1. Len(haTs') <= MaxRows /\ flushed' \in 0 .. Len(haTs')
    <3>1. flushed \in 0 .. n
      BY DEF HaInv, HaTypes
    <3> QED BY <1>1, <1>2, <1>4, <1>10, <3>1, BoundsAssumption
  <2>2. \A r \in HaPlaces' : haTs'[r] >= 3
    BY <1>3, <1>4, ReadIs DEF HaInv
  <2>3. UNCHANGED <<Ha!Polls, Utc, Ha!First>>
    BY <1>2 DEF Ha!Polls, Utc, Ha!First
  <2> QED BY <1>2, <1>4, <1>6, <1>9, <2>1, <2>2, <2>3 DEF HaInv, HaTypes, Ha!First
<1>12. Clock'
  <2>1. ASSUME NEW r \in HaPlaces', NEW s \in HaPlaces', r < s
        PROVE  haTs'[r] <= haTs'[s] /\ ("sameTs" \notin haEnv.habits => haTs'[r] < haTs'[s])
    <3>1. CASE s \in HaPlaces
      <4>1. r \in HaPlaces
        BY <1>1, <1>4, <2>1, <3>1 DEF HaPlaces
      <4> QED BY <1>4, <2>1, <3>1, <4>1 DEF HaInv, Clock
    <3>2. CASE s = n + 1
      <4>1. r \in HaPlaces
        BY <1>4, <2>1, <3>2
      <4> QED BY <1>3, <1>4, <3>2, <4>1
    <3> QED BY <1>4, <3>1, <3>2
  <2> QED BY <1>2, <2>1 DEF Clock
<1>13. Stands'
  <2>1. Ha!Polls' = Ha!Polls /\ Utc' = Utc /\ Ha!First' = Ha!First
    BY <1>2 DEF Ha!Polls, Utc, Ha!First
  <2>2. pc = "replay" \/ feed # <<>> => haTs'[Mark] = haTs[Mark]
    BY <1>1, <1>4
  <2> QED BY <1>2, <2>1, <2>2 DEF HaInv, Stands
<1>14. Filled'
  <2>1. UNCHANGED <<Ha!Polls, Kept>>
    BY <1>2 DEF Ha!Polls, Kept, Ha!Lossy
  <2> SUFFICES ASSUME Kept, pc # "stopped" PROVE Filled'
    BY <1>2, <2>1 DEF Filled
  <2>2. \A r \in HaPlaces' : r <= Mark /\ (Ha!Polls \/ r >= feed[1]) => r \in Elements(feed) \cup Elements(replay)
    <3>1. \A r \in HaPlaces' : r <= Mark => r \in HaPlaces
      BY <1>1, <1>4
    <3> QED BY <3>1 DEF HaInv, Filled
  <2>3. ~Ha!Polls => flushed' = n + 1 /\ (n + 1) - Ha!Newest <= Limit - 1
    <3>1. ~Ha!Polls => "late" \notin haEnv.habits /\ "longGap" \notin haEnv.habits
      BY HabitsKept DEF HaInv
    <3>2. "longGap" \notin haEnv.habits => n - Ha!Newest < Limit - 1
      BY DEF Ha!Emit, Ha!Has
    <3> QED BY <1>1, <1>10, <3>1, <3>2, BoundsAssumption
  <2> QED BY <1>2, <1>4, <1>9, <2>1, <2>2, <2>3 DEF HaInv, Filled, Elements
<1> QED BY <1>9, <1>11, <1>12, <1>13, <1>14 DEF HaInv

(* A query, or a round of the poll, that finds nothing new or is given up. *)
LEMMA HaQueryEmpty ==
  ASSUME HaInv, Ha!Query \/ Ha!QueryFails, pc' # "replay"
  PROVE  HaInv'
<1>1. /\ pc \in {"query", "sleep"} /\ pc' = (IF Ha!Polls THEN "sleep" ELSE "listen")
      /\ UNCHANGED <<haEnv, haTs, flushed, events, feed, local, legacy, watcher, seen, replay>>
      /\ pc' # "sleep" => connected' = TRUE
      /\ seen = 0 \/ Ha!Fresh = <<>> \/ "queryFails" \in haEnv.habits
  <2>1. CASE Ha!Query
    <3>1. seen = 0 \/ Ha!Fresh = <<>>
      BY <2>1 DEF Ha!Query
    <3>2. pc' = Ha!Caught /\ UNCHANGED <<seen, replay>>
      BY <2>1, <3>1 DEF Ha!Query
    <3> QED BY <2>1, <3>1, <3>2 DEF Ha!Query, Ha!Caught, Ha!convention
  <2>2. CASE Ha!QueryFails
    <3>1. pc' = Ha!Caught /\ (~Ha!Polls => connected' = TRUE)
      BY <2>2 DEF Ha!QueryFails
    <3> QED BY <2>2, <3>1 DEF Ha!QueryFails, Ha!Caught, Ha!convention, Ha!Has
  <2> QED BY <2>1, <2>2
<1>2. drops' \in 0 .. MaxDrops
  BY BoundsAssumption DEF Ha!Query, Ha!QueryFails, HaInv, HaTypes
<1>3. /\ Ha!Newest' = Ha!Newest /\ HaPlaces' = HaPlaces /\ Mark' = Mark /\ Mark = Ha!Newest
      /\ UNCHANGED <<Ha!Polls, Ha!First, Utc, Plain, Kept>> /\ replay = <<>> /\ pc = (IF Ha!Polls THEN "sleep" ELSE "query")
  <2>1. replay = <<>> /\ pc = (IF Ha!Polls THEN "sleep" ELSE "query")
    BY <1>1 DEF HaInv, HaTypes
  <2>2. UNCHANGED <<Ha!Polls, Ha!First, Utc, Plain, Kept>>
    BY <1>1 DEF Ha!Polls, Ha!First, Utc, Plain, Kept, Ha!Lossy
  <2> QED BY <1>1, <2>1, <2>2 DEF Ha!Newest, HaPlaces, Mark
<1>4. HaTypes'
  <2>1. events # <<>> => ~Ha!Polls
    BY DEF HaInv, HaTypes
  <2> QED BY <1>1, <1>2, <1>3, <2>1 DEF HaInv, HaTypes
<1>5. Clock' /\ HaRuns' /\ Stands' /\ Single'
  BY <1>1, <1>3 DEF HaInv, Clock, HaRuns, InRow, Stands, Single
<1>6. Filled'
  <2> SUFFICES ASSUME Kept PROVE Filled'
    BY <1>3 DEF Filled
  <2>1. ~Ha!Polls /\ feed # <<>> => Mark = Len(haTs)
    <3> SUFFICES ASSUME ~Ha!Polls, feed # <<>> PROVE Ha!Newest = Len(haTs)
      BY <1>3
    <3>1. Utc /\ "queryFails" \notin haEnv.habits
      BY HabitsKept DEF HaInv
    <3>2. Mark \in HaPlaces
      BY MarkIs DEF HaInv
    <3>3. seen # 0
      BY <1>1, <1>3, <3>1, <3>2, ReadIs DEF HaInv, Stands
    <3>4. Ha!Fresh = <<>>
      BY <1>1, <3>1, <3>3
    <3> QED BY <1>1, <3>3, <3>4, HaFreshRows
  <2>2. events # <<>> => events[1] \in HaPlaces /\ events[1] <= Len(haTs)
    <3>1. events \in Seq(HaPlaces)
      BY DEF HaInv, HaTypes
    <3>2. events # <<>> => events[1] \in HaPlaces
      BY <3>1, ElementOfSeq, EmptySeq, LenProperties
    <3> QED BY <3>2 DEF HaPlaces
  <2>3. Len(haTs) \in Nat /\ Mark \in Int
    BY MarkIs DEF HaInv
  <2>4. ~Ha!Polls /\ feed # <<>> => IF events = <<>> THEN Mark = Len(haTs) ELSE events[1] <= Mark + 1
    BY <2>1, <2>2, <2>3 DEF HaPlaces
  <2> QED BY <1>1, <1>3, <2>4 DEF HaInv, Filled, Elements
<1> QED BY <1>4, <1>5, <1>6 DEF HaInv

(* One that finds rows. *)
LEMMA HaQueryFinds ==
  ASSUME HaInv, Ha!Query, pc' = "replay"
  PROVE  HaInv'
<1> DEFINE q == Ha!Fresh
           w == Ha!Newest
<1>1. /\ pc \in {"query", "sleep"} /\ connected' = TRUE /\ seen # 0 /\ q # <<>>
      /\ UNCHANGED <<haEnv, haTs, flushed, events, feed, drops, local, legacy, watcher>>
      /\ replay' = q /\ seen' = Ha!Read(q[Len(q)])
  BY DEF Ha!Query, Ha!Caught, Ha!convention, Ha!Last
<1>2. /\ q \in Seq(HaPlaces) /\ InRow(q) /\ q[Len(q)] \in HaPlaces
      /\ Utc => w < q[1]
      /\ Kept => q[1] = w + 1
      /\ Kept /\ ~Ha!Polls => q[Len(q)] = Len(haTs)
      /\ Utc /\ ~Ha!Polls => feed # <<>>
  BY <1>1, HaFreshRows
<1> HIDE DEF q
<1>3. /\ w' = w /\ HaPlaces' = HaPlaces /\ Mark' = q[Len(q)] /\ Mark = w /\ w \in Nat
      /\ UNCHANGED <<Ha!Polls, Ha!First, Utc, Plain, Kept>> /\ pc = (IF Ha!Polls THEN "sleep" ELSE "query")
  <2>1. pc = (IF Ha!Polls THEN "sleep" ELSE "query")
    BY <1>1 DEF HaInv, HaTypes
  <2>2. UNCHANGED <<Ha!Polls, Ha!First, Utc, Plain, Kept>>
    BY <1>1 DEF Ha!Polls, Ha!First, Utc, Plain, Kept, Ha!Lossy
  <2>3. w \in Nat
    BY NewestIs DEF HaInv
  <2> QED BY <1>1, <2>1, <2>2, <2>3 DEF Ha!Newest, HaPlaces, Mark
<1>4. seen' \in Nat /\ (Utc => seen' = haTs[q[Len(q)]])
  BY <1>1, <1>2, ReadIs DEF HaInv
<1>5. HaTypes'
  BY <1>1, <1>2, <1>3, <1>4 DEF HaInv, HaTypes
<1>6. Clock' /\ HaRuns'
  BY <1>1, <1>2, <1>3 DEF HaInv, Clock, HaRuns, InRow
<1>7. Stands'
  BY <1>1, <1>2, <1>3, <1>4 DEF Stands
<1>8. Plain => Utc /\ (events # <<>> => FALSE)
  <2>1. Plain => Utc
    BY HabitsKept DEF HaInv
  <2>2. events # <<>> => ~Ha!Polls /\ pc = "query"
    BY <1>3 DEF HaInv, HaTypes
  <2> QED BY <1>2, <2>1, <2>2 DEF HaInv, Single
<1>9. Single'
  BY <1>1, <1>3, <1>8 DEF HaInv, Single
<1>10. Filled'
  <2> SUFFICES ASSUME Kept PROVE Filled'
    BY <1>3 DEF Filled
  <2>1. Len(haTs) \in Nat
    BY NewestIs DEF HaInv
  <2>2. q \in Seq(Nat)
    <3>1. HaPlaces \subseteq Nat
      BY <2>1 DEF HaPlaces
    <3> QED BY <1>2, <3>1, SeqMonotonic
  <2>3. \A r \in HaPlaces : r <= q[Len(q)] /\ (Ha!Polls \/ r >= feed[1]) => r \in Elements(feed) \cup Elements(q)
    <3> SUFFICES ASSUME NEW r \in HaPlaces, r <= q[Len(q)], Ha!Polls \/ r >= feed[1]
                 PROVE  r \in Elements(feed) \cup Elements(q)
      OBVIOUS
    <3>1. CASE r <= w
      <4>1. Elements(replay) = {}
        <5>1. replay = <<>>
          BY <1>1 DEF HaInv, HaTypes
        <5> QED BY <5>1 DEF Elements
      <4>2. r \in Elements(feed) \cup Elements(replay)
        BY <1>1, <1>3, <3>1 DEF HaInv, Filled
      <4> QED BY <4>1, <4>2
    <3>2. CASE r > w
      <4>1. r \in q[1] .. q[Len(q)]
        BY <1>2, <1>3, <3>2 DEF HaPlaces
      <4>2. r \in ToSet(q)
        <5>1. PICK p \in Seq(Nat) : p = q
          BY <2>2
        <5> QED BY <1>1, <1>2, <4>1, <5>1, InRowHolds
      <4> QED BY <4>2 DEF ToSet, Elements
    <3> QED BY <1>3, <3>1, <3>2 DEF HaPlaces
  <2>4. ~Ha!Polls => flushed = Len(haTs) /\ Len(haTs) - w <= Limit - 1
    BY <1>1 DEF HaInv, Filled
  <2>5. events # <<>> => events[1] \in HaPlaces
    <3>1. events \in Seq(HaPlaces)
      BY DEF HaInv, HaTypes
    <3> QED BY <3>1, ElementOfSeq, EmptySeq, LenProperties
  <2>6. ~Ha!Polls => IF events = <<>> THEN q[Len(q)] = Len(haTs) ELSE events[1] <= q[Len(q)] + 1
    BY <1>2, <2>1, <2>5 DEF HaPlaces
  <2>7. UNCHANGED <<Elements(feed), Len(haTs)>> /\ Elements(replay)' = Elements(q)
    BY <1>1 DEF Elements
  <2> QED BY <1>1, <1>2, <1>3, <2>3, <2>4, <2>6, <2>7 DEF Filled
<1> QED BY <1>5, <1>6, <1>7, <1>9, <1>10 DEF HaInv
-----------------------------------------------------------------------------
(* What is left of a run when its head is taken. *)
LEMMA RunTail ==
  ASSUME NEW q \in Seq(HaPlaces), q # <<>>, InRow(q), HaTypes
  PROVE  /\ Head(q) = q[1] /\ q[1] \in HaPlaces /\ q[1] \in Nat
         /\ Tail(q) \in Seq(HaPlaces) /\ InRow(Tail(q))
         /\ Tail(q) # <<>> => Tail(q)[1] = q[1] + 1 /\ Tail(q)[Len(Tail(q))] = q[Len(q)]
         /\ Tail(q) = <<>> => q[Len(q)] = q[1]
         /\ Tail(q) = <<>> <=> Len(q) = 1
         /\ Elements(q) = {q[1]} \cup Elements(Tail(q))
<1> DEFINE k == Len(q)
           t == Tail(q)
           P == HaPlaces
<1>1. /\ Head(q) = q[1] /\ q[1] \in P /\ t \in Seq(P) /\ Len(t) = k - 1
      /\ k \in Nat \ {0} /\ DOMAIN q = 1 .. k /\ DOMAIN t = 1 .. k - 1
      /\ \A i \in 1 .. k - 1 : t[i] = q[i + 1]
      /\ Elements(q) = {q[1]} \cup Elements(t)
  <2> HIDE DEF P
  <2>1. q \in Seq(P)
    BY DEF P
  <2> QED BY <2>1, Beheaded
<1>2. q[1] \in Nat /\ \A i \in 1 .. k : q[i] = q[1] + i - 1
  <2>1. \A i \in 1 .. k : q[i] = q[1] + i - 1
    BY <1>1 DEF InRow
  <2> QED BY <1>1, <2>1 DEF HaPlaces
<1>3. (t # <<>> <=> k > 1) /\ (t = <<>> <=> k = 1)
  BY <1>1, EmptySeq
<1> HIDE DEF t, k, P
<1>4. InRow(t)
  <2> SUFFICES ASSUME NEW i \in 1 .. k - 1 PROVE t[i] = t[1] + i - 1
    BY <1>1 DEF InRow
  <2>1. 1 \in 1 .. k - 1 /\ i + 1 \in 1 .. k /\ 2 \in 1 .. k
    BY <1>1
  <2>2. t[i] = q[i + 1] /\ t[1] = q[2]
    BY <1>1, <2>1
  <2> QED BY <1>2, <2>1, <2>2
<1>5. t # <<>> => t[1] = q[1] + 1
  BY <1>1, <1>2, <1>3
<1>6. /\ t # <<>> => t[Len(t)] = q[k]
      /\ t = <<>> => q[k] = q[1]
  BY <1>1, <1>3
<1> QED BY <1>1, <1>2, <1>3, <1>4, <1>5, <1>6 DEF t, k, P

(* A row that was not shown yet is shown behind the newest one. *)
LEMMA ShownOnce ==
  ASSUME HaTypes, NEW x \in HaPlaces, x > Ha!Newest, feed' = Append(feed, x),
         \A i, k \in DOMAIN feed : feed[i] = feed[k] => i = k
  PROVE  (\A i, k \in DOMAIN feed : feed[i] = feed[k] => i = k)'
<1>1. \A i \in DOMAIN feed : feed[i] # x
  <2>1. Ha!Newest \in Nat /\ \A i \in DOMAIN feed : feed[i] <= Ha!Newest /\ feed[i] \in Nat
    BY NewestIs DEF HaPlaces
  <2> QED BY <2>1 DEF HaPlaces
<1>2. /\ DOMAIN feed = 1 .. Len(feed) /\ DOMAIN feed' = 1 .. Len(feed) + 1 /\ Len(feed) \in Nat
      /\ feed'[Len(feed) + 1] = x /\ \A i \in DOMAIN feed : feed'[i] = feed[i]
  BY NewestAfter
<1>3. \A i \in 1 .. Len(feed) + 1 : i \in DOMAIN feed \/ i = Len(feed) + 1
  BY <1>2
<1> QED BY <1>1, <1>2, <1>3

LEMMA HaBroadcastKeeps ==
  ASSUME HaInv, Ha!BroadcastRow
  PROVE  /\ HaInv' /\ feed' = Append(feed, replay[1]) /\ replay[1] \in HaPlaces
         /\ Kept /\ Plain /\ feed # <<>> => replay[1] = feed[Len(feed)] + 1
<1> DEFINE t == Tail(replay)
           x == replay[1]
           w == Ha!Newest
<1>1. /\ pc = "replay" /\ feed' = Append(feed, Head(replay)) /\ replay' = t
      /\ UNCHANGED <<haEnv, haTs, flushed, connected, seen, events, drops, local, legacy, watcher>>
      /\ pc' = (IF Len(replay) = 1 THEN IF Ha!Polls THEN "sleep" ELSE "listen" ELSE pc)
  BY DEF Ha!BroadcastRow, Ha!convention, Ha!Caught
<1>2. replay \in Seq(HaPlaces) /\ replay # <<>> /\ InRow(replay) /\ HaTypes
  BY <1>1 DEF HaInv, HaTypes, HaRuns
<1>3. /\ Head(replay) = x /\ x \in HaPlaces /\ x \in Nat /\ t \in Seq(HaPlaces) /\ InRow(t)
      /\ t # <<>> => t[1] = x + 1 /\ t[Len(t)] = replay[Len(replay)]
      /\ t = <<>> => replay[Len(replay)] = x
      /\ t = <<>> <=> Len(replay) = 1
      /\ Elements(replay) = {x} \cup Elements(t)
  <2>1. PICK q \in Seq(HaPlaces) : q = replay
    BY <1>2
  <2> QED BY <1>2, <2>1, RunTail
<1> HIDE DEF t, x
<1>4. /\ w' = (IF x > w THEN x ELSE w) /\ feed' \in Seq(HaPlaces) /\ feed' # <<>>
      /\ feed'[Len(feed')] = x /\ Elements(feed') = Elements(feed) \cup {x}
      /\ feed # <<>> => feed'[1] = feed[1]
  <2>1. PICK y \in HaPlaces : y = x
    BY <1>3
  <2> QED BY <1>1, <1>2, <1>3, <2>1, NewestAfter
<1>5. /\ HaPlaces' = HaPlaces /\ w \in Nat /\ Len(haTs) \in Nat
      /\ UNCHANGED <<Ha!Polls, Ha!First, Utc, Plain, Kept>>
      /\ Utc => w < x /\ w' = x /\ seen = haTs[Mark] /\ (Ha!Polls \/ feed # <<>>)
      /\ Mark = replay[Len(replay)]
  <2>1. w \in Nat /\ Len(haTs) \in Nat
    BY NewestIs DEF HaInv
  <2>2. Utc => w < x /\ seen = haTs[Mark] /\ (Ha!Polls \/ feed # <<>>)
    BY <1>1 DEF HaInv, Stands, x
  <2>3. UNCHANGED <<Ha!Polls, Ha!First, Utc, Plain, Kept>>
    BY <1>1 DEF Ha!Polls, Ha!First, Utc, Plain, Kept, Ha!Lossy
  <2> QED BY <1>1, <1>3, <1>4, <2>1, <2>2, <2>3 DEF HaPlaces, Mark
<1>6. Utc => Mark' = Mark
  <2>1. CASE t = <<>>
    BY <1>1, <1>3, <1>5, <2>1 DEF Mark
  <2>2. CASE t # <<>>
    BY <1>1, <1>3, <1>5, <2>2 DEF Mark
  <2> QED BY <2>1, <2>2
<1>7. HaTypes'
  <2>1. connected = TRUE
    BY <1>1 DEF HaInv, HaTypes
  <2>2. pc' = "replay" <=> t # <<>>
    BY <1>1, <1>3
  <2>3. events # <<>> => ~Ha!Polls
    BY DEF HaInv, HaTypes
  <2> QED BY <1>1, <1>3, <1>4, <1>5, <2>1, <2>2, <2>3 DEF HaInv, HaTypes
<1>8. Clock' /\ HaRuns'
  BY <1>1, <1>3, <1>5 DEF HaInv, Clock, HaRuns, InRow
<1>9. Stands'
  BY <1>1, <1>3, <1>4, <1>5, <1>6 DEF Stands
<1>10. Plain => Utc
  BY HabitsKept DEF HaInv
<1>11. Single'
  <2> SUFFICES ASSUME Plain PROVE Single'
    BY <1>5 DEF Single
  <2>1. (\A i, k \in DOMAIN feed : feed[i] = feed[k] => i = k)'
    <3>1. PICK y \in HaPlaces : y = x
      BY <1>3
    <3>2. \A i, k \in DOMAIN feed : feed[i] = feed[k] => i = k
      BY DEF HaInv, Single
    <3> QED BY <1>1, <1>2, <1>3, <1>5, <1>10, <3>1, <3>2, ShownOnce
  <2>2. events # <<>> => Mark < events[1]
    BY DEF HaInv, Single
  <2> QED BY <1>1, <1>4, <1>5, <1>6, <1>10, <2>1, <2>2 DEF Single
<1>12. Kept => Utc /\ x = w + 1
  <2>1. Kept => x = w + 1
    BY <1>1 DEF HaInv, Filled, x
  <2> QED BY <2>1, HabitsKept DEF HaInv
<1>13. Filled'
  <2> SUFFICES ASSUME Kept PROVE Filled'
    BY <1>5 DEF Filled
  <2>1. UNCHANGED <<Elements(feed) \cup Elements(replay), Mark, Len(haTs)>>
    BY <1>1, <1>3, <1>4, <1>6, <1>12 DEF Elements
  <2>2. ~Ha!Polls => flushed = Len(haTs) /\ Len(haTs) - x <= Limit - 1
    BY <1>1, <1>3, <1>5, <1>12, BoundsAssumption DEF HaInv, Filled
  <2>3. pc' = "replay" => t[1] = x + 1
    BY <1>1, <1>3
  <2>4. ~Ha!Polls => IF events = <<>> THEN Mark = Len(haTs) ELSE events[1] <= Mark + 1
    BY <1>1, <1>5, <1>12 DEF HaInv, Filled
  <2>5. \A r \in HaPlaces : r <= Mark /\ (Ha!Polls \/ r >= feed'[1]) => r \in Elements(feed) \cup Elements(replay)
    BY <1>1, <1>4, <1>5, <1>12 DEF HaInv, Filled
  <2> QED BY <1>1, <1>4, <1>5, <1>12, <2>1, <2>2, <2>3, <2>4, <2>5 DEF Filled
<1>14. Kept /\ Plain /\ feed # <<>> => x = feed[Len(feed)] + 1
  BY <1>12 DEF HaInv, Single
<1> QED BY <1>1, <1>3, <1>7, <1>8, <1>9, <1>11, <1>13, <1>14 DEF HaInv, x

LEMMA HaForwardKeeps ==
  ASSUME HaInv, Ha!Forward
  PROVE  /\ HaInv' /\ feed' = Append(feed, events[1]) /\ events[1] \in HaPlaces
         /\ Kept /\ Plain /\ feed # <<>> => events[1] = feed[Len(feed)] + 1
<1> DEFINE t == Tail(events)
           x == events[1]
           w == Ha!Newest
           n == Len(haTs)
<1>1. /\ pc = "listen" /\ events # <<>> /\ feed' = Append(feed, Head(events)) /\ events' = t
      /\ UNCHANGED <<haEnv, haTs, flushed, pc, connected, replay, drops, local, legacy, watcher>>
      /\ seen' = IF haTs[Head(events)] > seen THEN haTs[Head(events)] ELSE seen
  BY DEF Ha!Forward, Ha!convention, Ha!Noted
<1>2. events \in Seq(HaPlaces) /\ InRow(events) /\ HaTypes /\ ~Ha!Polls /\ replay = <<>>
  BY <1>1 DEF HaInv, HaTypes, HaRuns
<1>3. /\ Head(events) = x /\ x \in HaPlaces /\ x \in Nat /\ t \in Seq(HaPlaces) /\ InRow(t)
      /\ t # <<>> => t[1] = x + 1 /\ t[Len(t)] = events[Len(events)]
      /\ t = <<>> => events[Len(events)] = x
  <2>1. PICK q \in Seq(HaPlaces) : q = events
    BY <1>2
  <2> QED BY <1>1, <1>2, <2>1, RunTail
<1> HIDE DEF t, x
<1>4. /\ w' = (IF x > w THEN x ELSE w) /\ feed' \in Seq(HaPlaces) /\ feed' # <<>>
      /\ feed'[Len(feed')] = x /\ Elements(feed') = Elements(feed) \cup {x}
      /\ feed # <<>> => feed'[1] = feed[1]
      /\ feed = <<>> => feed'[1] = x
  <2>1. PICK y \in HaPlaces : y = x
    BY <1>3
  <2> QED BY <1>1, <1>2, <1>3, <2>1, NewestAfter
<1>5. /\ HaPlaces' = HaPlaces /\ w \in 0 .. n /\ n \in Nat /\ Mark = w /\ Mark' = w' /\ w' \in HaPlaces
      /\ UNCHANGED <<Ha!Polls, Ha!First, Utc, Plain, Kept>>
      /\ feed # <<>> => w \in HaPlaces
      /\ feed = <<>> => w = 0
  <2>1. w \in 0 .. n /\ n \in Nat /\ (feed # <<>> => w \in HaPlaces) /\ (feed = <<>> => w = 0)
    BY NewestIs DEF HaInv
  <2>2. UNCHANGED <<Ha!Polls, Ha!First, Utc, Plain, Kept>>
    BY <1>1 DEF Ha!Polls, Ha!First, Utc, Plain, Kept, Ha!Lossy
  <2>3. w' \in HaPlaces
    BY <1>3, <1>4, <2>1 DEF HaPlaces
  <2> QED BY <1>1, <2>1, <2>2, <2>3 DEF HaPlaces, Mark
<1>6. seen \in Nat /\ seen' \in Nat
  <2>1. haTs[x] \in Nat
    BY <1>3, ReadIs DEF HaInv
  <2> QED BY <1>1, <1>3, <2>1 DEF HaInv, HaTypes
<1>7. HaTypes'
  BY <1>1, <1>2, <1>3, <1>4, <1>5, <1>6 DEF HaInv, HaTypes
<1>8. Clock' /\ HaRuns'
  <2>1. Clock'
    BY <1>1, <1>5 DEF HaInv, Clock
  <2>2. t # <<>> => t[Len(t)] = n
    BY <1>1, <1>3 DEF HaInv, HaRuns
  <2> QED BY <1>1, <1>2, <1>3, <2>1, <2>2 DEF HaInv, HaRuns, InRow
<1>9. Stands'
  <2> SUFFICES ASSUME Utc PROVE seen' = haTs[w']
    BY <1>1, <1>4, <1>5 DEF Stands
  <2>1. CASE feed = <<>>
    <3>1. seen = 0 /\ w' = x
      BY <1>1, <1>2, <1>3, <1>4, <1>5, <2>1 DEF HaInv, Stands
    <3> QED BY <1>1, <1>3, <3>1, ReadIs DEF HaInv
  <2>2. CASE feed # <<>>
    <3>1. seen = haTs[w] /\ w \in HaPlaces
      BY <1>1, <1>5, <2>2 DEF HaInv, Stands
    <3>2. /\ haTs[w] \in Nat /\ haTs[x] \in Nat
          /\ w <= x => haTs[w] <= haTs[x]
          /\ x <= w => haTs[x] <= haTs[w]
      BY <1>3, <3>1, ReadIs DEF HaInv
    <3>3. w \in Nat
      BY <1>5
    <3> QED BY <1>1, <1>3, <1>4, <3>1, <3>2, <3>3
  <2> QED BY <2>1, <2>2
<1>10. Plain => w < x /\ w' = x
  <2>1. Plain => w < x
    BY <1>1, <1>5 DEF HaInv, Single, x
  <2> QED BY <1>3, <1>4, <1>5, <2>1
<1>11. Single'
  <2> SUFFICES ASSUME Plain PROVE Single'
    BY <1>5 DEF Single
  <2>1. (\A i, k \in DOMAIN feed : feed[i] = feed[k] => i = k)'
    <3>1. PICK y \in HaPlaces : y = x
      BY <1>3
    <3>2. \A i, k \in DOMAIN feed : feed[i] = feed[k] => i = k
      BY DEF HaInv, Single
    <3> QED BY <1>1, <1>2, <1>3, <1>5, <1>10, <3>1, <3>2, ShownOnce
  <2>2. t # <<>> => x < t[1]
    BY <1>3
  <2> QED BY <1>1, <1>4, <1>5, <1>10, <2>1, <2>2 DEF Single
<1>12. Kept => /\ feed # <<>> => x <= w + 1
               /\ n - w <= Limit - 1 /\ flushed = n
               /\ \A r \in HaPlaces : r <= w /\ r >= feed[1] => r \in Elements(feed)
  <2>1. Elements(replay) = {}
    BY <1>2 DEF Elements
  <2> QED BY <1>1, <1>2, <1>5, <2>1 DEF HaInv, Filled, x
<1>13. Filled'
  <2> SUFFICES ASSUME Kept PROVE Filled'
    BY <1>5 DEF Filled
  <2>1. \A r \in HaPlaces : r <= w' /\ r >= feed'[1] => r \in Elements(feed')
    <3> SUFFICES ASSUME NEW r \in HaPlaces, r <= w', r >= feed'[1] PROVE r \in Elements(feed')
      OBVIOUS
    <3>1. CASE feed = <<>>
      <4>1. r = x
        BY <1>3, <1>4, <1>5, <3>1 DEF HaPlaces
      <4> QED BY <1>4, <4>1
    <3>2. CASE feed # <<>>
      <4>1. r = x \/ r <= w
        BY <1>3, <1>4, <1>5, <1>12, <3>2 DEF HaPlaces
      <4> QED BY <1>4, <1>12, <3>2, <4>1
    <3> QED BY <3>1, <3>2
  <2>2. n - w' <= Limit - 1
    BY <1>3, <1>4, <1>5, <1>12, BoundsAssumption
  <2>3. IF t = <<>> THEN w' = n ELSE t[1] <= w' + 1
    <3>1. t = <<>> => x = n
      BY <1>1, <1>3 DEF HaInv, HaRuns
    <3>2. w' >= x /\ w' \in Nat /\ w' <= n
      BY <1>3, <1>4, <1>5 DEF HaPlaces
    <3> QED BY <1>3, <1>5, <3>1, <3>2
  <2> QED BY <1>1, <1>2, <1>5, <1>12, <2>1, <2>2, <2>3 DEF Filled
<1>14. Kept /\ Plain /\ feed # <<>> => x = feed[Len(feed)] + 1
  <2>1. Plain /\ feed # <<>> => feed[Len(feed)] = w
    BY DEF HaInv, Single
  <2> QED BY <1>3, <1>5, <1>10, <1>12, <2>1
<1> QED BY <1>1, <1>3, <1>7, <1>8, <1>9, <1>11, <1>13, <1>14 DEF HaInv, x

(* The store's flush and the checks of its convention leave the loop alone. *)
LEMMA AsideKeeps ==
  ASSUME HaInv, Ha!Flush \/ Ha!Startup \/ Ha!WatchTick \/ UNCHANGED Ha!vars
  PROVE  HaInv'
<1>1. /\ UNCHANGED <<haEnv, haTs, feed, seen, pc, connected, replay, events, local>>
      /\ flushed' = flushed \/ flushed' = Len(haTs)
  BY DEF Ha!Flush, Ha!Startup, Ha!WatchTick, Ha!vars, Ha!convention
<1>2. /\ drops' \in 0 .. MaxDrops /\ legacy' \in BOOLEAN /\ watcher' \in {"start", "running", "over"}
  BY BoundsAssumption DEF Ha!Flush, Ha!Startup, Ha!WatchTick, Ha!vars, Ha!convention, Ha!Check,
     Ha!WhileLegacy, HaInv, HaTypes
<1>3. /\ Ha!Newest' = Ha!Newest /\ HaPlaces' = HaPlaces /\ Mark' = Mark
      /\ UNCHANGED <<Ha!Polls, Ha!First, Utc, Plain, Kept>>
  BY <1>1 DEF Ha!Newest, HaPlaces, Mark, Ha!Polls, Ha!First, Utc, Plain, Kept, Ha!Lossy
<1>4. HaTypes'
  <2>1. flushed' \in 0 .. Len(haTs)
    BY <1>1, NewestIs DEF HaInv, HaTypes
  <2> QED BY <1>1, <1>2, <1>3, <2>1 DEF HaInv, HaTypes
<1>5. Clock' /\ HaRuns' /\ Stands' /\ Single'
  BY <1>1, <1>3 DEF HaInv, Clock, HaRuns, InRow, Stands, Single
<1>6. Filled'
  BY <1>1, <1>3 DEF HaInv, Filled, Elements
<1> QED BY <1>4, <1>5, <1>6 DEF HaInv

(* A session begins, is lost, is made again, or the bridge stops. *)
LEMMA SessionKeeps ==
  ASSUME HaInv, Ha!Subscribe \/ Ha!Retry \/ Ha!Drop \/ Ha!Shutdown \/ Ha!Convert
  PROVE  HaInv'
<1>1. /\ UNCHANGED <<haEnv, haTs, flushed, seen, feed>>
      /\ events' = events \/ events' = <<>>
      /\ replay' = IF pc' = "stopped" THEN <<>> ELSE replay
      /\ Utc => local' = local /\ ~Ha!Convert
  <2>1. Utc => ~Ha!Convert
    BY DEF Ha!Convert, HaInv, HaTypes
  <2>2. CASE Ha!Subscribe
    BY <2>1, <2>2 DEF Ha!Subscribe
  <2>3. CASE Ha!Retry
    BY <2>1, <2>3 DEF Ha!Retry, Ha!convention
  <2>4. CASE Ha!Drop
    BY <2>1, <2>4 DEF Ha!Drop, Ha!convention
  <2>5. CASE Ha!Shutdown
    BY <2>1, <2>5 DEF Ha!Shutdown
  <2>6. CASE Ha!Convert
    <3>1. pc' = "stopped" => replay' = <<>>
      BY <2>6 DEF Ha!Convert, HaInv, HaTypes
    <3> QED BY <2>1, <2>6, <3>1 DEF Ha!Convert
  <2> QED BY <2>2, <2>3, <2>4, <2>5, <2>6
<1>2. drops' \in 0 .. MaxDrops /\ legacy' \in BOOLEAN /\ watcher' \in {"start", "running", "over"}
      /\ local' \in BOOLEAN
  <2>1. /\ drops \in 0 .. MaxDrops /\ watcher \in {"start", "running", "over"}
        /\ legacy \in BOOLEAN /\ local \in BOOLEAN
    BY DEF HaInv, HaTypes
  <2>2. Ha!Check => drops' \in 0 .. MaxDrops /\ legacy' \in BOOLEAN
    BY <2>1, BoundsAssumption DEF Ha!Check
  <2>3. CASE Ha!Subscribe
    BY <2>1, <2>2, <2>3 DEF Ha!Subscribe
  <2>4. CASE Ha!Retry \/ Ha!Shutdown
    BY <2>1, <2>4 DEF Ha!Retry, Ha!Shutdown, Ha!convention
  <2>5. CASE Ha!Drop
    BY <2>1, <2>5, BoundsAssumption DEF Ha!Drop, Ha!convention
  <2>6. CASE Ha!Convert
    BY <2>1, <2>6 DEF Ha!Convert
  <2> QED BY <2>3, <2>4, <2>5, <2>6
<1>3. \/ pc' = "stopped" /\ connected' = FALSE /\ events' = <<>>
      \/ ~Ha!Polls /\ pc = "connect" /\ pc' = "query" /\ connected' = TRUE /\ events' = events
      \/ ~Ha!Polls /\ pc = "backoff" /\ pc' = "connect" /\ connected' = connected /\ events' = events
      \/ /\ ~Ha!Polls /\ pc \in {"connect", "query", "listen"} /\ pc' = "backoff"
         /\ connected' = FALSE /\ events' = <<>>
      \/ ~Utc /\ pc' = pc /\ connected' = connected /\ events' = events
  <2>1. pc \in {"connect", "query", "listen", "backoff"} => ~Ha!Polls
    BY DEF HaInv, HaTypes
  <2>2. CASE Ha!Subscribe
    <3>1. connected' = TRUE /\ pc = "connect" /\ pc' = "query" /\ events' = events
      BY <2>2 DEF Ha!Subscribe
    <3> QED BY <2>1, <3>1
  <2>3. CASE Ha!Retry
    BY <2>1, <2>3 DEF Ha!Retry
  <2>4. CASE Ha!Drop
    BY <2>1, <2>4 DEF Ha!Drop
  <2>5. CASE Ha!Shutdown
    BY <2>5 DEF Ha!Shutdown
  <2>6. CASE Ha!Convert
    BY <1>1, <2>1, <2>6 DEF Ha!Convert
  <2> QED BY <2>2, <2>3, <2>4, <2>5, <2>6
<1>4. /\ Ha!Newest' = Ha!Newest /\ HaPlaces' = HaPlaces
      /\ UNCHANGED <<Ha!Polls, Ha!First, Utc, Plain, Kept>>
  BY <1>1 DEF Ha!Newest, HaPlaces, Ha!Polls, Ha!First, Utc, Plain, Kept, Ha!Lossy
<1>5. HaTypes'
  <2>1. replay' \in Seq(HaPlaces) /\ events' \in Seq(HaPlaces)
    BY <1>1, EmptySeq DEF HaInv, HaTypes
  <2> QED BY <1>1, <1>2, <1>3, <1>4, <2>1 DEF HaInv, HaTypes
<1>6. Clock' /\ HaRuns'
  BY <1>1, <1>4 DEF HaInv, Clock, HaRuns, InRow
<1>7. Utc => \/ pc' = "stopped" /\ events' = <<>>
             \/ /\ pc \notin {"replay", "stopped"} /\ pc' \notin {"replay", "listen", "stopped"}
                /\ events' = <<>> /\ Mark' = Mark /\ Mark = Ha!Newest
  BY <1>1, <1>3, <1>4 DEF HaInv, HaTypes, Mark
<1>8. Stands'
  BY <1>1, <1>4, <1>7 DEF HaInv, Stands
<1>9. Single'
  <2>1. Plain => Utc
    BY HabitsKept DEF HaInv
  <2> QED BY <1>1, <1>4, <1>7, <2>1 DEF HaInv, Single
<1>10. Filled'
  <2>1. Kept => Utc
    BY HabitsKept DEF HaInv
  <2> QED BY <1>1, <1>4, <1>7, <2>1 DEF HaInv, Filled, Elements
<1> QED BY <1>5, <1>6, <1>8, <1>9, <1>10 DEF HaInv

LEMMA HaStepKeeps == HaInv /\ [Ha!Next]_(Ha!vars) => HaInv'
<1> SUFFICES ASSUME HaInv, [Ha!Next]_(Ha!vars) PROVE HaInv'
  OBVIOUS
<1>1. CASE \E step \in {0, 1} : Ha!Emit(step)
  BY <1>1, EmitKeeps
<1>2. CASE Ha!Query \/ Ha!QueryFails
  <2>1. Ha!QueryFails => pc' # "replay"
    BY DEF Ha!QueryFails, Ha!Caught
  <2> QED BY <1>2, <2>1, HaQueryEmpty, HaQueryFinds
<1>3. CASE Ha!BroadcastRow \/ Ha!Forward
  BY <1>3, HaBroadcastKeeps, HaForwardKeeps
<1> QED BY <1>1, <1>2, <1>3, AsideKeeps, SessionKeeps DEF Ha!Next, Ha!Step

(* The inductive invariant of the bridge. *)
THEOREM HaInvariance == Ha!Sized /\ Ha!Spec => []HaInv
<1>1. Ha!Sized /\ Ha!Init => HaInv
  BY HaInitHolds
<1>2. HaInv /\ [Ha!Next]_(Ha!vars) => HaInv'
  BY HaStepKeeps
<1> QED BY <1>1, <1>2, PTL DEF Ha!Spec

LEMMA HaCovers ==
  ASSUME HaInv, Kept
  PROVE  Ha!Complete
<1> DEFINE w == Ha!Newest
           n == Len(haTs)
<1>1. Utc /\ "sameTs" \notin haEnv.habits /\ Ha!Rows = 1 .. n /\ n \in Nat
  <2>1. Utc /\ "sameTs" \notin haEnv.habits
    BY HabitsKept DEF HaInv
  <2>2. Ha!Rows = 1 .. n /\ n \in Nat
    BY LenProperties DEF Ha!Rows, HaInv, HaTypes
  <2> QED BY <2>1, <2>2
<1>2. ASSUME pc = "listen", feed # <<>>, NEW r \in HaPlaces, r >= feed[1]
      PROVE  r \in Elements(feed) \/ r \in Elements(events)
  <2>1. /\ Mark = w /\ w \in HaPlaces /\ Elements(replay) = {} /\ ~Ha!Polls
        /\ events \in Seq(HaPlaces) /\ InRow(events) /\ (events # <<>> => events[Len(events)] = n)
    <3>1. replay = <<>> /\ ~Ha!Polls /\ events \in Seq(HaPlaces)
      BY <1>2 DEF HaInv, HaTypes
    <3> QED BY <1>2, <3>1, NewestIs DEF HaInv, Mark, HaRuns, Elements
  <2>2. CASE r <= w
    BY <1>2, <2>1, <2>2 DEF HaInv, Filled
  <2>3. CASE r > w
    <3>1. events # <<>> /\ events[1] <= w + 1
      BY <1>2, <2>1, <2>3 DEF HaInv, Filled, HaPlaces
    <3>2. events \in Seq(Nat) /\ events[1] \in Nat
      <4>1. HaPlaces \subseteq Nat
        BY DEF HaPlaces
      <4>2. events \in Seq(Nat)
        BY <2>1, <4>1, SeqMonotonic
      <4> QED BY <3>1, <4>2, ElementOfSeq, EmptySeq, LenProperties
    <3>3. r \in events[1] .. events[Len(events)]
      BY <1>1, <2>1, <2>3, <3>1, <3>2 DEF HaPlaces
    <3>4. PICK q \in Seq(Nat) : q = events
      BY <3>2
    <3>5. r \in ToSet(q)
      BY <2>1, <3>1, <3>3, <3>4, InRowHolds
    <3> QED BY <3>4, <3>5 DEF ToSet, Elements
  <2>4. w \in Nat
    BY NewestIs DEF HaInv
  <2> QED BY <2>2, <2>3, <2>4 DEF HaPlaces
<1>3. ASSUME pc = "sleep", NEW r \in HaPlaces
      PROVE  r \in Elements(feed) \/ Ha!Read(r) > seen
  <2>1. Mark = w /\ Elements(replay) = {} /\ Ha!Polls
    <3>1. replay = <<>> /\ Ha!Polls
      BY <1>3 DEF HaInv, HaTypes
    <3> QED BY <1>3, <3>1 DEF Mark, Elements
  <2>2. CASE r <= w
    BY <1>3, <2>1, <2>2 DEF HaInv, Filled
  <2>3. CASE r > w
    <3>1. Ha!Read(r) = haTs[r] /\ haTs[r] \in Nat /\ haTs[r] >= 3
      BY <1>1, ReadIs DEF HaInv
    <3>2. CASE feed = <<>>
      <4>1. seen = 2
        BY <1>1, <1>3, <2>1, <3>2 DEF HaInv, Stands, Ha!First
      <4> QED BY <3>1, <4>1
    <3>3. CASE feed # <<>>
      <4>1. w \in HaPlaces /\ w < r /\ seen = haTs[w]
        BY <1>1, <1>3, <2>1, <2>3, <3>3, NewestIs DEF HaInv, Stands, HaPlaces
      <4>2. haTs[w] < haTs[r]
        BY <1>1, <4>1 DEF HaInv, Clock
      <4>3. haTs[w] \in Nat
        BY <4>1, ReadIs DEF HaInv
      <4> QED BY <3>1, <4>1, <4>2, <4>3
    <3> QED BY <3>2, <3>3
  <2>4. w \in Nat
    BY NewestIs DEF HaInv
  <2> QED BY <2>2, <2>3, <2>4 DEF HaPlaces
<1> QED BY <1>1, <1>2, <1>3 DEF Ha!Complete, Ha!ToSet, Elements, HaPlaces

(* Its status says connected unless a socket or a poll is waited for or it is
   stopped; no telegram is shown twice, unless one is announced while the replay
   is being fetched or the database holds local timestamps; and where the store
   has none of the habits that lose some, none is lost, over any number of lost
   connections (ha_live_bridge.py). *)
THEOREM BridgeStaysTrue == Ha!Sized /\ Ha!Spec => [](Ha!TypeOK /\ Ha!NoRepeat /\ Ha!NothingLost)
<1>1. HaInv => Ha!TypeOK
  <2> SUFFICES ASSUME HaInv PROVE Ha!TypeOK
    OBVIOUS
  <2>1. Ha!Rows = HaPlaces
    BY LenProperties DEF Ha!Rows, HaPlaces, HaInv, HaTypes
  <2>2. pc \in {"connect", "query", "replay", "listen", "sleep", "backoff", "stopped"}
    BY DEF HaInv, HaTypes
  <2> QED BY <2>1, <2>2 DEF HaInv, HaTypes, Ha!TypeOK
<1>2. HaInv => Ha!NoRepeat
  BY DEF HaInv, Single, Plain, Ha!NoRepeat, Ha!IsInjective
<1>3. HaInv => Ha!NothingLost
  BY HaCovers DEF Ha!NothingLost, Kept
<1> QED BY <1>1, <1>2, <1>3, HaInvariance, PTL

(* Where the store has no such habit and is quiet while a replay is fetched, the
   bridge keeps the promise of a live feed: what it shows runs along the rows of
   the database, and none is skipped. *)
THEOREM HaKeepsFeedPromise == Ha!Sized /\ Ha!Spec => Ha!ImplementsFeedPromise
<1>1. Ha!Init => Ha!FP!Init
  BY EmptySeq DEF Ha!Init, Ha!FP!Init
<1>2. HaInv /\ [Ha!Next]_(Ha!vars) => [Ha!FP!Next]_(Ha!FP!vars)
  <2> SUFFICES ASSUME HaInv, [Ha!Next]_(Ha!vars) PROVE [Ha!FP!Next]_(Ha!FP!vars)
    OBVIOUS
  <2>0. haEnv' = haEnv => Ha!Promised' = Ha!Promised
    BY DEF Ha!Promised, Ha!Lossy, Ha!Polls
  <2>1. CASE \E step \in {0, 1} : Ha!Emit(step)
    <3>1. PICK step \in {0, 1} : Ha!Emit(step)
      BY <2>1
    <3>2. UNCHANGED <<haEnv, feed>> /\ Len(haTs') = Len(haTs) + 1
      BY <3>1, AppendProperties DEF Ha!Emit, HaInv, HaTypes
    <3> QED BY <2>0, <3>2 DEF Ha!FP!Next, Ha!FP!Write
  <2>2. CASE Ha!BroadcastRow \/ Ha!Forward
    <3>1. PICK r \in HaPlaces : /\ feed' = Append(feed, r)
                                /\ Kept /\ Plain /\ feed # <<>> => r = feed[Len(feed)] + 1
      BY <2>2, HaBroadcastKeeps, HaForwardKeeps
    <3>2. UNCHANGED <<haEnv, haTs>>
      BY <2>2 DEF Ha!BroadcastRow, Ha!Forward
    <3>3. Ha!Promised => Kept /\ Plain
      BY DEF Ha!Promised, Kept, Plain, Ha!Lossy, HaInv, HaTypes
    <3>4. CASE Ha!Promised
      <4>1. Ha!FP!Publish(r)
        BY <2>0, <3>1, <3>2, <3>3, <3>4 DEF Ha!FP!Publish
      <4> QED BY <4>1 DEF HaPlaces, Ha!FP!Next
    <3>5. CASE ~Ha!Promised
      BY <2>0, <3>2, <3>5 DEF Ha!FP!vars
    <3> QED BY <3>4, <3>5
  <2>3. CASE ~(\E step \in {0, 1} : Ha!Emit(step)) /\ ~(Ha!BroadcastRow \/ Ha!Forward)
    <3>1. UNCHANGED <<haEnv, haTs, feed>>
      BY <2>3 DEF Ha!Next, Ha!Step, Ha!Startup, Ha!Subscribe, Ha!Query, Ha!Retry, Ha!WatchTick, Ha!Flush,
         Ha!Convert, Ha!QueryFails, Ha!Drop, Ha!Shutdown, Ha!vars
    <3> QED BY <2>0, <3>1 DEF Ha!FP!vars
  <2> QED BY <2>1, <2>2, <2>3
<1> QED BY <1>1, <1>2, HaInvariance, PTL DEF Ha!Spec, Ha!ImplementsFeedPromise, Ha!FP!Spec
=============================================================================
