---------------------------- MODULE BufferPromise ----------------------------
(***************************************************************************)
(* What the telegram buffer promises the rest of the page, without saying  *)
(* how: a set of entries that never exceeds its capacity and that, whatever *)
(* is added in whatever order, gives up oldest entries only.               *)
(***************************************************************************)
EXTENDS Naturals, FiniteSets

CONSTANTS
  Entry,        \* telegrams as the buffer knows them
  Ts(_),        \* their timestamp
  MaxSizes      \* capacities the user can choose

VARIABLES kept, capacity

(* The subsets of S that keep the newest n of its members. *)
NewestOf(S, n) ==
  {T \in SUBSET S :
     /\ Cardinality(T) = IF Cardinality(S) <= n THEN Cardinality(S) ELSE n
     /\ \A e \in T, old \in S \ T : Ts(old) <= Ts(e)}

Init == kept = {} /\ capacity \in MaxSizes

Ingest(S) == kept' \in NewestOf(kept \cup S, capacity) /\ UNCHANGED capacity

Resize(n) == capacity' = n /\ kept' \in NewestOf(kept, n)

Wipe == kept' = {} /\ UNCHANGED capacity

Next ==
  \/ \E S \in SUBSET Entry : Ingest(S)
  \/ \E n \in MaxSizes : Resize(n)
  \/ Wipe

Spec == Init /\ [][Next]_<<kept, capacity>>
=============================================================================
