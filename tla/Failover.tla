------------------------------- MODULE Failover -------------------------------
(* What failover promises the caller of a turn, whatever the handlers do: the  *)
(* slots (i-th provider of the route, k-th key of it) are visited in route     *)
(* order, no key of a provider is passed over, the answer comes from the slot  *)
(* being visited, and the turn is exhausted only past the last provider.       *)
EXTENDS Integers, Sequences

VARIABLES
    keys,     (* how many keys each provider of the route has *)
    slot,     (* the slot being visited                       *)
    tried,    (* the slots that were called                   *)
    outcome   (* pending, answered, exhausted or aborted      *)

vars == <<keys, slot, tried, outcome>>

Init ==
    /\ keys \in Seq(Nat)
    /\ slot = <<1, 1>>
    /\ tried = {}
    /\ outcome = IF keys = <<>> THEN "exhausted" ELSE "pending"

Slots(i) == {<<i, k>> : k \in 1..keys[i]}

(* The visited slot is called; it may stay, answer, or be left at once. *)
Call == tried' \in {tried, tried \union {slot}}

Stay == slot' = slot /\ outcome' = outcome

Answer == slot' = slot /\ slot \in tried' /\ outcome' = "answered"

Abort == slot' = slot /\ outcome' = "aborted"

NextKey ==
    /\ slot \in tried'
    /\ slot[2] < keys[slot[1]]
    /\ slot' = <<slot[1], slot[2] + 1>>
    /\ outcome' = outcome

(* A provider is left when all its keys were called, or skipped untouched. *)
NextProvider ==
    /\ \/ Slots(slot[1]) \subseteq tried'
       \/ Slots(slot[1]) \intersect tried' = {}
    /\ slot' = <<slot[1] + 1, 1>>
    /\ outcome' = IF slot[1] = Len(keys) THEN "exhausted" ELSE outcome

Next ==
    /\ outcome = "pending"
    /\ Call
    /\ Stay \/ Answer \/ Abort \/ NextKey \/ NextProvider
    /\ UNCHANGED keys

Spec == Init /\ [][Next]_vars

===============================================================================
