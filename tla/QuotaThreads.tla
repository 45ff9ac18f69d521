----------------------------- MODULE QuotaThreads -----------------------------
(* QuotaManager called from a thread pool (dispatch_with_timeout, or a server's *)
(* worker threads), inside one period.  Nothing locks the store, so a thread    *)
(* may be switched out between any two dict accesses: reserve is three reads, a *)
(* decision and three increments, and an increment of InMemoryQuotaStore is     *)
(* itself a read and a write.  A store behind the protocol whose incr is one    *)
(* step, as the protocol demands, is modelled next to the in-memory one.        *)
EXTENDS Integers, FiniteSets

CONSTANTS
    Threads,
    RequestCap, MinuteCap, DayCap,
    Estimates,      (* what estimate_tokens may return                         *)
    Actuals,        (* what usage.total_tokens may be                          *)
    MaxGrants       (* bound on the reservations of a behaviour                *)

ASSUME ThreadsAssumption ==
    /\ IsFiniteSet(Threads) /\ Threads # {}
    /\ RequestCap \in Nat /\ MinuteCap \in Nat /\ DayCap \in Nat
    /\ Estimates \subseteq Nat /\ Actuals \subseteq Nat
    /\ MaxGrants \in Nat

VARIABLES
    store,     (* which store: "memory", or one whose incr is "atomic"         *)
    counts,    (* the store: one counter per window                            *)
    pc,        (* where each thread is                                         *)
    frame,     (* the locals of the method each thread is in                   *)
    reserved,  (* tokens of the reservation each thread holds                  *)
    ledger,    (* history: what every window was charged, corrections included *)
    refunded,  (* history: tokens that corrections gave back                   *)
    overlapped (* history: two threads were inside the manager at once         *)

vars == <<store, counts, pc, frame, reserved, ledger, refunded, overlapped>>

(* 1 is requests_per_min, 2 tokens_per_min and 3 tokens_per_day. *)
Windows == 1..3

Cap == <<RequestCap, MinuteCap, DayCap>>

(* The method, the window it is at, the tokens it adds, what reserve read of   *)
(* each window and what incr read.                                             *)
Call(method, window, tokens) ==
    [method |-> method, window |-> window, tokens |-> tokens,
     seen |-> [w \in Windows |-> 0], got |-> 0]

NoCall == Call("reserve", 1, 0)

(* Mutant: the request window is charged in tokens. *)
AddedTokens(t, w) == frame[t].tokens

Added(t, w) == IF w = 1 THEN 1 ELSE frame[t].tokens

Inside(at) == {t \in Threads : at[t] \notin {"idle", "calling"}}

Goto(t, to) == pc' = [pc EXCEPT ![t] = to]

Return(t, to) == Goto(t, to) /\ frame' = [frame EXCEPT ![t] = NoCall]

(* What the counters should come to show, whoever loses an increment. *)
Charge(requests, tokens) ==
    ledger' = [w \in Windows |-> ledger[w] + (IF w = 1 THEN requests ELSE tokens)]

-------------------------------------------------------------------------------
Init ==
    /\ store \in {"memory", "atomic"}
    /\ overlapped = FALSE
    /\ counts = [w \in Windows |-> 0]
    /\ pc = [t \in Threads |-> "idle"]
    /\ frame = [t \in Threads |-> NoCall]
    /\ reserved = [t \in Threads |-> 0]
    /\ ledger = [w \in Windows |-> 0]
    /\ refunded = 0

(* A dispatch reaches its quota link and enters reserve. *)
Begin(t) ==
    /\ pc[t] = "idle"
    /\ ledger[1] < MaxGrants
    /\ \E e \in Estimates : frame' = [frame EXCEPT ![t] = Call("reserve", 1, e)]
    /\ Goto(t, "read")
    /\ UNCHANGED <<counts, reserved, ledger, refunded>>

(* One of the three reads of reserve. *)
ReadWindow(t) ==
    LET w == frame[t].window
    IN  /\ pc[t] = "read"
        /\ frame' = [frame EXCEPT ![t].seen[w] = counts[w],
                                  ![t].window = IF w < 3 THEN w + 1 ELSE 1]
        /\ Goto(t, IF w < 3 THEN "read" ELSE "decide")
        /\ UNCHANGED <<counts, reserved, ledger, refunded>>

Deny(t) ==
    /\ pc[t] = "decide"
    /\ \E w \in Windows : frame[t].seen[w] + Added(t, w) > Cap[w]
    /\ Return(t, "idle")
    /\ UNCHANGED <<counts, reserved, ledger, refunded>>

(* Mutant: the verdict is not looked at. *)
GrantUnchecked(t) ==
    /\ pc[t] = "decide"
    /\ Goto(t, "incr")
    /\ frame' = [frame EXCEPT ![t] = Call("reserve", 1, frame[t].tokens)]
    /\ reserved' = [reserved EXCEPT ![t] = frame[t].tokens]
    /\ Charge(1, frame[t].tokens)
    /\ UNCHANGED <<counts, refunded>>

Grant(t) ==
    /\ pc[t] = "decide"
    /\ \A w \in Windows : frame[t].seen[w] + Added(t, w) <= Cap[w]
    /\ Goto(t, "incr")
    /\ frame' = [frame EXCEPT ![t] = Call("reserve", 1, frame[t].tokens)]
    /\ reserved' = [reserved EXCEPT ![t] = frame[t].tokens]
    /\ Charge(1, frame[t].tokens)
    /\ UNCHANGED <<counts, refunded>>

(* After its last increment the method returns: reserve into the provider      *)
(* call, commit out of the dispatch.                                           *)
NextWindow(t) ==
    IF frame[t].window < 3
    THEN /\ Goto(t, "incr")
         /\ frame' = [frame EXCEPT ![t].window = @ + 1, ![t].got = 0]
    ELSE Return(t, IF frame[t].method = "reserve" THEN "calling" ELSE "idle")

(* incr as the protocol wants it. *)
IncrAtomic(t) ==
    /\ store = "atomic"
    /\ pc[t] = "incr"
    /\ LET w == frame[t].window
       IN  counts' = [counts EXCEPT ![w] = @ + Added(t, w)]
    /\ NextWindow(t)
    /\ UNCHANGED <<reserved, ledger, refunded>>

(* incr of the in-memory store: get the entry ... *)
IncrGet(t) ==
    /\ store = "memory"
    /\ pc[t] = "incr"
    /\ frame' = [frame EXCEPT ![t].got = counts[frame[t].window]]
    /\ Goto(t, "set")
    /\ UNCHANGED <<counts, reserved, ledger, refunded>>

(* ... and set it to what was read plus the charge. *)
IncrSet(t) ==
    /\ pc[t] = "set"
    /\ LET w == frame[t].window
       IN  counts' = [counts EXCEPT ![w] = frame[t].got + Added(t, w)]
    /\ NextWindow(t)
    /\ UNCHANGED <<reserved, ledger, refunded>>

(* The provider answered: commit adds the difference to the token windows. *)
Commit(t) ==
    /\ pc[t] = "calling"
    /\ \E actual \in Actuals :
         LET delta == actual - reserved[t]
         IN  /\ IF delta = 0
                THEN Return(t, "idle")
                ELSE /\ frame' = [frame EXCEPT ![t] = Call("commit", 2, delta)]
                     /\ Goto(t, "incr")
             /\ Charge(0, delta)
             /\ refunded' = refunded + (IF delta < 0 THEN -delta ELSE 0)
    /\ reserved' = [reserved EXCEPT ![t] = 0]
    /\ UNCHANGED counts

(* The candidate failed: the reservation is forgotten. *)
Abandon(t) ==
    /\ pc[t] = "calling"
    /\ Return(t, "idle")
    /\ reserved' = [reserved EXCEPT ![t] = 0]
    /\ UNCHANGED <<counts, ledger, refunded>>

Thread(t) ==
    \/ Begin(t) \/ ReadWindow(t) \/ Deny(t) \/ Grant(t)
    \/ IncrAtomic(t) \/ IncrGet(t) \/ IncrSet(t)
    \/ Commit(t) \/ Abandon(t)

Next ==
    /\ \E t \in Threads : Thread(t)
    /\ overlapped' = (overlapped \/ Cardinality(Inside(pc')) > 1)
    /\ UNCHANGED store

Spec == Init /\ [][Next]_vars

-------------------------------------------------------------------------------
(* Properties *)

NoShortEstimate == \A e \in Estimates, a \in Actuals : a <= e

(* With a store whose incr is atomic, threads that all read before any of them *)
(* charges overshoot a cap by at most one charge per other thread, provided    *)
(* that estimates do not fall short.                                           *)
OvershootByThreads ==
    store = "atomic" /\ NoShortEstimate =>
        \A w \in Windows, e \in Estimates :
            (\A f \in Estimates : f <= e) =>
                counts[w] <= Cap[w] + (Cardinality(Threads) - 1)
                                        * (IF w = 1 THEN 1 ELSE e)

(* Increments that overwrite each other make up no charge.  The request counter *)
(* never shows more than the reservations granted; a token counter may be above *)
(* its account, because the increment that was lost may be a refund, but never  *)
(* by more than was refunded.                                                   *)
CountsWereCharged ==
    \A w \in Windows :
        counts[w] <= ledger[w] + (IF w = 1 THEN 0 ELSE refunded)

(* As long as no two calls of the manager overlap, on one event loop for one,   *)
(* even the in-memory store is exact: between calls all three counters show     *)
(* what was granted and corrected.  The request cap holds, and so do the token  *)
(* caps unless an answer takes more than was estimated: a correction is never   *)
(* refused.  This is what lets QuotaManager take each call as one step.         *)
ExactWithoutOverlap ==
    ~overlapped =>
        /\ Inside(pc) = {} => counts = ledger
        /\ \A w \in Windows : w = 1 \/ NoShortEstimate => counts[w] <= Cap[w]

===============================================================================
