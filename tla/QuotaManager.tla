----------------------------- MODULE QuotaManager -----------------------------
(* QuotaManager over InMemoryQuotaStore for one tenant, with several dispatches *)
(* in flight on one event loop: reserve and commit run without an await inside, *)
(* so each is one step, and everything else interleaves between them.  Tenants  *)
(* share nothing (every counter is keyed by tenant), so one is enough.          *)
EXTENDS Integers, FiniteSets, Functions

CONSTANTS
    Dispatches,      (* the tenant's turns in flight                           *)
    RequestCap,      (* TenantQuota.requests_per_min                           *)
    MinuteCap,       (* TenantQuota.tokens_per_min                             *)
    DayCap,          (* TenantQuota.tokens_per_day                             *)
    Estimates,       (* what estimate_tokens may return                        *)
    Actuals,         (* what usage.total_tokens may be                         *)
    MaxOverrun,      (* how far an actual may exceed its estimate              *)
    MinutesPerDay,
    LastMinute,      (* bound on the clock                                     *)
    NoReservation

ASSUME QuotaAssumption ==
    /\ IsFiniteSet(Dispatches)
    /\ RequestCap \in Nat /\ MinuteCap \in Nat /\ DayCap \in Nat
    /\ Estimates \subseteq Nat /\ Actuals \subseteq Nat
    /\ MaxOverrun \in Nat
    /\ \A e \in Estimates, a \in Actuals : a - e <= MaxOverrun

ASSUME ClockAssumption ==
    /\ MinutesPerDay \in Nat \ {0}
    /\ LastMinute \in Nat
    /\ NoReservation \notin [tokens : Estimates, minute : Nat]

VARIABLES
    now,      (* time.monotonic() in whole minutes                             *)
    counts,   (* the store: window -> count and the period it was counted in   *)
    held,     (* dispatch -> the reservation its context holds                 *)
    granted,  (* history: reservations granted this minute                     *)
    ledger    (* history: what moved each token window this period             *)

vars == <<now, counts, held, granted, ledger>>

TokenWindows == {"tokens_per_min", "tokens_per_day"}
Windows == TokenWindows \union {"requests_per_min"}

Reservation == [tokens : Estimates, minute : Nat]

Cap(w) == CASE w = "requests_per_min" -> RequestCap
            [] w = "tokens_per_min"   -> MinuteCap
            [] w = "tokens_per_day"   -> DayCap

-------------------------------------------------------------------------------
(* The store *)

PeriodAt(w, minute) ==
    IF w = "tokens_per_day" THEN minute \div MinutesPerDay ELSE minute

Period(w) == PeriodAt(w, now)

(* An entry the dict does not hold has a period no clock reading gives. *)
Absent == [count |-> 0, period |-> -1]

(* Mutant: the period of the entry is not looked at. *)
ReadStale(w) == counts[w].count

Read(w) == IF counts[w].period = Period(w) THEN counts[w].count ELSE 0

(* Mutant: a refund never takes a counter below zero. *)
IncrClamped(w, tokens) ==
    [count |-> IF Read(w) + tokens < 0 THEN 0 ELSE Read(w) + tokens,
     period |-> Period(w)]

Incr(w, tokens) == [count |-> Read(w) + tokens, period |-> Period(w)]

-------------------------------------------------------------------------------
Charge(w, estimate) == IF w = "requests_per_min" THEN 1 ELSE estimate

(* Mutant: the counter is tested without the prospective charge. *)
DeniedTooLate(estimate) == \E w \in Windows : Read(w) > Cap(w)

(* Mutant: the day's budget is not tested. *)
DeniedIgnoringDay(estimate) ==
    \E w \in Windows \ {"tokens_per_day"} : Read(w) + Charge(w, estimate) > Cap(w)

Denied(estimate) == \E w \in Windows : Read(w) + Charge(w, estimate) > Cap(w)

(* Mutant: the reservation remembers the prospective total. *)
HoldTotal(estimate) ==
    [tokens |-> Read("tokens_per_min") + estimate, minute |-> now]

Hold(estimate) == [tokens |-> estimate, minute |-> now]

Straddles(w, minute) == PeriodAt(w, minute) # Period(w)

Fresh == [own |-> 0, leaked |-> 0, carried |-> 0]

Init ==
    /\ now = 0
    /\ counts = [w \in Windows |-> Absent]
    /\ held = [d \in Dispatches |-> NoReservation]
    /\ granted = 0
    /\ ledger = [w \in TokenWindows |-> Fresh]

(* A grant charges all three windows; the verdict is ALLOW or SOFT_LIMIT. *)
Reserve(d) ==
    /\ held[d] = NoReservation
    /\ \E estimate \in Estimates :
         /\ ~Denied(estimate)
         /\ counts' = [w \in Windows |-> Incr(w, Charge(w, estimate))]
         /\ held' = [held EXCEPT ![d] = Hold(estimate)]
    /\ granted' = granted + 1
    /\ UNCHANGED <<now, ledger>>

(* The request count is not reconciled; a zero delta touches nothing. *)
Commit(d) ==
    /\ held[d] # NoReservation
    /\ \E actual \in Actuals :
         LET delta == actual - held[d].tokens
         IN  /\ counts' = IF delta = 0 THEN counts
                          ELSE [w \in Windows |-> IF w \in TokenWindows
                                                  THEN Incr(w, delta) ELSE counts[w]]
             /\ ledger' = [w \in TokenWindows |->
                  IF Straddles(w, held[d].minute)
                  THEN [ledger[w] EXCEPT !.carried = @ + delta]
                  ELSE [ledger[w] EXCEPT !.own = @ + actual]]
    /\ held' = [held EXCEPT ![d] = NoReservation]
    /\ UNCHANGED <<now, granted>>

(* A fallback, an error or a cancellation forgets the reservation: nothing in  *)
(* the store is touched.                                                       *)
Abandon(d) ==
    /\ held[d] # NoReservation
    /\ ledger' = [w \in TokenWindows |->
         IF Straddles(w, held[d].minute) THEN ledger[w]
         ELSE [ledger[w] EXCEPT !.leaked = @ + held[d].tokens]]
    /\ held' = [held EXCEPT ![d] = NoReservation]
    /\ UNCHANGED <<now, counts, granted>>

(* Housekeeping drops the entries of past periods. *)
ResetExpired ==
    /\ \E w \in Windows : counts[w] # Absent /\ counts[w].period # Period(w)
    /\ counts' = [w \in Windows |->
         IF counts[w].period # Period(w) THEN Absent ELSE counts[w]]
    /\ UNCHANGED <<now, held, granted, ledger>>

(* The clock passes a minute; the counters of the store do not move. *)
Tick ==
    /\ now < LastMinute
    /\ now' = now + 1
    /\ granted' = 0
    /\ ledger' = [w \in TokenWindows |->
         IF PeriodAt(w, now + 1) # Period(w) THEN Fresh ELSE ledger[w]]
    /\ UNCHANGED <<counts, held>>

Next ==
    \/ \E d \in Dispatches : Reserve(d) \/ Commit(d) \/ Abandon(d)
    \/ ResetExpired
    \/ Tick

Spec == Init /\ [][Next]_vars

-------------------------------------------------------------------------------
(* Properties *)

Ledger == [own : Nat, leaked : Nat, carried : Int]

Holding == {d \in Dispatches : held[d] # NoReservation}

(* Every variable holds a value of its kind; counters may be negative. *)
TypeOK ==
    /\ now \in Nat
    /\ counts \in [Windows -> [count : Int, period : Int]]
    /\ held \in [Dispatches -> Reservation \union {NoReservation}]
    /\ granted \in Nat
    /\ ledger \in [TokenWindows -> Ledger]

(* However dispatches interleave with each other and with the clock, no minute *)
(* sees more reservations granted than requests_per_min.                       *)
RequestsWithinCap == granted <= RequestCap

(* A token window exceeds its cap only by what the calls still in flight when  *)
(* it filled up had underestimated, each at most once.                         *)
OvershootBounded ==
    \A w \in TokenWindows :
        Read(w) <= Cap(w) + Cardinality(Dispatches) * MaxOverrun

(* What the open reservations still add to a window in this period. *)
Pending(w) ==
    LET open == {d \in Holding : ~Straddles(w, held[d].minute)}
    IN  SumFunctionOnSet([d \in open |-> held[d].tokens], open)

(* A token counter is the tokens of the calls made in its period plus the      *)
(* estimates still open, and is off by exactly two things: estimates abandoned *)
(* in the period, which stay charged, and corrections of calls that were       *)
(* charged in an earlier period.                                               *)
DriftExplained ==
    \A w \in TokenWindows :
        Read(w) = ledger[w].own + Pending(w) + ledger[w].leaked + ledger[w].carried

(* The store resets a counter lazily, when it is next touched; nobody can tell *)
(* it from counters that are zeroed as the clock passes a period (WindowMeter).*)
Meter == INSTANCE WindowMeter WITH used <- [w \in Windows |-> Read(w)]

ResetsAtRollover == Meter!Spec

===============================================================================
