-------------------------- MODULE QuotaManagerProofs --------------------------
(* Proofs about QuotaManager, for every quota, clock and set of dispatches.     *)
EXTENDS QuotaManager, DataLemmas

(* An entry was counted in the period that runs or in an earlier one.           *)
PeriodsPast == \A w \in Windows : counts[w].period <= Period(w)

LEMMA TimesMonotone ==
    ASSUME NEW d \in Nat, NEW a \in Int, NEW b \in Int, a <= b
    PROVE  a * d <= b * d
OBVIOUS

LEMMA DivMonotone ==
    ASSUME NEW n \in Nat, NEW d \in Nat \ {0}
    PROVE  /\ n \div d \in Nat /\ (n + 1) \div d \in Nat
           /\ n \div d <= (n + 1) \div d
<1> DEFINE q == n \div d
           r == (n + 1) \div d
<1>1. q \in Nat /\ r \in Nat
  OBVIOUS
<1>2. q * d <= n /\ n + 1 < (r + 1) * d
  OBVIOUS
<1>3. ASSUME r < q PROVE FALSE
  <2>1. (r + 1) * d <= q * d
    BY <1>1, <1>3, TimesMonotone
  <2>2. (r + 1) * d \in Int /\ q * d \in Int
    BY <1>1
  <2> HIDE DEF q, r
  <2> QED BY <2>1, <2>2, <1>2
<1> QED BY <1>1, <1>3

-------------------------------------------------------------------------------
(* Type correctness *)

LEMMA PeriodType ==
    ASSUME NEW w \in Windows, NEW m \in Nat
    PROVE  /\ PeriodAt(w, m) \in Nat
           /\ PeriodAt(w, m) <= PeriodAt(w, m + 1)
<1>1. CASE w = "tokens_per_day"
  BY <1>1, ClockAssumption, DivMonotone DEF PeriodAt
<1>2. CASE w # "tokens_per_day"
  BY <1>2 DEF PeriodAt
<1> QED BY <1>1, <1>2

LEMMA PeriodMonotone ==
    ASSUME NEW w \in Windows, NEW m \in Nat, NEW n \in Nat, m <= n
    PROVE  PeriodAt(w, m) <= PeriodAt(w, n)
<1>1. CASE w = "tokens_per_day"
  <2> DEFINE q == m \div MinutesPerDay
             r == n \div MinutesPerDay
  <2>1. q \in Nat /\ r \in Nat /\ MinutesPerDay \in Nat \ {0}
    BY ClockAssumption
  <2>2. q * MinutesPerDay <= m /\ n < (r + 1) * MinutesPerDay
    BY ClockAssumption
  <2>3. ASSUME r < q
        PROVE  FALSE
    <3>1. (r + 1) * MinutesPerDay <= q * MinutesPerDay
      BY <2>1, <2>3, TimesMonotone
    <3>2. (r + 1) * MinutesPerDay \in Int /\ q * MinutesPerDay \in Int
      BY <2>1
    <3> HIDE DEF q, r
    <3> QED BY <3>1, <3>2, <2>2
  <2> QED BY <1>1, <2>1, <2>3 DEF PeriodAt
<1>2. CASE w # "tokens_per_day"
  BY <1>2 DEF PeriodAt
<1> QED BY <1>1, <1>2

LEMMA ReadType ==
    ASSUME TypeOK, NEW w \in Windows
    PROVE  Read(w) \in Int /\ Period(w) \in Nat
BY PeriodType DEF TypeOK, Read, Period

(* What a charge leaves in the store.                                           *)
LEMMA IncrFacts ==
    ASSUME TypeOK, NEW w \in Windows, NEW n \in Int
    PROVE  /\ Incr(w, n) \in [count : Int, period : Int]
           /\ Incr(w, n).count = Read(w) + n
           /\ Incr(w, n).period = Period(w)
BY ReadType DEF Incr

LEMMA HoldingType ==
    ASSUME NEW d \in Dispatches, TypeOK, held[d] # NoReservation
    PROVE  held[d].tokens \in Estimates /\ held[d].tokens \in Nat
<1>1. held[d] \in Reservation
  BY DEF TypeOK
<1> QED BY <1>1, QuotaAssumption DEF Reservation

LEMMA TypeInit == Init => TypeOK
BY DEF Init, TypeOK, Absent, Fresh, Ledger

LEMMA TypeStep == TypeOK /\ [Next]_vars => TypeOK'
<1> SUFFICES ASSUME TypeOK, [Next]_vars PROVE TypeOK'
  OBVIOUS
<1>1. ASSUME NEW d \in Dispatches, Reserve(d) PROVE TypeOK'
  <2>1. PICK e \in Estimates :
          /\ counts' = [w \in Windows |-> Incr(w, Charge(w, e))]
          /\ held' = [held EXCEPT ![d] = Hold(e)]
    BY <1>1 DEF Reserve
  <2>2. \A w \in Windows : Charge(w, e) \in Int
    BY QuotaAssumption DEF Charge
  <2>3. counts' \in [Windows -> [count : Int, period : Int]]
    BY <2>1, <2>2, IncrFacts
  <2>4. Hold(e) \in Reservation
    BY DEF TypeOK, Hold, Reservation
  <2> QED BY <1>1, <2>1, <2>3, <2>4 DEF Reserve, TypeOK
<1>2. ASSUME NEW d \in Dispatches, Commit(d) PROVE TypeOK'
  <2>1. held[d].tokens \in Nat
    BY <1>2, HoldingType DEF Commit
  <2> DEFINE delta(a) == a - held[d].tokens
  <2>2. PICK a \in Actuals :
          /\ counts' = IF delta(a) = 0 THEN counts
                       ELSE [w \in Windows |-> IF w \in TokenWindows
                                               THEN Incr(w, delta(a)) ELSE counts[w]]
          /\ ledger' = [w \in TokenWindows |->
               IF Straddles(w, held[d].minute)
               THEN [ledger[w] EXCEPT !.carried = @ + delta(a)]
               ELSE [ledger[w] EXCEPT !.own = @ + a]]
    BY <1>2 DEF Commit
  <2>3. a \in Nat /\ delta(a) \in Int
    BY <2>1, QuotaAssumption
  <2> HIDE DEF delta
  <2>4. counts' \in [Windows -> [count : Int, period : Int]]
    <3>1. \A w \in Windows : Incr(w, delta(a)) \in [count : Int, period : Int]
      BY <2>3, IncrFacts
    <3> QED BY <2>2, <3>1 DEF TypeOK
  <2>5. ledger' \in [TokenWindows -> Ledger]
    <3>1. \A w \in TokenWindows :
            /\ [ledger[w] EXCEPT !.carried = @ + delta(a)] \in Ledger
            /\ [ledger[w] EXCEPT !.own = @ + a] \in Ledger
      BY <2>3 DEF TypeOK, Ledger
    <3> QED BY <2>2, <3>1
  <2> QED BY <1>2, <2>4, <2>5 DEF Commit, TypeOK
<1>3. ASSUME NEW d \in Dispatches, Abandon(d) PROVE TypeOK'
  <2>1. held[d].tokens \in Nat
    BY <1>3, HoldingType DEF Abandon
  <2>2. ledger' \in [TokenWindows -> Ledger]
    BY <1>3, <2>1 DEF Abandon, TypeOK, Ledger
  <2> QED BY <1>3, <2>2 DEF Abandon, TypeOK
<1>4. CASE ResetExpired
  BY <1>4 DEF ResetExpired, TypeOK, Absent
<1>5. CASE Tick
  BY <1>5 DEF Tick, TypeOK, Fresh, Ledger
<1>6. CASE UNCHANGED vars
  BY <1>6 DEF vars, TypeOK
<1> QED BY <1>1, <1>2, <1>3, <1>4, <1>5, <1>6 DEF Next

(* Counters are integers, never anything else, whatever is refunded when: a     *)
(* negative one is possible (QuotaManager commits after a rollover).            *)
THEOREM TypeCorrect == Spec => []TypeOK
BY TypeInit, TypeStep, PTL DEF Spec

-------------------------------------------------------------------------------
(* Caps *)

(* The requests counter is what was granted this minute.                        *)
RequestsCounted ==
    /\ granted = Read("requests_per_min")
    /\ granted <= RequestCap

(* Every open reservation may still overrun once; the slack of the others is    *)
(* all the overshoot there is.                                                  *)
Headroom ==
    \A w \in TokenWindows :
        Read(w) + Cardinality(Holding) * MaxOverrun
            <= Cap(w) + Cardinality(Dispatches) * MaxOverrun

QInv == TypeOK /\ PeriodsPast /\ RequestsCounted /\ Headroom

LEMMA HoldingFinite ==
    /\ IsFiniteSet(Holding)
    /\ Cardinality(Holding) \in Nat /\ Cardinality(Dispatches) \in Nat
    /\ Cardinality(Holding) <= Cardinality(Dispatches)
<1>1. Holding \in SUBSET Dispatches /\ IsFiniteSet(Dispatches)
  BY QuotaAssumption DEF Holding
<1> QED BY <1>1, FS_Subset, FS_CardinalityType

(* Letting a reservation go gives back one overrun.                             *)
LEMMA HoldingReleased ==
    ASSUME TypeOK, NEW d \in Dispatches, held[d] # NoReservation,
           held' = [held EXCEPT ![d] = NoReservation]
    PROVE  /\ Cardinality(Holding') \in Nat
           /\ Cardinality(Holding) = Cardinality(Holding') + 1
           /\ Cardinality(Holding) * MaxOverrun
                = Cardinality(Holding') * MaxOverrun + MaxOverrun
<1>1. Holding' = Holding \ {d} /\ d \in Holding
  BY DEF Holding, TypeOK
<1>2. Cardinality(Holding') = Cardinality(Holding) - 1
  BY <1>1, HoldingFinite, FS_RemoveElement
<1>3. Cardinality(Holding') \in Nat
  BY <1>1, HoldingFinite, FS_RemoveElement, FS_CardinalityType
<1>4. Cardinality(Holding) = Cardinality(Holding') + 1
  BY <1>2, HoldingFinite
<1>5. ASSUME NEW n \in Nat PROVE (n + 1) * MaxOverrun = n * MaxOverrun + MaxOverrun
  BY QuotaAssumption
<1> QED BY <1>3, <1>4, <1>5

LEMMA QInvInit == Init => QInv
<1> SUFFICES ASSUME Init PROVE QInv
  OBVIOUS
<1>1. TypeOK
  BY TypeInit
<1>2. \A w \in Windows : Period(w) \in Nat
  BY <1>1, ReadType
<1>3. PeriodsPast
  BY <1>2 DEF Init, PeriodsPast, Absent
<1>4. \A w \in Windows : Read(w) = 0
  BY <1>2 DEF Init, Read, Period, Absent
<1>5. RequestsCounted
  BY <1>4, QuotaAssumption DEF Init, RequestsCounted, Windows
<1>6. Headroom
  <2>1. Holding = {}
    BY DEF Init, Holding
  <2>2. Cardinality(Holding) = 0
    BY <2>1, FS_EmptySet
  <2>3. Cardinality(Dispatches) * MaxOverrun \in Nat /\ 0 * MaxOverrun = 0
    BY HoldingFinite, QuotaAssumption
  <2>4. \A w \in TokenWindows : Read(w) = 0 /\ Cap(w) \in Nat
    BY <1>4, QuotaAssumption DEF Windows, TokenWindows, Cap
  <2> QED BY <2>2, <2>3, <2>4 DEF Headroom
<1> QED BY <1>1, <1>3, <1>5, <1>6 DEF QInv

LEMMA ReserveKeeps ==
    ASSUME QInv, TypeOK', NEW d \in Dispatches, Reserve(d)
    PROVE  PeriodsPast' /\ RequestsCounted' /\ Headroom'
<1>1. PICK e \in Estimates :
        /\ ~Denied(e)
        /\ counts' = [w \in Windows |-> Incr(w, Charge(w, e))]
  BY DEF Reserve
<1>2. now' = now /\ granted' = granted + 1
  BY DEF Reserve
<1>3. \A w \in Windows :
        /\ Charge(w, e) \in Nat /\ Read(w) \in Int /\ Period(w) \in Nat
        /\ Cap(w) \in Nat
        /\ counts'[w].period = Period(w)
        /\ counts'[w].count = Read(w) + Charge(w, e)
  <2>1. \A w \in Windows : Charge(w, e) \in Nat /\ Cap(w) \in Nat
    BY QuotaAssumption DEF Charge, Cap, Windows, TokenWindows
  <2> QED BY <1>1, <2>1, IncrFacts, ReadType DEF QInv
<1>4. \A w \in Windows : Period(w)' = Period(w)
  BY <1>2 DEF Period
<1>5. \A w \in Windows : Read(w)' = Read(w) + Charge(w, e) /\ Read(w)' <= Cap(w)
  BY <1>1, <1>3, <1>4 DEF Read, Period, Denied
<1>6. PeriodsPast'
  BY <1>3, <1>4 DEF PeriodsPast
<1>7. RequestsCounted'
  BY <1>2, <1>3, <1>5 DEF QInv, TypeOK, RequestsCounted, Charge, Windows, Cap
<1>8. Headroom'
  <2>1. Holding' \in SUBSET Dispatches /\ IsFiniteSet(Dispatches)
    BY QuotaAssumption DEF Holding
  <2>2. /\ Cardinality(Holding') \in Nat /\ Cardinality(Dispatches) \in Nat
        /\ Cardinality(Holding') <= Cardinality(Dispatches)
    BY <2>1, FS_Subset, FS_CardinalityType
  <2>3. /\ Cardinality(Holding') * MaxOverrun <= Cardinality(Dispatches) * MaxOverrun
        /\ Cardinality(Holding') * MaxOverrun \in Nat
        /\ Cardinality(Dispatches) * MaxOverrun \in Nat
    BY <2>2, TimesMonotone, QuotaAssumption
  <2>4. \A w \in TokenWindows : Read(w)' \in Int /\ Cap(w) \in Nat /\ Read(w)' <= Cap(w)
    BY <1>3, <1>5 DEF Windows
  <2> QED BY <2>3, <2>4 DEF Headroom
<1> QED BY <1>6, <1>7, <1>8

LEMMA CommitKeeps ==
    ASSUME QInv, TypeOK', NEW d \in Dispatches, Commit(d)
    PROVE  PeriodsPast' /\ RequestsCounted' /\ Headroom'
<1>1. /\ held[d] # NoReservation /\ held' = [held EXCEPT ![d] = NoReservation]
      /\ now' = now /\ granted' = granted
  BY DEF Commit
<1>2. held[d].tokens \in Nat /\ held[d].tokens \in Estimates
  BY <1>1, HoldingType DEF QInv
<1> DEFINE delta(a) == a - held[d].tokens
<1>3. PICK a \in Actuals :
        counts' = IF delta(a) = 0 THEN counts
                  ELSE [w \in Windows |-> IF w \in TokenWindows
                                          THEN Incr(w, delta(a)) ELSE counts[w]]
  BY DEF Commit
<1>4. delta(a) \in Int /\ delta(a) <= MaxOverrun
  BY <1>2, QuotaAssumption
<1> HIDE DEF delta
<1>5. \A w \in Windows :
        /\ Period(w)' = Period(w) /\ Period(w) \in Nat /\ Read(w) \in Int
        /\ Incr(w, delta(a)).count = Read(w) + delta(a)
        /\ Incr(w, delta(a)).period = Period(w)
  BY <1>1, <1>4, IncrFacts, ReadType DEF Period, QInv
<1>6. \A w \in TokenWindows : Read(w)' = Read(w) + delta(a)
  BY <1>3, <1>4, <1>5 DEF Read, Period, Windows
<1>7. Read("requests_per_min")' = Read("requests_per_min")
  BY <1>3, <1>5 DEF Read, Period, Windows, TokenWindows
<1>8. PeriodsPast'
  BY <1>3, <1>5 DEF PeriodsPast, QInv
<1>9. RequestsCounted'
  BY <1>1, <1>7 DEF QInv, RequestsCounted
<1>10. Headroom'
  <2> SUFFICES ASSUME NEW w \in TokenWindows
               PROVE  Read(w)' + Cardinality(Holding') * MaxOverrun
                        <= Cap(w) + Cardinality(Dispatches) * MaxOverrun
    BY DEF Headroom
  <2>1. /\ Cardinality(Holding') \in Nat
        /\ Cardinality(Holding) * MaxOverrun
             = Cardinality(Holding') * MaxOverrun + MaxOverrun
    BY <1>1, HoldingReleased DEF QInv
  <2>2. /\ Cardinality(Holding') * MaxOverrun \in Int
        /\ Cardinality(Dispatches) * MaxOverrun \in Int /\ MaxOverrun \in Int
    BY <2>1, HoldingFinite, QuotaAssumption
  <2>3. Read(w)' = Read(w) + delta(a) /\ Read(w) \in Int /\ Cap(w) \in Nat
    BY <1>5, <1>6, QuotaAssumption DEF Windows, TokenWindows, Cap
  <2>4. Read(w) + Cardinality(Holding) * MaxOverrun
          <= Cap(w) + Cardinality(Dispatches) * MaxOverrun
    BY DEF QInv, Headroom
  <2> QED BY <1>4, <2>1, <2>2, <2>3, <2>4
<1> QED BY <1>8, <1>9, <1>10

LEMMA AbandonKeeps ==
    ASSUME QInv, NEW d \in Dispatches, Abandon(d)
    PROVE  PeriodsPast' /\ RequestsCounted' /\ Headroom'
<1>1. /\ held[d] # NoReservation /\ held' = [held EXCEPT ![d] = NoReservation]
      /\ now' = now /\ counts' = counts /\ granted' = granted
  BY DEF Abandon
<1>2. \A w : Read(w)' = Read(w) /\ Period(w)' = Period(w)
  BY <1>1 DEF Read, Period
<1>3. PeriodsPast' /\ RequestsCounted'
  BY <1>1, <1>2 DEF QInv, PeriodsPast, RequestsCounted
<1>4. Headroom'
  <2> SUFFICES ASSUME NEW w \in TokenWindows
               PROVE  Read(w) + Cardinality(Holding') * MaxOverrun
                        <= Cap(w) + Cardinality(Dispatches) * MaxOverrun
    BY <1>2 DEF Headroom
  <2>1. /\ Cardinality(Holding') \in Nat
        /\ Cardinality(Holding) * MaxOverrun
             = Cardinality(Holding') * MaxOverrun + MaxOverrun
    BY <1>1, HoldingReleased DEF QInv
  <2>2. /\ Cardinality(Holding') * MaxOverrun \in Int
        /\ Cardinality(Dispatches) * MaxOverrun \in Int /\ MaxOverrun \in Nat
    BY <2>1, HoldingFinite, QuotaAssumption
  <2>3. Read(w) \in Int /\ Cap(w) \in Nat
    BY ReadType, QuotaAssumption DEF QInv, Windows, TokenWindows, Cap
  <2>4. Read(w) + Cardinality(Holding) * MaxOverrun
          <= Cap(w) + Cardinality(Dispatches) * MaxOverrun
    BY DEF QInv, Headroom
  <2> QED BY <2>1, <2>2, <2>3, <2>4
<1> QED BY <1>3, <1>4

LEMMA ResetKeeps ==
    ASSUME QInv, ResetExpired
    PROVE  PeriodsPast' /\ RequestsCounted' /\ Headroom'
<1>1. /\ now' = now /\ held' = held /\ granted' = granted
      /\ counts' = [w \in Windows |->
           IF counts[w].period # Period(w) THEN Absent ELSE counts[w]]
  BY DEF ResetExpired
<1>2. \A w \in Windows : Period(w)' = Period(w) /\ Period(w) \in Nat
  BY <1>1, ReadType DEF Period, QInv
<1>3. \A w \in Windows : Read(w)' = Read(w)
  BY <1>1, <1>2 DEF Read, Period, Absent
<1>4. Holding' = Holding
  BY <1>1 DEF Holding
<1>5. PeriodsPast'
  BY <1>1, <1>2 DEF QInv, PeriodsPast, Absent
<1>6. RequestsCounted' /\ Headroom'
  BY <1>1, <1>3, <1>4 DEF QInv, RequestsCounted, Headroom, Windows
<1> QED BY <1>5, <1>6

(* A counter of the period that ended reads as zero, one of a period that goes  *)
(* on reads as before.                                                          *)
LEMMA TickKeeps ==
    ASSUME QInv, Tick
    PROVE  PeriodsPast' /\ RequestsCounted' /\ Headroom'
<1>1. /\ now' = now + 1 /\ now \in Nat /\ held' = held /\ counts' = counts
      /\ granted' = 0
  BY DEF Tick, QInv, TypeOK
<1>2. \A w \in Windows :
        /\ Period(w) \in Nat /\ Period(w)' \in Nat /\ Period(w) <= Period(w)'
        /\ counts[w].period \in Int /\ counts[w].period <= Period(w)
  <2>1. \A w \in Windows : Period(w)' \in Nat /\ Period(w) <= Period(w)'
    BY <1>1, PeriodType DEF Period
  <2> QED BY <2>1, ReadType DEF QInv, PeriodsPast, TypeOK
<1>3. PeriodsPast'
  BY <1>1, <1>2 DEF PeriodsPast
<1>4. \A w \in Windows : Read(w)' \in {0, Read(w)}
  BY <1>1, <1>2 DEF Read, Period
<1>5. RequestsCounted'
  <2>1. counts["requests_per_min"].period # now + 1
    BY <1>1, <1>2 DEF Period, PeriodAt, Windows
  <2>2. Read("requests_per_min")' = 0
    BY <1>1, <2>1 DEF Read, Period, PeriodAt
  <2> QED BY <1>1, <2>2, QuotaAssumption DEF RequestsCounted
<1>6. Headroom'
  <2> SUFFICES ASSUME NEW w \in TokenWindows
               PROVE  Read(w)' + Cardinality(Holding) * MaxOverrun
                        <= Cap(w) + Cardinality(Dispatches) * MaxOverrun
    BY <1>1 DEF Headroom, Holding
  <2>1. CASE Read(w)' = Read(w)
    BY <2>1 DEF QInv, Headroom
  <2>2. CASE Read(w)' = 0
    <3>1. /\ Cardinality(Holding) * MaxOverrun <= Cardinality(Dispatches) * MaxOverrun
          /\ Cardinality(Holding) * MaxOverrun \in Int
          /\ Cardinality(Dispatches) * MaxOverrun \in Int
      BY HoldingFinite, TimesMonotone, QuotaAssumption
    <3>2. Cap(w) \in Nat
      BY QuotaAssumption DEF TokenWindows, Cap
    <3> QED BY <2>2, <3>1, <3>2
  <2> QED BY <1>4, <2>1, <2>2 DEF Windows
<1> QED BY <1>3, <1>5, <1>6

LEMMA QInvStep == QInv /\ [Next]_vars => QInv'
<1> SUFFICES ASSUME QInv, [Next]_vars PROVE QInv'
  OBVIOUS
<1>0. TypeOK'
  BY TypeStep DEF QInv
<1>1. ASSUME NEW d \in Dispatches, Reserve(d) PROVE QInv'
  BY <1>0, <1>1, ReserveKeeps DEF QInv
<1>2. ASSUME NEW d \in Dispatches, Commit(d) PROVE QInv'
  BY <1>0, <1>2, CommitKeeps DEF QInv
<1>3. ASSUME NEW d \in Dispatches, Abandon(d) PROVE QInv'
  BY <1>0, <1>3, AbandonKeeps DEF QInv
<1>4. CASE ResetExpired
  BY <1>0, <1>4, ResetKeeps DEF QInv
<1>5. CASE Tick
  BY <1>0, <1>5, TickKeeps DEF QInv
<1>6. CASE UNCHANGED vars
  BY <1>6, <1>0
  DEF vars, QInv, PeriodsPast, RequestsCounted, Headroom, Read, Period, Holding
<1> QED BY <1>1, <1>2, <1>3, <1>4, <1>5, <1>6 DEF Next

LEMMA Invariance == Spec => []QInv
BY QInvInit, QInvStep, PTL DEF Spec

(* No minute sees more reservations granted than requests_per_min, however many *)
(* dispatches interleave with each other, with housekeeping and with the clock. *)
THEOREM RequestsCorrect == Spec => []RequestsWithinCap
<1>1. QInv => RequestsWithinCap
  BY DEF QInv, RequestsCounted, RequestsWithinCap
<1> QED BY <1>1, Invariance, PTL

(* A token window exceeds its cap by at most one overrun per dispatch in        *)
(* flight, however the windows roll over meanwhile.                             *)
THEOREM OvershootCorrect == Spec => []OvershootBounded
<1>1. QInv => OvershootBounded
  <2> SUFFICES ASSUME QInv, NEW w \in TokenWindows
               PROVE  Read(w) <= Cap(w) + Cardinality(Dispatches) * MaxOverrun
    BY DEF OvershootBounded
  <2>1. Cardinality(Holding) * MaxOverrun \in Nat
    BY HoldingFinite, QuotaAssumption
  <2>2. /\ Cardinality(Dispatches) * MaxOverrun \in Int
        /\ Read(w) \in Int /\ Cap(w) \in Int
    BY HoldingFinite, ReadType, QuotaAssumption DEF QInv, Windows, TokenWindows, Cap
  <2> QED BY <2>1, <2>2 DEF QInv, Headroom
<1> QED BY <1>1, Invariance, PTL

-------------------------------------------------------------------------------
(* Drift *)

(* A reservation was made in the minute that runs or in an earlier one, so one  *)
(* that straddles a rollover once does so for good.                             *)
HeldPast == \A d \in Holding : held[d].minute <= now

DInv == QInv /\ HeldPast /\ DriftExplained

Open(w) == {d \in Holding : ~Straddles(w, held[d].minute)}

Estimated(w) == [d \in Open(w) |-> held[d].tokens]

(* What can be said of the sum of the open estimates in a typed state. *)
PendingFacts ==
    \A w \in Windows :
        /\ Pending(w) = SumFunctionOnSet(Estimated(w), Open(w))
        /\ IsFiniteSet(Open(w)) /\ Open(w) \subseteq Dispatches
        /\ \A d \in Open(w) : Estimated(w)[d] = held[d].tokens /\ held[d].tokens \in Nat
        /\ Pending(w) \in Int

LEMMA PendingSum == TypeOK => PendingFacts
<1> SUFFICES ASSUME TypeOK, NEW w \in Windows
             PROVE  /\ Pending(w) = SumFunctionOnSet(Estimated(w), Open(w))
                    /\ IsFiniteSet(Open(w)) /\ Open(w) \subseteq Dispatches
                    /\ \A d \in Open(w) : /\ Estimated(w)[d] = held[d].tokens
                                         /\ held[d].tokens \in Nat
                    /\ Pending(w) \in Int
  BY DEF PendingFacts
<1>1. Pending(w) = SumFunctionOnSet(Estimated(w), Open(w))
  BY DEF Pending, Estimated, Open
<1>2. IsFiniteSet(Open(w)) /\ Open(w) \subseteq Dispatches
  <2>1. Open(w) \in SUBSET Dispatches
    BY DEF Open, Holding
  <2> QED BY <2>1, QuotaAssumption, FS_Subset
<1>3. \A d \in Open(w) : Estimated(w)[d] = held[d].tokens /\ held[d].tokens \in Nat
  BY HoldingType DEF Estimated, Open, Holding
<1>4. SumFunctionOnSet(Estimated(w), Open(w)) \in Int
  BY <1>2, <1>3, SumType
<1> QED BY <1>1, <1>2, <1>3, <1>4

(* A reservation opens: its estimate is pending in every window. *)
LEMMA PendingOpens ==
    ASSUME TypeOK, TypeOK', NEW w \in Windows, NEW d \in Dispatches, NEW e \in Estimates,
           held[d] = NoReservation, held' = [held EXCEPT ![d] = Hold(e)], now' = now
    PROVE  Pending(w)' = Pending(w) + e
<1>1. /\ held'[d] = [tokens |-> e, minute |-> now]
      /\ \A x \in Dispatches : x # d => held'[x] = held[x]
  BY DEF TypeOK, Hold
<1>2. held'[d] # NoReservation
  <2>1. [tokens |-> e, minute |-> now] \in [tokens : Estimates, minute : Nat]
    BY DEF TypeOK
  <2> QED BY <1>1, <2>1, ClockAssumption
<1>3. \A m : Straddles(w, m)' = Straddles(w, m)
  BY DEF Straddles, Period
<1>4. ~Straddles(w, now)
  BY DEF Straddles, Period
<1>5. d \notin Open(w) /\ Open(w)' = Open(w) \union {d}
  <2>1. held'[d].minute = now /\ d \notin Holding
    BY <1>1 DEF Holding
  <2> QED BY <1>1, <1>2, <1>3, <1>4, <2>1 DEF Open, Holding
<1> DEFINE S == Open(w)
           f == Estimated(w)
           g == Estimated(w)'
<1>6. /\ Pending(w) = SumFunctionOnSet(f, S) /\ IsFiniteSet(S) /\ S \subseteq Dispatches
      /\ \A x \in S : f[x] = held[x].tokens /\ held[x].tokens \in Nat
      /\ Pending(w) \in Int
  BY PendingSum DEF PendingFacts
<1>7. /\ Pending(w)' = SumFunctionOnSet(g, S \union {d})
      /\ \A x \in S \union {d} : g[x] = held'[x].tokens /\ held'[x].tokens \in Nat
  <2>1. /\ Pending(w)' = SumFunctionOnSet(g, Open(w)')
        /\ \A x \in Open(w)' : g[x] = held'[x].tokens /\ held'[x].tokens \in Nat
    <3>1. PendingFacts'
      BY PendingSum, PTL
    <3> QED BY <3>1 DEF PendingFacts
  <2> QED BY <1>5, <2>1
<1>8. g[d] = e
  BY <1>1, <1>7
<1>9. \A x \in S : f[x] = g[x]
  BY <1>1, <1>5, <1>6, <1>7
<1>10. \A x \in S \union {d} : g[x] \in Int
  BY <1>7
<1> HIDE DEF S, f, g
<1>11. SumFunctionOnSet(f, S) = SumFunctionOnSet(g, S)
  BY <1>6, <1>9, SumEqual
<1>12. SumFunctionOnSet(g, S \union {d}) = SumFunctionOnSet(g, S) + g[d]
  BY <1>5, <1>6, <1>10, SumAdd DEF S
<1> QED BY <1>6, <1>7, <1>8, <1>11, <1>12

(* A reservation is settled or forgotten: its estimate is pending no longer,    *)
(* where it still was.                                                          *)
LEMMA PendingCloses ==
    ASSUME TypeOK, TypeOK', NEW w \in Windows, NEW d \in Dispatches,
           held[d] # NoReservation, held' = [held EXCEPT ![d] = NoReservation], now' = now
    PROVE  IF Straddles(w, held[d].minute) THEN Pending(w)' = Pending(w)
           ELSE Pending(w)' = Pending(w) - held[d].tokens
<1>1. held'[d] = NoReservation /\ \A x \in Dispatches : x # d => held'[x] = held[x]
  BY DEF TypeOK
<1>2. \A m : Straddles(w, m)' = Straddles(w, m)
  BY DEF Straddles, Period
<1>3. Open(w)' = Open(w) \ {d}
  BY <1>1, <1>2 DEF Open, Holding
<1> DEFINE S == Open(w)
           f == Estimated(w)
           g == Estimated(w)'
<1>4. /\ Pending(w) = SumFunctionOnSet(f, S) /\ IsFiniteSet(S) /\ S \subseteq Dispatches
      /\ \A x \in S : f[x] = held[x].tokens /\ held[x].tokens \in Nat
      /\ Pending(w) \in Int
  BY PendingSum DEF PendingFacts
<1>5. /\ Pending(w)' = SumFunctionOnSet(g, S \ {d}) /\ Pending(w)' \in Int
      /\ \A x \in S \ {d} : g[x] = held'[x].tokens
      /\ IsFiniteSet(S \ {d})
  <2>1. /\ Pending(w)' = SumFunctionOnSet(g, Open(w)') /\ Pending(w)' \in Int
        /\ \A x \in Open(w)' : g[x] = held'[x].tokens
        /\ IsFiniteSet(Open(w)')
    <3>1. PendingFacts'
      BY PendingSum, PTL
    <3> QED BY <3>1 DEF PendingFacts
  <2> QED BY <1>3, <2>1
<1>6. \A x \in S \ {d} : f[x] = g[x]
  BY <1>1, <1>4, <1>5
<1>7. (d \in S) <=> ~Straddles(w, held[d].minute)
  BY DEF Open, Holding
<1> HIDE DEF S, f, g
<1>8. SumFunctionOnSet(f, S \ {d}) = SumFunctionOnSet(g, S \ {d})
  BY <1>5, <1>6, SumEqual
<1>9. CASE d \in S
  <2>1. \A x \in S : f[x] \in Int
    BY <1>4
  <2>2. SumFunctionOnSet(f, S) = f[d] + SumFunctionOnSet(f, S \ {d})
    BY <1>4, <1>9, <2>1, SumRemove
  <2>3. f[d] = held[d].tokens /\ held[d].tokens \in Nat
    BY <1>4, <1>9
  <2> QED BY <1>4, <1>5, <1>7, <1>8, <1>9, <2>2, <2>3
<1>10. CASE d \notin S
  <2>1. S \ {d} = S
    BY <1>10
  <2> QED BY <1>4, <1>5, <1>7, <1>8, <1>10, <2>1
<1> QED BY <1>9, <1>10

LEMMA ReserveReads ==
    ASSUME TypeOK, NEW d \in Dispatches, Reserve(d)
    PROVE  \E e \in Estimates :
             /\ ~Denied(e) /\ held' = [held EXCEPT ![d] = Hold(e)]
             /\ \A w \in Windows : /\ Read(w)' = Read(w) + Charge(w, e)
                                  /\ Period(w)' = Period(w)
                                  /\ Charge(w, e) \in Nat
<1>1. PICK e \in Estimates :
        /\ ~Denied(e)
        /\ counts' = [w \in Windows |-> Incr(w, Charge(w, e))]
        /\ held' = [held EXCEPT ![d] = Hold(e)]
  BY DEF Reserve
<1>2. \A w \in Windows : Period(w)' = Period(w)
  BY DEF Reserve, Period
<1>3. \A w \in Windows :
        /\ Charge(w, e) \in Nat
        /\ counts'[w].period = Period(w)
        /\ counts'[w].count = Read(w) + Charge(w, e)
  <2>1. \A w \in Windows : Charge(w, e) \in Nat
    BY QuotaAssumption DEF Charge
  <2> QED BY <1>1, <2>1, IncrFacts
<1>4. \A w \in Windows : Read(w)' = Read(w) + Charge(w, e)
  BY <1>2, <1>3 DEF Read, Period
<1> QED BY <1>1, <1>2, <1>3, <1>4

(* What a commit moves, in the store and in the books. *)
LEMMA CommitReads ==
    ASSUME TypeOK, NEW d \in Dispatches, Commit(d)
    PROVE  \E a \in Actuals :
             /\ a \in Nat
             /\ \A w \in TokenWindows : Read(w)' = Read(w) + (a - held[d].tokens)
             /\ Read("requests_per_min")' = Read("requests_per_min")
             /\ ledger' = [w \in TokenWindows |->
                  IF Straddles(w, held[d].minute)
                  THEN [ledger[w] EXCEPT !.carried = @ + (a - held[d].tokens)]
                  ELSE [ledger[w] EXCEPT !.own = @ + a]]
<1> DEFINE delta(a) == a - held[d].tokens
<1>1. PICK a \in Actuals :
        /\ counts' = IF delta(a) = 0 THEN counts
                     ELSE [w \in Windows |-> IF w \in TokenWindows
                                             THEN Incr(w, delta(a)) ELSE counts[w]]
        /\ ledger' = [w \in TokenWindows |->
             IF Straddles(w, held[d].minute)
             THEN [ledger[w] EXCEPT !.carried = @ + delta(a)]
             ELSE [ledger[w] EXCEPT !.own = @ + a]]
  BY DEF Commit
<1>2. held[d].tokens \in Nat /\ a \in Nat
  BY HoldingType, QuotaAssumption DEF Commit
<1>3. delta(a) \in Int
  BY <1>2
<1> HIDE DEF delta
<1>4. \A w \in Windows :
        /\ Period(w)' = Period(w) /\ Read(w) \in Int
        /\ Incr(w, delta(a)).count = Read(w) + delta(a)
        /\ Incr(w, delta(a)).period = Period(w)
  BY <1>3, IncrFacts, ReadType DEF Period, Commit
<1>5. \A w \in TokenWindows : Read(w)' = Read(w) + delta(a)
  BY <1>1, <1>3, <1>4 DEF Read, Period, Windows
<1>6. Read("requests_per_min")' = Read("requests_per_min")
  BY <1>1, <1>4 DEF Read, Period, Windows, TokenWindows
<1> QED BY <1>1, <1>2, <1>5, <1>6 DEF delta

LEMMA ResetReads ==
    ASSUME TypeOK, ResetExpired
    PROVE  \A w \in Windows : Read(w)' = Read(w) /\ Period(w)' = Period(w)
<1>1. /\ now' = now
      /\ counts' = [w \in Windows |->
           IF counts[w].period # Period(w) THEN Absent ELSE counts[w]]
  BY DEF ResetExpired
<1>2. \A w \in Windows : Period(w)' = Period(w) /\ Period(w) \in Nat
  BY <1>1, ReadType DEF Period
<1> QED BY <1>1, <1>2 DEF Read, Period, Absent

(* When the clock passes a minute, a window whose period ends reads as zero and *)
(* any other as before.                                                         *)
LEMMA TickReads ==
    ASSUME TypeOK, PeriodsPast, Tick
    PROVE  \A w \in Windows :
             /\ Period(w) \in Nat /\ Period(w)' \in Nat /\ Period(w) <= Period(w)'
             /\ Period(w)' = Period(w) => Read(w)' = Read(w)
             /\ Period(w)' # Period(w) => Read(w)' = 0
<1>1. now' = now + 1 /\ now \in Nat /\ counts' = counts
  BY DEF Tick, TypeOK
<1>2. \A w \in Windows :
        /\ Period(w) \in Nat /\ Period(w)' \in Nat /\ Period(w) <= Period(w)'
        /\ counts[w].period \in Int /\ counts[w].period <= Period(w)
  <2>1. \A w \in Windows : Period(w)' \in Nat /\ Period(w) <= Period(w)'
    BY <1>1, PeriodType DEF Period
  <2> QED BY <2>1, ReadType DEF PeriodsPast, TypeOK
<1>3. \A w \in Windows :
        /\ Period(w)' = Period(w) => Read(w)' = Read(w)
        /\ Period(w)' # Period(w) => Read(w)' = 0
  BY <1>1, <1>2 DEF Read, Period
<1> QED BY <1>2, <1>3

LEMMA BooksType ==
    ASSUME TypeOK, NEW w \in TokenWindows
    PROVE  /\ ledger[w] = [own |-> ledger[w].own, leaked |-> ledger[w].leaked,
                           carried |-> ledger[w].carried]
           /\ ledger[w].own \in Nat /\ ledger[w].leaked \in Nat
           /\ ledger[w].carried \in Int
BY DEF TypeOK, Ledger

LEMMA DriftStep ==
    ASSUME DInv, QInv', Next
    PROVE  HeldPast' /\ DriftExplained'
<1>0. TypeOK /\ TypeOK' /\ PeriodsPast
  BY DEF DInv, QInv
<1>1. \A w \in TokenWindows :
        /\ w \in Windows /\ Read(w) \in Int /\ Pending(w) \in Int
        /\ Read(w) = ledger[w].own + Pending(w) + ledger[w].leaked + ledger[w].carried
  BY <1>0, ReadType, PendingSum DEF DInv, DriftExplained, PendingFacts, Windows
<1>2. ASSUME NEW d \in Dispatches, Reserve(d)
      PROVE  HeldPast' /\ DriftExplained'
  <2>1. /\ held[d] = NoReservation /\ now' = now /\ ledger' = ledger
        /\ now \in Nat
    BY <1>0, <1>2 DEF Reserve, TypeOK
  <2>2. PICK e \in Estimates :
          /\ held' = [held EXCEPT ![d] = Hold(e)]
          /\ \A w \in Windows : /\ Read(w)' = Read(w) + Charge(w, e)
                               /\ Charge(w, e) \in Nat
    BY <1>0, <1>2, ReserveReads
  <2>3. HeldPast'
    <3> SUFFICES ASSUME NEW x \in Dispatches, held'[x] # NoReservation
                 PROVE  held'[x].minute <= now
      BY <2>1 DEF HeldPast, Holding
    <3>1. CASE x = d
      <4>1. held'[x].minute = now
        BY <1>0, <2>2, <3>1 DEF TypeOK, Hold
      <4> QED BY <2>1, <4>1
    <3>2. CASE x # d
      <4>1. held'[x] = held[x]
        BY <1>0, <2>2, <3>2 DEF TypeOK
      <4> QED BY <4>1 DEF DInv, HeldPast, Holding
    <3> QED BY <3>1, <3>2
  <2>4. ASSUME NEW w \in TokenWindows
        PROVE  Read(w)' = ledger'[w].own + Pending(w)' + ledger'[w].leaked + ledger'[w].carried
    <3>1. Pending(w)' = Pending(w) + e
      BY <1>0, <1>1, <2>1, <2>2, PendingOpens
    <3>2. Read(w)' = Read(w) + e /\ e \in Nat
      BY <1>1, <2>2, QuotaAssumption DEF Charge, TokenWindows
    <3>3. PICK b \in Ledger : b = ledger[w]
      BY <1>0 DEF TypeOK
    <3>4. b.own \in Nat /\ b.leaked \in Nat /\ b.carried \in Int
      BY DEF Ledger
    <3>5. Read(w) \in Int /\ Pending(w) \in Int
          /\ Read(w) = b.own + Pending(w) + b.leaked + b.carried
      BY <1>1, <3>3
    <3>6. ledger'[w] = b
      BY <2>1, <3>3
    <3> QED BY <3>1, <3>2, <3>4, <3>5, <3>6
  <2> QED BY <2>3, <2>4 DEF DriftExplained
<1>3. ASSUME NEW d \in Dispatches, Commit(d)
      PROVE  HeldPast' /\ DriftExplained'
  <2>1. /\ held[d] # NoReservation /\ now' = now /\ held' = [held EXCEPT ![d] = NoReservation]
        /\ held[d].tokens \in Nat
    BY <1>0, <1>3, HoldingType DEF Commit
  <2>2. PICK a \in Actuals :
          /\ a \in Nat
          /\ \A w \in TokenWindows : Read(w)' = Read(w) + (a - held[d].tokens)
          /\ ledger' = [w \in TokenWindows |->
               IF Straddles(w, held[d].minute)
               THEN [ledger[w] EXCEPT !.carried = @ + (a - held[d].tokens)]
               ELSE [ledger[w] EXCEPT !.own = @ + a]]
    BY <1>0, <1>3, CommitReads
  <2>3. HeldPast'
    BY <1>0, <2>1 DEF HeldPast, Holding, TypeOK, DInv
  <2>4. ASSUME NEW w \in TokenWindows
        PROVE  Read(w)' = ledger'[w].own + Pending(w)' + ledger'[w].leaked + ledger'[w].carried
    <3>1. IF Straddles(w, held[d].minute) THEN Pending(w)' = Pending(w)
          ELSE Pending(w)' = Pending(w) - held[d].tokens
      BY <1>0, <1>1, <2>1, PendingCloses
    <3>2. PICK n \in Nat : n = held[d].tokens
      BY <2>1
    <3>3. PICK b \in Ledger : b = ledger[w]
      BY <1>0 DEF TypeOK
    <3>4. b.own \in Nat /\ b.leaked \in Nat /\ b.carried \in Int
      BY DEF Ledger
    <3>5. CASE Straddles(w, held[d].minute)
      <4>1. ledger'[w] = [b EXCEPT !.carried = @ + (a - n)]
        BY <2>2, <3>2, <3>3, <3>5
      <4>2. /\ ledger'[w].own = b.own /\ ledger'[w].leaked = b.leaked
            /\ ledger'[w].carried = b.carried + (a - n)
        BY <4>1 DEF Ledger
      <4> QED BY <1>1, <2>2, <3>1, <3>2, <3>3, <3>4, <3>5, <4>2
    <3>6. CASE ~Straddles(w, held[d].minute)
      <4>1. ledger'[w] = [b EXCEPT !.own = @ + a]
        BY <2>2, <3>3, <3>6
      <4>2. /\ ledger'[w].own = b.own + a /\ ledger'[w].leaked = b.leaked
            /\ ledger'[w].carried = b.carried
        BY <4>1 DEF Ledger
      <4> QED BY <1>1, <2>2, <3>1, <3>2, <3>3, <3>4, <3>6, <4>2
    <3> QED BY <3>5, <3>6
  <2> QED BY <2>3, <2>4 DEF DriftExplained
<1>4. ASSUME NEW d \in Dispatches, Abandon(d)
      PROVE  HeldPast' /\ DriftExplained'
  <2>1. /\ held[d] # NoReservation /\ now' = now /\ held' = [held EXCEPT ![d] = NoReservation]
        /\ counts' = counts /\ held[d].tokens \in Nat
        /\ ledger' = [w \in TokenWindows |->
             IF Straddles(w, held[d].minute) THEN ledger[w]
             ELSE [ledger[w] EXCEPT !.leaked = @ + held[d].tokens]]
    BY <1>0, <1>4, HoldingType DEF Abandon
  <2>2. \A w \in TokenWindows : Read(w)' = Read(w)
    BY <2>1 DEF Read, Period
  <2>3. HeldPast'
    BY <1>0, <2>1 DEF HeldPast, Holding, TypeOK, DInv
  <2>4. ASSUME NEW w \in TokenWindows
        PROVE  Read(w)' = ledger'[w].own + Pending(w)' + ledger'[w].leaked + ledger'[w].carried
    <3>1. IF Straddles(w, held[d].minute) THEN Pending(w)' = Pending(w)
          ELSE Pending(w)' = Pending(w) - held[d].tokens
      BY <1>0, <1>1, <2>1, PendingCloses
    <3>2. PICK n \in Nat : n = held[d].tokens
      BY <2>1
    <3>3. PICK b \in Ledger : b = ledger[w]
      BY <1>0 DEF TypeOK
    <3>4. b.own \in Nat /\ b.leaked \in Nat /\ b.carried \in Int
      BY DEF Ledger
    <3>5. CASE Straddles(w, held[d].minute)
      <4>1. ledger'[w] = b
        BY <2>1, <3>3, <3>5
      <4> QED BY <1>1, <2>2, <3>1, <3>3, <3>4, <3>5, <4>1
    <3>6. CASE ~Straddles(w, held[d].minute)
      <4>1. ledger'[w] = [b EXCEPT !.leaked = @ + n]
        BY <2>1, <3>2, <3>3, <3>6
      <4>2. /\ ledger'[w].own = b.own /\ ledger'[w].leaked = b.leaked + n
            /\ ledger'[w].carried = b.carried
        BY <4>1 DEF Ledger
      <4> QED BY <1>1, <2>2, <3>1, <3>2, <3>3, <3>4, <3>6, <4>2
    <3> QED BY <3>5, <3>6
  <2> QED BY <2>3, <2>4 DEF DriftExplained
<1>5. CASE ResetExpired
  <2>1. held' = held /\ ledger' = ledger /\ now' = now
    BY <1>5 DEF ResetExpired
  <2>2. \A w \in TokenWindows : Read(w)' = Read(w)
    BY <1>0, <1>1, <1>5, ResetReads
  <2>3. HeldPast'
    BY <2>1 DEF DInv, HeldPast, Holding
  <2>4. \A w : Open(w)' = Open(w) /\ Estimated(w)' = Estimated(w)
    BY <2>1 DEF Open, Estimated, Holding, Straddles, Period
  <2>5. \A w \in TokenWindows : Pending(w)' = Pending(w)
    <3>1. PendingFacts /\ PendingFacts'
      BY <1>0, PendingSum, PTL
    <3> QED BY <1>1, <2>4, <3>1 DEF PendingFacts
  <2> QED BY <1>1, <2>1, <2>2, <2>3, <2>5 DEF DriftExplained
<1>6. CASE Tick
  <2>1. /\ held' = held /\ now' = now + 1 /\ now \in Nat
        /\ ledger' = [w \in TokenWindows |->
             IF PeriodAt(w, now + 1) # Period(w) THEN Fresh ELSE ledger[w]]
    BY <1>0, <1>6 DEF Tick, TypeOK
  <2>2. \A w \in Windows :
          /\ Period(w) \in Nat /\ Period(w)' \in Nat /\ Period(w) <= Period(w)'
          /\ Period(w)' = Period(w) => Read(w)' = Read(w)
          /\ Period(w)' # Period(w) => Read(w)' = 0
    BY <1>0, <1>6, TickReads
  <2>3. \A d \in Holding : held[d].minute \in Nat /\ held[d].minute <= now
    <3>1. \A d \in Holding : held[d] \in Reservation
      BY <1>0 DEF Holding, TypeOK
    <3> QED BY <3>1 DEF DInv, HeldPast, Reservation
  <2>4. HeldPast'
    BY <2>1, <2>3 DEF HeldPast, Holding
  <2>5. PendingFacts /\ PendingFacts'
    BY <1>0, PendingSum, PTL
  <2>6. ASSUME NEW w \in TokenWindows
        PROVE  Read(w)' = ledger'[w].own + Pending(w)' + ledger'[w].leaked + ledger'[w].carried
    <3>1. Period(w)' = PeriodAt(w, now + 1)
      BY <2>1 DEF Period
    <3>2. CASE Period(w)' = Period(w)
      <4>1. Open(w)' = Open(w) /\ Estimated(w)' = Estimated(w)
        BY <2>1, <3>2 DEF Open, Estimated, Holding, Straddles
      <4>2. Pending(w)' = Pending(w)
        BY <1>1, <2>5, <4>1 DEF PendingFacts
      <4>3. ledger'[w] = ledger[w]
        BY <2>1, <3>1, <3>2
      <4> QED BY <1>1, <2>2, <3>2, <4>2, <4>3
    <3>3. CASE Period(w)' # Period(w)
      <4>1. \A d \in Holding : PeriodAt(w, held[d].minute) <= Period(w)
        BY <1>1, <2>1, <2>3, PeriodMonotone DEF Period
      <4>2. \A d \in Holding : PeriodAt(w, held[d].minute) # Period(w)'
        <5> TAKE d \in Holding
        <5>1. PeriodAt(w, held[d].minute) \in Nat
          BY <1>1, <2>3, PeriodType
        <5> QED BY <1>1, <2>2, <3>3, <4>1, <5>1
      <4>3. Open(w)' = {}
        BY <2>1, <4>2 DEF Open, Holding, Straddles
      <4>4. Pending(w)' = 0
        BY <1>1, <2>5, <4>3, SumEmpty DEF PendingFacts
      <4>5. ledger'[w] = Fresh
        BY <2>1, <3>1, <3>3
      <4>6. Read(w)' = 0
        BY <1>1, <2>2, <3>3
      <4> QED BY <4>4, <4>5, <4>6 DEF Fresh
    <3> QED BY <3>2, <3>3
  <2> QED BY <2>4, <2>6 DEF DriftExplained
<1> QED BY <1>2, <1>3, <1>4, <1>5, <1>6 DEF Next

LEMMA DriftInit == Init => HeldPast /\ DriftExplained
<1> SUFFICES ASSUME Init
             PROVE  HeldPast /\ DriftExplained
  OBVIOUS
<1>1. TypeOK
  BY TypeInit
<1>2. Holding = {}
  BY DEF Init, Holding
<1>3. \A w \in Windows : Read(w) = 0 /\ Pending(w) = 0
  <2>1. \A w \in Windows : Read(w) = 0
    BY <1>1, ReadType DEF Init, Read, Period, Absent
  <2>2. \A w \in Windows : Open(w) = {}
    BY <1>2 DEF Open
  <2> QED BY <1>1, <2>1, <2>2, PendingSum, SumEmpty DEF PendingFacts
<1>4. \A w \in TokenWindows : ledger[w] = Fresh /\ w \in Windows
  BY DEF Init, Windows
<1> QED BY <1>2, <1>3, <1>4 DEF HeldPast, DriftExplained, Fresh

LEMMA DriftInvariance == Spec => []DInv
<1>1. Init => DInv
  BY QInvInit, DriftInit DEF DInv
<1>2. DInv /\ [Next]_vars => DInv'
  <2> SUFFICES ASSUME DInv, [Next]_vars
               PROVE  DInv'
    OBVIOUS
  <2>1. QInv'
    BY QInvStep DEF DInv
  <2>2. CASE Next
    BY <2>1, <2>2, DriftStep DEF DInv
  <2>3. CASE UNCHANGED vars
    <3>1. HeldPast'
      BY <2>3 DEF vars, DInv, HeldPast, Holding
    <3>2. \A w : /\ Open(w)' = Open(w) /\ Estimated(w)' = Estimated(w)
                 /\ Read(w)' = Read(w)
      BY <2>3 DEF vars, Open, Estimated, Holding, Straddles, Period, Read
    <3>3. PendingFacts /\ PendingFacts'
      <4>1. TypeOK /\ TypeOK'
        BY <2>1 DEF DInv, QInv
      <4> QED BY <4>1, PendingSum, PTL
    <3>4. \A w \in TokenWindows : Pending(w)' = Pending(w)
      BY <3>2, <3>3 DEF PendingFacts, Windows
    <3>5. DriftExplained'
      BY <2>3, <3>2, <3>4 DEF vars, DInv, DriftExplained
    <3> QED BY <2>1, <3>1, <3>5 DEF DInv
  <2> QED BY <2>2, <2>3
<1> QED BY <1>1, <1>2, PTL DEF Spec

(* Whatever is reserved, committed late, forgotten or rolled over: a token      *)
(* counter is off by the abandoned estimates and by the corrections of earlier  *)
(* periods, and by nothing else (QuotaManager.commit and reserve).              *)
THEOREM DriftCorrect == Spec => []DriftExplained
<1>1. DInv => DriftExplained
  BY DEF DInv
<1> QED BY <1>1, DriftInvariance, PTL

-------------------------------------------------------------------------------
(* Lazy resets *)

(* A day of d minutes ends between n and n + 1 exactly when d divides n + 1.     *)
LEMMA RolloverExactly ==
    ASSUME NEW n \in Nat, NEW d \in Nat \ {0}
    PROVE  (n + 1) \div d # n \div d <=> (n + 1) % d = 0
<1>1. PICK q \in Nat, s \in Nat : q = n \div d /\ s = n % d
  OBVIOUS
<1>2. PICK r \in Nat, t \in Nat : r = (n + 1) \div d /\ t = (n + 1) % d
  OBVIOUS
<1>3. n = q * d + s /\ s < d
  BY <1>1
<1>4. n + 1 = r * d + t /\ t < d
  BY <1>2
<1>5. q <= r
  BY <1>1, <1>2, DivMonotone
<1>6. r <= q + 1
  <2> SUFFICES ASSUME q + 2 <= r PROVE FALSE
    OBVIOUS
  <2>1. (q + 2) * d <= r * d
    BY TimesMonotone
  <2>2. (q + 2) * d = q * d + d + d
    OBVIOUS
  <2>3. q * d \in Nat /\ r * d \in Nat
    OBVIOUS
  <2> QED BY <1>3, <1>4, <2>1, <2>2, <2>3
<1>7. CASE r = q
  BY <1>1, <1>2, <1>3, <1>4, <1>7
<1>8. CASE r = q + 1
  <2>1. r * d = q * d + d /\ q * d \in Nat
    BY <1>8
  <2>2. t = 0
    BY <1>3, <1>4, <2>1
  <2> QED BY <1>1, <1>2, <1>8, <2>2
<1> QED BY <1>5, <1>6, <1>7, <1>8

(* What the caller of the store reads, as the counters of WindowMeter.          *)
Used == [w \in Windows |-> Read(w)]

LEMMA UsedFacts ==
    TypeOK => /\ Used["requests_per_min"] = Read("requests_per_min")
              /\ \A w \in TokenWindows : w \in Windows /\ Used[w] = Read(w)
              /\ \A w \in Windows : Read(w) \in Int
BY ReadType DEF Used, Windows

LEMMA ReserveGrants ==
    ASSUME QInv, QInv', NEW d \in Dispatches, Reserve(d)
    PROVE  Meter!Grant
<1>1. now' = now /\ TypeOK
  BY DEF Reserve, QInv
<1>2. PICK e \in Estimates :
        /\ ~Denied(e)
        /\ \A w \in Windows : Read(w)' = Read(w) + Charge(w, e)
  BY <1>1, ReserveReads
<1>3. PICK r \in Int, m \in Int, y \in Int :
        /\ r = Read("requests_per_min")
        /\ m = Read("tokens_per_min") /\ y = Read("tokens_per_day")
  BY <1>1, ReadType DEF Windows, TokenWindows
<1>4. e \in Nat /\ RequestCap \in Nat
  BY QuotaAssumption
<1>5. /\ Read("requests_per_min")' = r + 1
      /\ Read("tokens_per_min")' = m + e
      /\ Read("tokens_per_day")' = y + e
  BY <1>2, <1>3 DEF Charge, Windows, TokenWindows
<1>6. r \in Nat
  BY <1>1, <1>3 DEF QInv, RequestsCounted, TypeOK
<1>7. r + 1 <= RequestCap
  BY <1>5 DEF QInv, RequestsCounted
<1>8. m + e <= MinuteCap /\ y + e <= DayCap
  <2>1. \A w \in Windows : ~(Read(w) + Charge(w, e) > Cap(w))
    BY <1>2 DEF Denied
  <2>2. ~(m + e > MinuteCap) /\ ~(y + e > DayCap)
    BY <1>3, <2>1 DEF Charge, Cap, Windows, TokenWindows
  <2> QED BY <1>3, <1>4, <2>2, QuotaAssumption
<1>9. Used' = [w \in Windows |-> CASE w = "requests_per_min" -> r + 1
                                   [] w = "tokens_per_min"   -> m + e
                                   [] w = "tokens_per_day"   -> y + e]
  BY <1>5 DEF Used, Windows, TokenWindows
<1> QED
  BY <1>1, <1>3, <1>4, <1>5, <1>6, <1>7, <1>8, <1>9
  DEF Meter!Grant, Meter!Meters, Used, Windows, TokenWindows

LEMMA CommitCorrects ==
    ASSUME TypeOK, NEW d \in Dispatches, Commit(d)
    PROVE  Meter!Correct
<1>1. now' = now
  BY DEF Commit
<1>2. PICK n \in Nat : n = held[d].tokens
  BY HoldingType DEF Commit
<1>3. PICK a \in Actuals :
        /\ a \in Nat
        /\ \A w \in TokenWindows : Read(w)' = Read(w) + (a - n)
        /\ Read("requests_per_min")' = Read("requests_per_min")
  BY <1>2, CommitReads
<1>4. PICK r \in Int, m \in Int, y \in Int :
        /\ r = Read("requests_per_min")
        /\ m = Read("tokens_per_min") /\ y = Read("tokens_per_day")
  BY ReadType DEF Windows, TokenWindows
<1>5. PICK delta \in Int : delta = a - n
  BY <1>3
<1>6. /\ Read("requests_per_min")' = r
      /\ Read("tokens_per_min")' = m + delta
      /\ Read("tokens_per_day")' = y + delta
  BY <1>3, <1>4, <1>5 DEF TokenWindows
<1>7. Used' = [w \in Windows |-> CASE w = "requests_per_min" -> r
                                   [] w = "tokens_per_min"   -> m + delta
                                   [] w = "tokens_per_day"   -> y + delta]
  BY <1>6 DEF Used, Windows, TokenWindows
<1> QED
  BY <1>1, <1>4, <1>5, <1>6, <1>7
  DEF Meter!Correct, Meter!Meters, Used, Windows, TokenWindows

LEMMA TickPasses ==
    ASSUME TypeOK, PeriodsPast, Tick
    PROVE  Meter!PassMinute
<1>1. now' = now + 1 /\ now \in Nat
  BY DEF Tick, TypeOK
<1>2. \A w \in Windows : /\ Period(w)' = Period(w) => Read(w)' = Read(w)
                         /\ Period(w)' # Period(w) => Read(w)' = 0
  BY TickReads
<1>3. \A w \in {"requests_per_min", "tokens_per_min"} : Read(w)' = 0
  BY <1>1, <1>2 DEF Windows, TokenWindows, Period, PeriodAt
<1>4. Read("tokens_per_day")'
        = IF (now + 1) % MinutesPerDay = 0 THEN 0 ELSE Read("tokens_per_day")
  <2>1. /\ Period("tokens_per_day") = now \div MinutesPerDay
        /\ Period("tokens_per_day")' = (now + 1) \div MinutesPerDay
    BY <1>1 DEF Period, PeriodAt
  <2>2. Period("tokens_per_day")' # Period("tokens_per_day")
          <=> (now + 1) % MinutesPerDay = 0
    BY <1>1, <2>1, ClockAssumption, RolloverExactly
  <2> QED BY <1>2, <2>2 DEF Windows, TokenWindows
<1>5. Used' = [w \in Windows |->
        CASE w = "requests_per_min" -> 0
          [] w = "tokens_per_min"   -> 0
          [] w = "tokens_per_day"   ->
               IF now' % MinutesPerDay = 0 THEN 0 ELSE Used["tokens_per_day"]]
  BY <1>1, <1>3, <1>4 DEF Used, Windows, TokenWindows
<1> QED BY <1>1, <1>5 DEF Meter!PassMinute, Meter!Meters, Used, Windows, TokenWindows

(* The store that resets a counter when it is next touched cannot be told from  *)
(* one whose counters are zeroed as the clock passes their period: reserve      *)
(* grants, commit corrects, and abandoning or housekeeping changes nothing that *)
(* a caller reads (InMemoryQuotaStore._current, reset_expired).                 *)
THEOREM Refinement == Spec => ResetsAtRollover
<1>1. Init => Meter!Init
  <2> SUFFICES ASSUME Init PROVE Meter!Init
    OBVIOUS
  <2>1. \A w \in Windows : Read(w) = 0
    BY TypeInit, ReadType DEF Init, Read, Period, Absent
  <2> QED BY <2>1 DEF Init, Meter!Init, Windows, TokenWindows
<1>2. QInv /\ QInv' /\ [Next]_vars => [Meter!Next]_(Meter!vars)
  <2> SUFFICES ASSUME QInv, QInv', [Next]_vars
               PROVE  [Meter!Next]_(Meter!vars)
    OBVIOUS
  <2>0. TypeOK /\ PeriodsPast
    BY DEF QInv
  <2>1. ASSUME now' = now, \A w \in Windows : Read(w)' = Read(w)
        PROVE  UNCHANGED Meter!vars
    BY <2>1 DEF Meter!vars
  <2>2. ASSUME NEW d \in Dispatches, Reserve(d) PROVE Meter!Next
    BY <2>2, ReserveGrants DEF Meter!Next
  <2>3. ASSUME NEW d \in Dispatches, Commit(d) PROVE Meter!Next
    BY <2>0, <2>3, CommitCorrects DEF Meter!Next
  <2>4. ASSUME NEW d \in Dispatches, Abandon(d) PROVE UNCHANGED Meter!vars
    BY <2>1, <2>4 DEF Abandon, Read, Period
  <2>5. CASE ResetExpired
    <3>1. now' = now
      BY <2>5 DEF ResetExpired
    <3> QED BY <2>0, <2>1, <2>5, <3>1, ResetReads
  <2>6. CASE Tick
    BY <2>0, <2>6, TickPasses DEF Meter!Next
  <2>7. CASE UNCHANGED vars
    BY <2>1, <2>7 DEF vars, Read, Period
  <2> QED BY <2>2, <2>3, <2>4, <2>5, <2>6, <2>7 DEF Next
<1> QED BY <1>1, <1>2, Invariance, PTL DEF Spec, ResetsAtRollover, Meter!Spec

===============================================================================
