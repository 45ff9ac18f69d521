-------------------------- MODULE FallbackChainProofs --------------------------
(* Proofs about FallbackChain, for every registry, route, key pool and budget,  *)
(* and about Byok, whose turns are turns of FallbackChain.                      *)
EXTENDS Byok, SequenceTheorems, DataLemmas

(* A turn that has not ended has a candidate to work on. *)
HasCurrent == link # "done" => Len(candidates) > 0

-------------------------------------------------------------------------------
(* Type correctness *)

LEMMA ResolvedType ==
    ASSUME turn \in Turn, NEW p \in Providers
    PROVE  Resolved(p) \in 0..MaxKeys
BY BudgetAssumption DEF Turn, Resolved

LEMMA FallBackType ==
    ASSUME TypeOK, Len(candidates) > 0, FallBack
    PROVE  /\ candidates' \in Seq(Providers)
           /\ link' \in Links
           /\ credentials' \in 0..MaxKeys
           /\ key' \in 1..MaxKeys
           /\ attempt' \in 1..MaxAttempts
           /\ reservation' \in Providers \union {None}
           /\ result' \in Results
           /\ HasCurrent'
<1>1. /\ candidates' \in Seq(Providers)
      /\ Len(candidates) # 1 => Len(candidates') > 0
  <2>1. candidates \in Seq(Providers) /\ candidates' = Tail(candidates)
    BY DEF TypeOK, FallBack
  <2>2. /\ Tail(candidates) \in Seq(Providers)
        /\ Len(Tail(candidates)) = Len(candidates) - 1
    BY <2>1, HeadTailProperties, EmptySeq
  <2>3. Len(candidates) \in Nat
    BY <2>1
  <2> QED BY <2>1, <2>2, <2>3
<1>2. /\ key' \in 1..MaxKeys
      /\ attempt' \in 1..MaxAttempts
      /\ credentials' \in 0..MaxKeys
  BY BudgetAssumption DEF FallBack
<1>3. /\ reservation' \in Providers \union {None}
      /\ link' \in Links
      /\ result' \in Results
  BY DEF TypeOK, FallBack, End, Links, Results
<1>4. HasCurrent'
  BY <1>1 DEF FallBack, End, HasCurrent
<1> QED BY <1>1, <1>2, <1>3, <1>4

LEMMA LeaveKeyType ==
    ASSUME TypeOK, Len(candidates) > 0, LeaveKey
    PROVE  /\ candidates' \in Seq(Providers)
           /\ link' \in Links
           /\ credentials' \in 0..MaxKeys
           /\ key' \in 1..MaxKeys
           /\ attempt' \in 1..MaxAttempts
           /\ reservation' \in Providers \union {None}
           /\ result' \in Results
           /\ HasCurrent'
<1>1. CASE HasMoreCredentials
  BY <1>1, BudgetAssumption
  DEF TypeOK, LeaveKey, HasMoreCredentials, HasCurrent, Links
<1>2. CASE ~HasMoreCredentials
  BY <1>2, FallBackType DEF LeaveKey
<1> QED BY <1>1, <1>2

LEMMA RecordType ==
    ASSUME TypeOK, Len(candidates) > 0, NEW e \in ErrorClass \union {None}, Record(e)
    PROVE  attempts' \in Seq(Attempt)
<1>1. Current \in Providers
  BY DEF TypeOK, Current
<1>2. [provider |-> Current, key |-> key, error |-> e] \in Attempt
  BY <1>1 DEF TypeOK, Attempt
<1> QED BY <1>2 DEF TypeOK, Record

LEMMA TypeInit == Init => TypeOK /\ HasCurrent
<1> SUFFICES ASSUME Init PROVE TypeOK /\ HasCurrent
  OBVIOUS
<1>1. turn.route \in Seq(Providers)
  BY RouteAssumption DEF Init, Turn
<1>2. turn.route # <<>> => Len(turn.route) > 0
  BY <1>1, EmptySeq
<1> QED
  BY <1>1, <1>2, BudgetAssumption
  DEF Init, TypeOK, HasCurrent, Links, Waits, Results, None

LEMMA TypeStep == TypeOK /\ HasCurrent /\ [Next]_vars => TypeOK' /\ HasCurrent'
<1> SUFFICES ASSUME TypeOK, HasCurrent, [Next]_vars
             PROVE  TypeOK' /\ HasCurrent'
  OBVIOUS
<1> USE DEF TypeOK, HasCurrent
<1>1. CASE PerimeterAdmits
  BY <1>1 DEF PerimeterAdmits, Links
<1>2. CASE PerimeterRejects
  BY <1>2 DEF PerimeterRejects, End, Links, Results
<1>3. CASE ResolveCredentials
  <2>1. Current \in Providers
    BY <1>3 DEF ResolveCredentials, Current
  <2>2. Resolved(Current) \in 0..MaxKeys
    BY <2>1, ResolvedType
  <2> QED BY <1>3, <2>2 DEF ResolveCredentials, Links
<1>4. CASE NoCredential
  BY <1>4 DEF NoCredential, End, Links, Results
<1>5. CASE QuotaGrants
  BY <1>5 DEF QuotaGrants, Current, Links
<1>6. CASE QuotaDeniesFallsBack
  BY <1>6, FallBackType DEF QuotaDeniesFallsBack
<1>7. CASE QuotaDeniesHandsOff
  BY <1>7 DEF QuotaDeniesHandsOff, End, HandoffStatus, Links, Results
<1>8. CASE CallSucceeds
  <2>1. attempts' \in Seq(Attempt)
    BY <1>8, RecordType DEF CallSucceeds
  <2> QED BY <1>8, <2>1 DEF CallSucceeds, End, Links, Results
<1>9. CASE CallFailsWaits
  <2>1. attempts' \in Seq(Attempt)
    BY <1>9, RecordType DEF CallFailsWaits
  <2>2. wait' \in Waits
    BY <1>9 DEF CallFailsWaits, BackoffDelay, Hints, Waits
  <2> QED BY <1>9, <2>1, <2>2 DEF CallFailsWaits, Links
<1>10. CASE CallFailsMovesOn
  <2>1. attempts' \in Seq(Attempt)
    BY <1>10, RecordType DEF CallFailsMovesOn
  <2>2. Len(candidates) > 0 /\ LeaveKey /\ UNCHANGED <<turn, wait>>
    BY <1>10 DEF CallFailsMovesOn
  <2> QED BY <2>1, <2>2, LeaveKeyType
<1>11. CASE CallFailsTerminally
  <2>1. attempts' \in Seq(Attempt)
    BY <1>11, RecordType DEF CallFailsTerminally
  <2> QED
    BY <1>11, <2>1 DEF CallFailsTerminally, End, TerminalError, Links, Results
<1>12. CASE CallRaises
  BY <1>12 DEF CallRaises, End, Links, Results
<1>13. CASE BackoffElapses
  <2>1. Len(candidates) > 0 /\ UNCHANGED <<turn, attempts>> /\ wait' \in Waits
    BY <1>13 DEF BackoffElapses, Waits
  <2>2. CASE attempt < MaxAttempts
    BY <1>13, <2>1, <2>2, BudgetAssumption DEF BackoffElapses, Links
  <2>3. CASE ~(attempt < MaxAttempts)
    BY <1>13, <2>1, <2>3, LeaveKeyType DEF BackoffElapses
  <2> QED BY <2>2, <2>3
<1>14. CASE Cancel
  BY <1>14 DEF Cancel, End, Links, Results
<1>15. CASE UNCHANGED vars
  BY <1>15 DEF vars
<1> QED
  BY <1>1, <1>2, <1>3, <1>4, <1>5, <1>6, <1>7, <1>8, <1>9, <1>10, <1>11, <1>12,
     <1>13, <1>14, <1>15 DEF Next, Step

(* A turn keeps every variable within its kind: a candidate is there whenever   *)
(* a link asks for context.current, the key in use is one of the pool, the      *)
(* attempt number stays within max_attempts.                                    *)
THEOREM TypeCorrect == Spec => []TypeOK
<1>1. Init => TypeOK /\ HasCurrent
  BY TypeInit
<1>2. TypeOK /\ HasCurrent /\ [Next]_vars => (TypeOK /\ HasCurrent)'
  BY TypeStep
<1> QED BY <1>1, <1>2, PTL DEF Spec

-------------------------------------------------------------------------------
(* The audit trail *)

(* The candidates left are a suffix of the route; Here is where it starts.      *)
Here == Len(turn.route) - Len(candidates) + 1

SuffixLeft ==
    /\ Len(candidates) <= Len(turn.route)
    /\ \A i \in 1..Len(candidates) : candidates[i] = turn.route[Here - 1 + i]

Calling == link \in {"invoke", "backoff"}

(* What was tried lies behind the current slot, or is the current slot.         *)
TrailBehind ==
    link # "done" =>
        \A i \in 1..Len(attempts) :
            \/ Position(attempts[i].provider) \in 1..(Here - 1)
            \/ /\ Calling
               /\ attempts[i].provider = Current
               /\ attempts[i].key <= key

(* The calls made with the current key are the last ones, fewer than attempt    *)
(* before a call and no more than attempt before a sleep.                       *)
BudgetLeft ==
    Calling =>
        \A i \in 1..Len(attempts) :
            attempts[i].provider = Current /\ attempts[i].key = key =>
                Len(attempts) - i < IF link = "invoke" THEN attempt - 1 ELSE attempt

(* A turn that goes on has not failed for good; after an auth failure it is     *)
(* about to call the next pooled key.                                           *)
LastAllowsMore ==
    link # "done" /\ Len(attempts) > 0 =>
        LET last == attempts[Len(attempts)]
        IN  /\ last.error \notin {None, "invalid", "content"}
            /\ last.error = "auth" =>
                 /\ link = "invoke"
                 /\ last.provider = Current
                 /\ last.key = key - 1

(* A key is called again only for a reason.                                     *)
ReuseIsJustified ==
    Calling /\ Len(attempts) > 0 =>
        LET last == attempts[Len(attempts)]
        IN  last.provider = Current /\ last.key = key =>
              \/ last.error = "transient"
              \/ /\ last.error = "rate_limit"
                 /\ Here = Len(turn.route)
                 /\ key = Resolved(Current)

(* The scratch state of the context belongs to the current candidate.           *)
ScratchIsCurrent ==
    /\ link = "quota" => credentials = Resolved(Current) /\ credentials > 0
    /\ link \in {"perimeter", "credential", "quota"} =>
         key = 1 /\ reservation = None
    /\ Calling => /\ credentials = Resolved(Current)
                  /\ key <= credentials
                  /\ reservation = Current

PendingUntilDone == link # "done" <=> result = "pending"

IInv ==
    /\ TypeOK /\ HasCurrent
    /\ SuffixLeft /\ TrailBehind /\ BudgetLeft /\ LastAllowsMore
    /\ ReuseIsJustified /\ ScratchIsCurrent /\ PendingUntilDone
    /\ AttemptsInOrder /\ RetryBudget /\ NothingAfterTerminal
    /\ FailoverIsImmediate /\ CommitMatchesWinner

(* What a turn that leaves a key or a provider knows of its trail.              *)
TriedHere(trail) ==
    \A i \in 1..Len(trail) :
        \/ Position(trail[i].provider) \in 1..(Here - 1)
        \/ trail[i].provider = Current /\ trail[i].key <= key

Recoverable(trail) ==
    Len(trail) > 0 =>
        trail[Len(trail)].error \in {"rate_limit", "quota", "transient"}

LEMMA IndexUnique ==
    ASSUME NEW r \in Routes, NEW n \in 1..Len(r)
    PROVE  IndexIn(r, r[n]) = n
BY RouteAssumption DEF IndexIn

LEMMA CurrentHere ==
    ASSUME TypeOK, SuffixLeft, Len(candidates) > 0
    PROVE  /\ Current \in Providers
           /\ Len(turn.route) \in Nat /\ Len(candidates) \in Nat
           /\ Here \in 1..Len(turn.route)
           /\ turn.route[Here] = Current
           /\ Position(Current) = Here
<1>1. turn.route \in Routes /\ turn.route \in Seq(Providers)
  BY RouteAssumption DEF TypeOK, Turn
<1>2. Len(turn.route) \in Nat /\ Len(candidates) \in Nat
  BY <1>1 DEF TypeOK
<1>3. Current = candidates[1] /\ Current \in Providers
  BY DEF TypeOK, Current
<1>4. Here \in 1..Len(turn.route)
  BY <1>2 DEF SuffixLeft, Here
<1>5. turn.route[Here] = Current
  BY <1>2, <1>3, <1>4 DEF SuffixLeft, Here
<1>6. Position(Current) = Here
  BY <1>1, <1>4, <1>5, IndexUnique DEF Position
<1> QED BY <1>2, <1>3, <1>4, <1>5, <1>6

LEMMA RecordFacts ==
    ASSUME TypeOK, Len(candidates) > 0, NEW e \in ErrorClass \union {None}, Record(e)
    PROVE  /\ Len(attempts) \in Nat
           /\ Len(attempts') = Len(attempts) + 1
           /\ \A i \in 1..Len(attempts) : attempts'[i] = attempts[i]
           /\ attempts'[Len(attempts')].provider = Current
           /\ attempts'[Len(attempts')].key = key
           /\ attempts'[Len(attempts')].error = e
<1>1. Current \in Providers
  BY DEF TypeOK, Current
<1>2. [provider |-> Current, key |-> key, error |-> e] \in Attempt
  BY <1>1 DEF TypeOK, Attempt
<1> QED BY <1>2 DEF TypeOK, Record

(* A recorded call stays within the order, the budget and the rules of reuse.   *)
LEMMA RecordKeeps ==
    ASSUME IInv, link = "invoke", turn' = turn,
           NEW e \in ErrorClass \union {None}, Record(e)
    PROVE  /\ AttemptsInOrder' /\ RetryBudget'
           /\ NothingAfterTerminal' /\ FailoverIsImmediate'
           /\ TriedHere(attempts')
<1> DEFINE n == Len(attempts)
<1>1. Len(candidates) > 0 /\ Calling /\ link # "done"
  BY DEF IInv, HasCurrent, Calling
<1>2. /\ n \in Nat /\ Len(attempts') = n + 1
      /\ \A i \in 1..n : attempts'[i] = attempts[i]
      /\ attempts'[n + 1].provider = Current
      /\ attempts'[n + 1].key = key
      /\ attempts'[n + 1].error = e
  BY <1>1, RecordFacts DEF IInv
<1>3. Position(Current) = Here /\ \A p : Position(p)' = Position(p)
  BY <1>1, CurrentHere DEF IInv, Position
<1>4. \A i \in 1..n :
        \/ Position(attempts[i].provider) \in 1..(Here - 1)
        \/ attempts[i].provider = Current /\ attempts[i].key <= key
  BY <1>1 DEF IInv, TrailBehind
<1>5. key \in Nat /\ attempt \in 1..MaxAttempts
  BY BudgetAssumption DEF IInv, TypeOK
<1>6. AttemptsInOrder'
  <2> SUFFICES ASSUME NEW i \in 1..(n + 1), NEW j \in 1..(n + 1), i < j
               PROVE  \/ Position(attempts'[i].provider)
                           < Position(attempts'[j].provider)
                      \/ /\ attempts'[i].provider = attempts'[j].provider
                         /\ attempts'[i].key <= attempts'[j].key
    BY <1>2, <1>3 DEF AttemptsInOrder, Position
  <2>1. CASE j <= n
    <3>1. i \in 1..n /\ j \in 1..n
      BY <2>1, <1>2
    <3> QED BY <3>1, <1>2 DEF IInv, AttemptsInOrder
  <2>2. CASE j = n + 1
    <3>1. i \in 1..n
      BY <2>2, <1>2
    <3>2. Here \in Nat
      BY <1>1, CurrentHere DEF IInv
    <3> QED BY <3>1, <3>2, <2>2, <1>2, <1>3, <1>4
  <2> QED BY <2>1, <2>2, <1>2
<1>7. RetryBudget'
  <2> SUFFICES ASSUME NEW i \in 1..(n + 1), NEW j \in 1..(n + 1),
                      attempts'[i].provider = attempts'[j].provider,
                      attempts'[i].key = attempts'[j].key
               PROVE  j - i < MaxAttempts
    BY <1>2 DEF RetryBudget, SameSlot
  <2>1. CASE j <= n /\ i <= n
    <3>1. i \in 1..n /\ j \in 1..n
      BY <2>1, <1>2
    <3> QED BY <3>1, <1>2 DEF IInv, RetryBudget, SameSlot
  <2>2. CASE j <= i
    BY <2>2, <1>2, BudgetAssumption
  <2>3. CASE j = n + 1 /\ i <= n
    <3>1. i \in 1..n
      BY <2>3, <1>2
    <3>2. n - i < attempt - 1
      BY <3>1, <2>3, <1>1, <1>2 DEF IInv, BudgetLeft
    <3> QED BY <3>2, <2>3, <1>2, <1>5, BudgetAssumption
  <2> QED BY <2>1, <2>2, <2>3, <1>2
<1>8. NothingAfterTerminal'
  <2> SUFFICES ASSUME NEW i \in 1..n
               PROVE  /\ attempts[i].error \notin {None, "invalid", "content"}
                      /\ attempts[i].error = "auth" =>
                           /\ attempts'[i + 1].provider = attempts[i].provider
                           /\ attempts'[i + 1].key = attempts[i].key + 1
    BY <1>2 DEF NothingAfterTerminal
  <2>1. CASE i < n
    <3>1. i \in 1..(n - 1) /\ i + 1 \in 1..n
      BY <2>1, <1>2
    <3> QED BY <3>1, <1>2 DEF IInv, NothingAfterTerminal
  <2>2. CASE i = n
    BY <2>2, <1>1, <1>2, <1>5 DEF IInv, LastAllowsMore
  <2> QED BY <2>1, <2>2, <1>2
<1>9. FailoverIsImmediate'
  <2>1. \A p : Resolved(p)' = Resolved(p)
    BY DEF Resolved
  <2> SUFFICES ASSUME NEW i \in 1..n,
                      attempts[i].provider = attempts'[i + 1].provider,
                      attempts[i].key = attempts'[i + 1].key
               PROVE  \/ attempts[i].error = "transient"
                      \/ /\ attempts[i].error = "rate_limit"
                         /\ Position(attempts[i].provider) = Len(turn.route)
                         /\ attempts[i].key = Resolved(attempts[i].provider)
    BY <1>2, <1>3, <2>1 DEF FailoverIsImmediate, SameSlot
  <2>2. CASE i < n
    <3>1. i \in 1..(n - 1) /\ i + 1 \in 1..n
      BY <2>2, <1>2
    <3> QED BY <3>1, <1>2 DEF IInv, FailoverIsImmediate, SameSlot
  <2>3. CASE i = n
    BY <2>3, <1>1, <1>2, <1>3 DEF IInv, ReuseIsJustified
  <2> QED BY <2>2, <2>3, <1>2
<1>10. TriedHere(attempts')
  <2> SUFFICES ASSUME NEW i \in 1..(n + 1)
               PROVE  \/ Position(attempts'[i].provider) \in 1..(Here - 1)
                      \/ /\ attempts'[i].provider = Current
                         /\ attempts'[i].key <= key
    BY <1>2 DEF TriedHere
  <2>1. CASE i \in 1..n
    BY <2>1, <1>2, <1>4
  <2>2. CASE i = n + 1
    BY <2>2, <1>2, <1>5
  <2> QED BY <2>1, <2>2, <1>2
<1> QED BY <1>6, <1>7, <1>8, <1>9, <1>10

(* Dropping the candidate leaves the whole trail behind.                        *)
LEMMA FallBackKeeps ==
    ASSUME TypeOK, SuffixLeft, Len(candidates) > 0, turn' = turn,
           attempts' \in Seq(Attempt), link # "done", PendingUntilDone,
           TriedHere(attempts'), Recoverable(attempts'), FallBack
    PROVE  /\ SuffixLeft' /\ TrailBehind' /\ BudgetLeft' /\ LastAllowsMore'
           /\ ReuseIsJustified' /\ ScratchIsCurrent' /\ PendingUntilDone'
           /\ result' # "answered"
<1>1. /\ Len(candidates) \in Nat /\ Len(turn.route) \in Nat
      /\ Position(Current) = Here /\ \A p : Position(p)' = Position(p)
  BY CurrentHere DEF Position
<1>2. /\ Len(candidates') = Len(candidates) - 1
      /\ \A i \in 1..Len(candidates') : candidates'[i] = candidates[i + 1]
  BY EmptySeq, HeadTailProperties DEF TypeOK, FallBack
<1>3. Here' = Here + 1 /\ Here \in Nat
  BY <1>1, <1>2, CurrentHere DEF Here
<1>4. link' \in {"done", "perimeter"} /\ result' # "answered"
  BY DEF FallBack, End, PendingUntilDone
<1>5. SuffixLeft'
  <2>1. Len(candidates') <= Len(turn'.route)
    BY <1>1, <1>2 DEF SuffixLeft
  <2>2. ASSUME NEW i \in 1..Len(candidates')
        PROVE  candidates'[i] = turn'.route[Here' - 1 + i]
    <3>1. i + 1 \in 1..Len(candidates) /\ i \in Nat
      BY <1>1, <1>2
    <3>2. candidates[i + 1] = turn.route[Here - 1 + (i + 1)]
      BY <3>1 DEF SuffixLeft
    <3>3. Here - 1 + (i + 1) = Here' - 1 + i
      BY <3>1, <1>3
    <3> QED BY <3>2, <3>3, <1>2
  <2> QED BY <2>1, <2>2 DEF SuffixLeft
<1>6. TrailBehind'
  <2> SUFFICES ASSUME NEW i \in 1..Len(attempts')
               PROVE  Position(attempts'[i].provider) \in 1..Here
    BY <1>1, <1>3 DEF TrailBehind
  <2>1. CASE Position(attempts'[i].provider) \in 1..(Here - 1)
    BY <2>1, <1>3
  <2>2. CASE attempts'[i].provider = Current
    <3>1. Here \in 1..Len(turn.route)
      BY CurrentHere
    <3> QED BY <2>2, <3>1, <1>1
  <2> QED BY <2>1, <2>2 DEF TriedHere
<1>7. LastAllowsMore'
  BY DEF LastAllowsMore, Recoverable, None
<1>8. BudgetLeft' /\ ReuseIsJustified'
  BY <1>4 DEF BudgetLeft, ReuseIsJustified, Calling
<1>9. ScratchIsCurrent'
  BY <1>4 DEF ScratchIsCurrent, Calling, FallBack
<1>10. PendingUntilDone'
  BY <1>4 DEF PendingUntilDone, FallBack, End
<1> QED BY <1>4, <1>5, <1>6, <1>7, <1>8, <1>9, <1>10

(* The next pooled key starts with a clean budget, the next candidate too.      *)
LEMMA LeaveKeyKeeps ==
    ASSUME TypeOK, SuffixLeft, Len(candidates) > 0, turn' = turn,
           attempts' \in Seq(Attempt), Calling, PendingUntilDone, ScratchIsCurrent,
           TriedHere(attempts'), LeaveKey,
           \/ Recoverable(attempts')
           \/ /\ HasMoreCredentials
              /\ Len(attempts') > 0
              /\ attempts'[Len(attempts')].error = "auth"
              /\ attempts'[Len(attempts')].provider = Current
              /\ attempts'[Len(attempts')].key = key
    PROVE  /\ SuffixLeft' /\ TrailBehind' /\ BudgetLeft' /\ LastAllowsMore'
           /\ ReuseIsJustified' /\ ScratchIsCurrent' /\ PendingUntilDone'
           /\ result' # "answered"
<1>1. link # "done"
  BY DEF Calling
<1>2. CASE ~HasMoreCredentials
  BY <1>1, <1>2, FallBackKeeps DEF LeaveKey
<1>3. CASE HasMoreCredentials
  <2>1. /\ candidates' = candidates /\ credentials' = credentials
        /\ reservation' = reservation /\ result' = result
        /\ key' = key + 1 /\ attempt' = 1 /\ link' = "invoke"
    BY <1>3 DEF LeaveKey
  <2>2. key \in Nat /\ key + 1 <= credentials
    BY <1>3, BudgetAssumption DEF TypeOK, HasMoreCredentials
  <2>3. /\ Here' = Here /\ Current' = Current /\ Resolved(Current)' = Resolved(Current)
        /\ \A p : Position(p)' = Position(p)
    BY <2>1 DEF Here, Current, Resolved, Position
  <2>4. Len(attempts') \in Nat /\ \A i \in 1..Len(attempts') : attempts'[i].key \in Nat
    <3>1. \A i \in 1..Len(attempts') : attempts'[i] \in Attempt
      BY ElementOfSeq
    <3> QED BY <3>1, BudgetAssumption DEF Attempt
  <2>5. SuffixLeft'
    BY <2>1, <2>3 DEF SuffixLeft
  <2>6. TrailBehind'
    BY <2>1, <2>2, <2>3, <2>4 DEF TrailBehind, TriedHere, Calling
  <2>7. \A i \in 1..Len(attempts') :
          ~(attempts'[i].provider = Current /\ attempts'[i].key = key + 1)
    <3>1. Position(Current) = Here /\ Here \in Nat
      BY CurrentHere
    <3> QED BY <3>1, <2>2, <2>4 DEF TriedHere
  <2>8. BudgetLeft'
    BY <2>1, <2>3, <2>7 DEF BudgetLeft
  <2>9. LastAllowsMore'
    BY <2>1, <2>2, <2>3 DEF LastAllowsMore, Recoverable, None
  <2>10. ReuseIsJustified'
    BY <2>1, <2>3, <2>4, <2>7 DEF ReuseIsJustified
  <2>11. ScratchIsCurrent'
    BY <2>1, <2>2, <2>3 DEF ScratchIsCurrent, Calling
  <2>12. PendingUntilDone' /\ result' # "answered"
    BY <1>1, <2>1 DEF PendingUntilDone
  <2> QED BY <2>5, <2>6, <2>8, <2>9, <2>10, <2>11, <2>12
<1> QED BY <1>2, <1>3

(* A step that calls nobody leaves what is said of the trail as it was.         *)
LEMMA TrailUnchanged ==
    ASSUME IInv, turn' = turn, attempts' = attempts
    PROVE  /\ AttemptsInOrder' /\ RetryBudget'
           /\ NothingAfterTerminal' /\ FailoverIsImmediate'
<1>1. AttemptsInOrder'
  BY DEF IInv, AttemptsInOrder, Position
<1>2. RetryBudget'
  BY DEF IInv, RetryBudget, SameSlot
<1>3. NothingAfterTerminal'
  BY DEF IInv, NothingAfterTerminal
<1>4. FailoverIsImmediate'
  BY DEF IInv, FailoverIsImmediate, SameSlot, Position, Resolved
<1> QED BY <1>1, <1>2, <1>3, <1>4

LEMMA NotAnswered ==
    ASSUME attempts' \in Seq(Attempt), result' # "answered",
           Len(attempts') > 0 => attempts'[Len(attempts')].error # None
    PROVE  CommitMatchesWinner'
<1>1. attempts' # <<>> => Len(attempts') > 0
  BY EmptySeq
<1> QED BY <1>1 DEF CommitMatchesWinner

LEMMA EndKeeps ==
    ASSUME IInv, turn' = turn, candidates' = candidates,
           link' = "done", result' # "pending"
    PROVE  /\ SuffixLeft' /\ TrailBehind' /\ BudgetLeft' /\ LastAllowsMore'
           /\ ReuseIsJustified' /\ ScratchIsCurrent' /\ PendingUntilDone'
<1>1. SuffixLeft'
  BY DEF IInv, SuffixLeft, Here
<1>2. TrailBehind' /\ LastAllowsMore' /\ PendingUntilDone'
  BY DEF TrailBehind, LastAllowsMore, PendingUntilDone
<1>3. BudgetLeft' /\ ReuseIsJustified' /\ ScratchIsCurrent'
  BY DEF BudgetLeft, ReuseIsJustified, ScratchIsCurrent, Calling
<1> QED BY <1>1, <1>2, <1>3

(* An abnormal end calls nobody.                                                *)
LEMMA AbortKeeps ==
    ASSUME IInv, TypeOK', HasCurrent', link # "done", link' = "done",
           result' \notin {"pending", "answered"},
           turn' = turn, candidates' = candidates, attempts' = attempts
    PROVE  IInv'
<1>1. CommitMatchesWinner'
  BY NotAnswered DEF IInv, LastAllowsMore, TypeOK
<1> QED BY <1>1, TrailUnchanged, EndKeeps DEF IInv

(* The links before the call only move on to the next link.                     *)
LEMMA LinkKeeps ==
    ASSUME IInv, TypeOK', HasCurrent', turn' = turn, candidates' = candidates,
           attempts' = attempts, key' = key, result' = result,
           \/ /\ link = "perimeter" /\ link' = "credential"
              /\ reservation' = reservation
           \/ /\ link = "credential" /\ link' = "quota" /\ reservation' = reservation
              /\ credentials' = Resolved(Current) /\ credentials' > 0
           \/ /\ link = "quota" /\ link' = "invoke"
              /\ credentials' = credentials /\ reservation' = Current
    PROVE  IInv'
<1>1. /\ Here' = Here /\ Current' = Current /\ Resolved(Current)' = Resolved(Current)
      /\ \A p : Position(p)' = Position(p)
  BY DEF Here, Current, Resolved, Position
<1>2. /\ link \in {"perimeter", "credential", "quota"}
      /\ link' \in {"credential", "quota", "invoke"}
  OBVIOUS
<1>3. SuffixLeft'
  BY <1>1 DEF IInv, SuffixLeft
<1>4. \A i \in 1..Len(attempts) : Position(attempts[i].provider) \in 1..(Here - 1)
  BY <1>2 DEF IInv, TrailBehind, Calling
<1>5. \A i \in 1..Len(attempts) : attempts[i].provider # Current
  <2>1. Position(Current) = Here /\ Here \in Nat
    BY <1>2, CurrentHere DEF IInv, HasCurrent
  <2> QED BY <2>1, <1>4
<1>6. TrailBehind'
  BY <1>1, <1>4 DEF TrailBehind
<1>7. BudgetLeft'
  BY <1>1, <1>5 DEF BudgetLeft
<1>8. ReuseIsJustified'
  <2>1. Len(attempts) \in Nat
    BY DEF IInv, TypeOK
  <2> QED BY <2>1, <1>1, <1>5 DEF ReuseIsJustified
<1>9. LastAllowsMore' /\ PendingUntilDone'
  BY <1>2 DEF IInv, LastAllowsMore, PendingUntilDone
<1>10. ScratchIsCurrent'
  <2>1. key = 1 /\ reservation = None /\ (link = "quota" => credentials = Resolved(Current) /\ credentials > 0)
    BY <1>2 DEF IInv, ScratchIsCurrent
  <2>2. credentials \in Nat
    BY BudgetAssumption DEF IInv, TypeOK
  <2> QED BY <2>1, <2>2, <1>1 DEF ScratchIsCurrent, Calling
<1>11. CommitMatchesWinner'
  <2>1. result' # "answered"
    BY <1>2 DEF IInv, PendingUntilDone
  <2> QED BY <2>1, <1>2, NotAnswered DEF IInv, LastAllowsMore, TypeOK
<1> QED BY <1>3, <1>6, <1>7, <1>8, <1>9, <1>10, <1>11, TrailUnchanged DEF IInv

LEMMA IInvInit == Init => IInv
<1> SUFFICES ASSUME Init PROVE IInv
  OBVIOUS
<1>1. TypeOK /\ HasCurrent
  BY TypeInit
<1>2. Len(attempts) = 0 /\ attempts = <<>>
  BY DEF Init
<1>3. SuffixLeft
  <2>1. candidates = turn.route /\ Len(candidates) \in Nat
    BY <1>1 DEF Init, TypeOK
  <2> QED BY <2>1 DEF SuffixLeft, Here
<1>4. TrailBehind /\ BudgetLeft /\ LastAllowsMore /\ ReuseIsJustified
  BY <1>2 DEF TrailBehind, BudgetLeft, LastAllowsMore, ReuseIsJustified
<1>5. ScratchIsCurrent /\ PendingUntilDone
  BY DEF Init, ScratchIsCurrent, PendingUntilDone, Calling
<1>6. AttemptsInOrder /\ RetryBudget /\ NothingAfterTerminal /\ FailoverIsImmediate
  BY <1>2
  DEF AttemptsInOrder, RetryBudget, NothingAfterTerminal, FailoverIsImmediate
<1>7. CommitMatchesWinner
  BY <1>2 DEF CommitMatchesWinner, Init
<1> QED BY <1>1, <1>3, <1>4, <1>5, <1>6, <1>7 DEF IInv

LEMMA IInvStep == IInv /\ [Next]_vars => IInv'
<1> SUFFICES ASSUME IInv, [Next]_vars PROVE IInv'
  OBVIOUS
<1>0. TypeOK /\ HasCurrent /\ TypeOK' /\ HasCurrent'
  BY TypeStep DEF IInv
<1>1. CASE PerimeterAdmits
  BY <1>0, <1>1, LinkKeeps DEF PerimeterAdmits
<1>2. CASE PerimeterRejects
  BY <1>0, <1>2, AbortKeeps DEF PerimeterRejects, End
<1>3. CASE ResolveCredentials
  BY <1>0, <1>3, LinkKeeps DEF ResolveCredentials
<1>4. CASE NoCredential
  BY <1>0, <1>4, AbortKeeps DEF NoCredential, End
<1>5. CASE QuotaGrants
  BY <1>0, <1>5, LinkKeeps DEF QuotaGrants
<1>6. CASE QuotaDeniesFallsBack
  <2>1. /\ link = "quota" /\ link # "done" /\ FallBack
        /\ turn' = turn /\ attempts' = attempts
    BY <1>6 DEF QuotaDeniesFallsBack
  <2>2. TriedHere(attempts')
    BY <2>1 DEF IInv, TrailBehind, TriedHere, Calling
  <2>3. Recoverable(attempts')
    <3>1. Len(attempts) > 0 => attempts[Len(attempts)] \in Attempt
      BY <1>0, ElementOfSeq DEF TypeOK
    <3> QED BY <2>1, <3>1 DEF IInv, LastAllowsMore, Recoverable, Attempt, ErrorClass
  <2>4. /\ SuffixLeft' /\ TrailBehind' /\ BudgetLeft' /\ LastAllowsMore'
        /\ ReuseIsJustified' /\ ScratchIsCurrent' /\ PendingUntilDone'
        /\ result' # "answered"
    BY <1>0, <2>1, <2>2, <2>3, FallBackKeeps DEF IInv, HasCurrent, TypeOK
  <2>5. CommitMatchesWinner'
    BY <1>0, <2>3, <2>4, <2>1, NotAnswered DEF Recoverable, None, TypeOK
  <2> QED BY <1>0, <2>1, <2>4, <2>5, TrailUnchanged DEF IInv
<1>7. CASE QuotaDeniesHandsOff
  BY <1>0, <1>7, AbortKeeps DEF QuotaDeniesHandsOff, End, HandoffStatus
<1>8. CASE CallSucceeds
  <2>1. /\ link = "invoke" /\ Record(None) /\ turn' = turn
        /\ candidates' = candidates /\ reservation' = reservation
        /\ link' = "done" /\ result' = "answered"
    BY <1>8 DEF CallSucceeds, End
  <2>2. AttemptsInOrder' /\ RetryBudget' /\ NothingAfterTerminal' /\ FailoverIsImmediate'
    BY <2>1, RecordKeeps
  <2>3. CommitMatchesWinner'
    <3>1. /\ Len(attempts') > 0 /\ attempts'[Len(attempts')].error = None
          /\ attempts'[Len(attempts')].provider = Current
      BY <1>0, <2>1, RecordFacts DEF HasCurrent
    <3>2. reservation = Current
      BY <2>1 DEF IInv, ScratchIsCurrent, Calling
    <3>3. attempts' # <<>>
      BY <3>1, EmptySeq
    <3> QED BY <2>1, <3>1, <3>2, <3>3 DEF CommitMatchesWinner
  <2> QED BY <1>0, <2>1, <2>2, <2>3, EndKeeps DEF IInv
<1>9. CASE CallFailsWaits
  <2>1. PICK class \in ErrorClass, hint \in Hints :
          RetriesSameKey(class, hint) /\ Record(class)
    BY <1>9 DEF CallFailsWaits
  <2>2. /\ link = "invoke" /\ link' = "backoff" /\ turn' = turn
        /\ candidates' = candidates /\ credentials' = credentials
        /\ key' = key /\ attempt' = attempt
        /\ reservation' = reservation /\ result' = result
    BY <1>9 DEF CallFailsWaits
  <2>3. /\ AttemptsInOrder' /\ RetryBudget'
        /\ NothingAfterTerminal' /\ FailoverIsImmediate'
        /\ TriedHere(attempts')
    BY <2>1, <2>2, RecordKeeps
  <2>4. /\ Len(attempts) \in Nat /\ Len(attempts') = Len(attempts) + 1
        /\ \A i \in 1..Len(attempts) : attempts'[i] = attempts[i]
        /\ attempts'[Len(attempts')].error = class
    BY <1>0, <2>1, <2>2, RecordFacts DEF HasCurrent
  <2>5. /\ Here' = Here /\ Current' = Current /\ Resolved(Current)' = Resolved(Current)
        /\ \A p : Position(p)' = Position(p)
    BY <2>2 DEF Here, Current, Resolved, Position
  <2>6. \/ class = "transient"
        \/ /\ class = "rate_limit"
           /\ Here = Len(turn.route)
           /\ key = Resolved(Current)
    <3>1. class = "transient" \/ WaitsOutRateLimit(class, hint)
      BY <2>1 DEF RetriesSameKey, IsRetryable
    <3>2. CASE WaitsOutRateLimit(class, hint)
      <4>1. class = "rate_limit" /\ ~(key < credentials) /\ ~(Len(candidates) > 1)
        BY <3>2 DEF WaitsOutRateLimit, HasMoreCredentials, HasMoreProviders
      <4>2. key = credentials /\ credentials = Resolved(Current)
        BY <2>2, <4>1, BudgetAssumption DEF IInv, TypeOK, ScratchIsCurrent, Calling
      <4>3. /\ Len(candidates) > 0 /\ Len(candidates) \in Nat
            /\ Len(turn.route) \in Nat
        BY <2>2, CurrentHere DEF IInv, HasCurrent
      <4>4. Here = Len(turn.route)
        BY <4>1, <4>3 DEF Here
      <4> QED BY <4>1, <4>2, <4>4
    <3> QED BY <3>1, <3>2
  <2>7. SuffixLeft' /\ TrailBehind'
    BY <2>2, <2>3, <2>5 DEF IInv, SuffixLeft, TrailBehind, TriedHere, Calling
  <2>8. BudgetLeft'
    <3> SUFFICES ASSUME NEW i \in 1..Len(attempts'),
                        attempts'[i].provider = Current, attempts'[i].key = key
                 PROVE  Len(attempts') - i < attempt
      BY <2>2, <2>5 DEF BudgetLeft
    <3>1. attempt \in Nat \ {0}
      BY <1>0, BudgetAssumption DEF TypeOK
    <3>2. CASE i \in 1..Len(attempts)
      <4>1. Len(attempts) - i < attempt - 1
        BY <3>2, <2>2, <2>4 DEF IInv, BudgetLeft, Calling
      <4> QED BY <4>1, <3>1, <3>2, <2>4
    <3>3. CASE i = Len(attempts')
      BY <3>1, <3>3, <2>4
    <3> QED BY <3>2, <3>3, <2>4
  <2>9. LastAllowsMore' /\ ReuseIsJustified' /\ CommitMatchesWinner'
    <3>1. class \notin {None, "invalid", "content", "auth"}
      BY <2>6 DEF None
    <3>2. LastAllowsMore'
      BY <2>4, <3>1 DEF LastAllowsMore
    <3>3. ReuseIsJustified'
      BY <2>2, <2>4, <2>5, <2>6 DEF ReuseIsJustified
    <3>4. CommitMatchesWinner'
      BY <1>0, <2>2, <2>4, <3>1, NotAnswered DEF IInv, PendingUntilDone, TypeOK
    <3> QED BY <3>2, <3>3, <3>4
  <2>10. ScratchIsCurrent' /\ PendingUntilDone'
    BY <2>2, <2>5 DEF IInv, ScratchIsCurrent, PendingUntilDone, Calling
  <2> QED BY <1>0, <2>3, <2>7, <2>8, <2>9, <2>10 DEF IInv
<1>10. CASE CallFailsMovesOn
  <2>1. PICK class \in ErrorClass : GivesUpKey(class) /\ Record(class)
    BY <1>10 DEF CallFailsMovesOn
  <2>2. link = "invoke" /\ Calling /\ LeaveKey /\ turn' = turn
    BY <1>10 DEF CallFailsMovesOn, Calling
  <2>3. /\ AttemptsInOrder' /\ RetryBudget'
        /\ NothingAfterTerminal' /\ FailoverIsImmediate'
        /\ TriedHere(attempts')
    BY <2>1, <2>2, RecordKeeps
  <2>4. /\ Len(candidates) > 0 /\ Len(attempts') > 0
        /\ attempts'[Len(attempts')].provider = Current
        /\ attempts'[Len(attempts')].key = key
        /\ attempts'[Len(attempts')].error = class
    BY <1>0, <2>1, <2>2, RecordFacts DEF HasCurrent
  <2>5. \/ Recoverable(attempts')
        \/ HasMoreCredentials /\ class = "auth"
    BY <2>1, <2>4 DEF GivesUpKey, IsRetryable, IsFallbackWorthy, Recoverable
  <2>6. /\ SuffixLeft' /\ TrailBehind' /\ BudgetLeft' /\ LastAllowsMore'
        /\ ReuseIsJustified' /\ ScratchIsCurrent' /\ PendingUntilDone'
        /\ result' # "answered"
    BY <1>0, <2>2, <2>3, <2>4, <2>5, LeaveKeyKeeps DEF IInv, TypeOK
  <2>7. CommitMatchesWinner'
    BY <1>0, <2>4, <2>5, <2>6, NotAnswered DEF Recoverable, None, TypeOK
  <2> QED BY <1>0, <2>3, <2>6, <2>7 DEF IInv
<1>11. CASE CallFailsTerminally
  <2>1. PICK class \in ErrorClass : Record(class)
    BY <1>11 DEF CallFailsTerminally
  <2>2. /\ link = "invoke" /\ link' = "done" /\ turn' = turn
        /\ candidates' = candidates /\ result' \notin {"pending", "answered"}
    BY <1>11 DEF CallFailsTerminally, End, TerminalError
  <2>3. AttemptsInOrder' /\ RetryBudget' /\ NothingAfterTerminal' /\ FailoverIsImmediate'
    BY <2>1, <2>2, RecordKeeps
  <2>4. CommitMatchesWinner'
    <3>1. attempts'[Len(attempts')].error = class
      BY <1>0, <2>1, <2>2, RecordFacts DEF HasCurrent
    <3> QED BY <1>0, <2>2, <3>1, NotAnswered DEF TypeOK, ErrorClass, None
  <2> QED BY <1>0, <2>2, <2>3, <2>4, EndKeeps DEF IInv
<1>12. CASE CallRaises
  BY <1>0, <1>12, AbortKeeps DEF CallRaises, End
<1>13. CASE BackoffElapses
  <2>1. /\ link = "backoff" /\ Calling /\ link # "done"
        /\ turn' = turn /\ attempts' = attempts
    BY <1>13 DEF BackoffElapses, Calling
  <2>2. /\ TriedHere(attempts') /\ Recoverable(attempts')
        /\ Len(attempts') > 0 => attempts'[Len(attempts')].error # None
    <3>1. Len(attempts) > 0 => attempts[Len(attempts)] \in Attempt
      BY <1>0, ElementOfSeq DEF TypeOK
    <3>2. Recoverable(attempts)
      BY <2>1, <3>1 DEF IInv, LastAllowsMore, Recoverable, Attempt, ErrorClass
    <3>3. TriedHere(attempts)
      BY <2>1 DEF IInv, TrailBehind, TriedHere
    <3> QED BY <2>1, <3>2, <3>3 DEF Recoverable, None, TriedHere
  <2>3. CASE attempt < MaxAttempts
    <3>1. /\ attempt' = attempt + 1 /\ link' = "invoke" /\ candidates' = candidates
          /\ credentials' = credentials /\ key' = key
          /\ reservation' = reservation /\ result' = result
      BY <1>13, <2>3 DEF BackoffElapses
    <3>2. /\ Here' = Here /\ Current' = Current
          /\ Resolved(Current)' = Resolved(Current)
          /\ \A p : Position(p)' = Position(p)
      BY <2>1, <3>1 DEF Here, Current, Resolved, Position
    <3>3. SuffixLeft' /\ TrailBehind'
      BY <2>1, <3>1, <3>2 DEF IInv, SuffixLeft, TrailBehind, Calling
    <3>4. BudgetLeft'
      <4>1. attempt \in Nat /\ attempt' - 1 = attempt
        BY <1>0, <3>1, BudgetAssumption DEF TypeOK
      <4> QED BY <2>1, <3>1, <3>2, <4>1 DEF IInv, BudgetLeft, Calling
    <3>5. LastAllowsMore'
      BY <2>2 DEF LastAllowsMore, Recoverable, None
    <3>6. ReuseIsJustified'
      BY <2>1, <3>1, <3>2 DEF IInv, ReuseIsJustified
    <3>7. ScratchIsCurrent' /\ PendingUntilDone' /\ result' # "answered"
      BY <2>1, <3>1, <3>2 DEF IInv, ScratchIsCurrent, PendingUntilDone, Calling
    <3>8. CommitMatchesWinner'
      BY <1>0, <2>2, <3>7, NotAnswered DEF TypeOK
    <3> QED
      BY <1>0, <2>1, <3>3, <3>4, <3>5, <3>6, <3>7, <3>8, TrailUnchanged DEF IInv
  <2>4. CASE ~(attempt < MaxAttempts)
    <3>1. LeaveKey
      BY <1>13, <2>4 DEF BackoffElapses
    <3>2. /\ SuffixLeft' /\ TrailBehind' /\ BudgetLeft' /\ LastAllowsMore'
          /\ ReuseIsJustified' /\ ScratchIsCurrent' /\ PendingUntilDone'
          /\ result' # "answered"
      BY <1>0, <2>1, <2>2, <3>1, LeaveKeyKeeps DEF IInv, HasCurrent, TypeOK
    <3>3. CommitMatchesWinner'
      BY <1>0, <2>2, <3>2, NotAnswered DEF TypeOK
    <3> QED BY <1>0, <2>1, <3>2, <3>3, TrailUnchanged DEF IInv
  <2> QED BY <2>3, <2>4
<1>14. CASE Cancel
  BY <1>0, <1>14, AbortKeeps DEF Cancel, End
<1>15. CASE UNCHANGED vars
  <2>1. turn' = turn /\ attempts' = attempts
    BY <1>15 DEF vars
  <2>2. /\ SuffixLeft' /\ TrailBehind' /\ BudgetLeft' /\ LastAllowsMore'
        /\ ReuseIsJustified' /\ ScratchIsCurrent' /\ PendingUntilDone'
        /\ CommitMatchesWinner'
    BY <1>15
    DEF vars, IInv, SuffixLeft, TrailBehind, BudgetLeft, LastAllowsMore,
        ReuseIsJustified, ScratchIsCurrent, PendingUntilDone, CommitMatchesWinner,
        Here, Calling, Position, Current, Resolved
  <2> QED BY <1>0, <2>1, <2>2, TrailUnchanged DEF IInv
<1> QED
  BY <1>1, <1>2, <1>3, <1>4, <1>5, <1>6, <1>7, <1>8, <1>9, <1>10, <1>11, <1>12,
     <1>13, <1>14, <1>15 DEF Next, Step

LEMMA Invariance == Spec => []IInv
BY IInvInit, IInvStep, PTL DEF Spec

(* Whatever the vendors answer, the audit trail of a turn walks the route, and  *)
(* the keys within a provider, front to back (the pop(0) of the chain, the for  *)
(* loops of the invocation handler).                                            *)
THEOREM OrderCorrect == Spec => []AttemptsInOrder
BY Invariance, PTL DEF IInv

(* Transient failures and waited-out rate limits share one budget of            *)
(* max_attempts calls per key.                                                  *)
THEOREM BudgetCorrect == Spec => []RetryBudget
BY Invariance, PTL DEF IInv

(* No call follows a success or a terminal failure, and after an auth failure   *)
(* only the next pooled key is called.                                          *)
THEOREM TerminalCorrect == Spec => []NothingAfterTerminal
BY Invariance, PTL DEF IInv

(* A rate-limited key is called again only when there is nowhere else to go.    *)
THEOREM FailoverCorrect == Spec => []FailoverIsImmediate
BY Invariance, PTL DEF IInv

(* The reservation committed is the one made for the provider that answered.    *)
THEOREM CommitCorrect == Spec => []CommitMatchesWinner
BY Invariance, PTL DEF IInv

LEMMA ReserveStep ==
    IInv /\ [Next]_vars =>
        (reservation' # reservation => None \in {reservation, reservation'})
<1> SUFFICES ASSUME IInv, [Next]_vars, reservation' # reservation
             PROVE  None \in {reservation, reservation'}
  OBVIOUS
<1>1. CASE QuotaGrants
  BY <1>1 DEF QuotaGrants, IInv, ScratchIsCurrent
<1>2. ASSUME LeaveKey \/ FallBack PROVE reservation' = None
  BY <1>2 DEF LeaveKey, FallBack
<1>3. CASE QuotaDeniesFallsBack
  BY <1>2, <1>3 DEF QuotaDeniesFallsBack
<1>4. CASE CallFailsMovesOn
  BY <1>2, <1>4 DEF CallFailsMovesOn
<1>5. CASE BackoffElapses
  BY <1>2, <1>5 DEF BackoffElapses
<1>6. ~(PerimeterAdmits \/ PerimeterRejects \/ ResolveCredentials \/ NoCredential
        \/ QuotaDeniesHandsOff \/ CallSucceeds \/ CallFailsWaits
        \/ CallFailsTerminally \/ CallRaises \/ Cancel \/ UNCHANGED vars)
  BY DEF PerimeterAdmits, PerimeterRejects, ResolveCredentials, NoCredential,
         QuotaDeniesHandsOff, CallSucceeds, CallFailsWaits, CallFailsTerminally,
         CallRaises, Cancel, vars
<1> QED BY <1>1, <1>3, <1>4, <1>5, <1>6 DEF Next, Step

(* A turn lets go of one reservation before it makes the next: the quota        *)
(* manager sees at most one open reservation per turn.                          *)
THEOREM ReservationsDisjoint == Spec => ReserveOnlyWhenFree
BY Invariance, ReserveStep, PTL DEF Spec, ReserveOnlyWhenFree

-------------------------------------------------------------------------------
(* Coverage *)

(* The i-th provider of the route was not passed over.                          *)
Settled(i) ==
    \/ Attempted(turn.route[i]) = 1..Resolved(turn.route[i])
    \/ /\ Attempted(turn.route[i]) = {}
       /\ turn.zeroSetup
       /\ \E j \in (i + 1)..Len(turn.route) : turn.route[j] \in FreeTier

(* Every provider behind the turn is settled, and of the current one every key  *)
(* before the one in use was called, that one too once it is backed off from.   *)
Covered ==
    /\ \A i \in 1..(Here - 1) : Settled(i)
    /\ Calling => \A k \in 1..(key - 1) : k \in Attempted(Current)
    /\ link = "backoff" => key \in Attempted(Current)
    /\ result = "AllProvidersExhausted" => Len(candidates) = 0

LEMMA AttemptedStays ==
    ASSUME attempts' = attempts, NEW p
    PROVE  Attempted(p)' = Attempted(p)
BY DEF Attempted

LEMMA AttemptedRecord ==
    ASSUME TypeOK, Len(candidates) > 0, NEW e \in ErrorClass \union {None}, Record(e),
           NEW p
    PROVE  Attempted(p)' = IF p = Current THEN Attempted(p) \union {key} ELSE Attempted(p)
<1> DEFINE n == Len(attempts)
<1>1. /\ n \in Nat /\ Len(attempts') = n + 1
      /\ \A i \in 1..n : attempts'[i] = attempts[i]
      /\ attempts'[n + 1].provider = Current /\ attempts'[n + 1].key = key
  BY RecordFacts
<1>2. key \in 1..MaxKeys
  BY DEF TypeOK
<1>3. ASSUME NEW k \in 1..MaxKeys
      PROVE  (\E i \in 1..(n + 1) : attempts'[i].provider = p /\ attempts'[i].key = k)
             <=> \/ \E i \in 1..n : attempts[i].provider = p /\ attempts[i].key = k
                 \/ p = Current /\ k = key
  <2>1. ASSUME NEW i \in 1..(n + 1), i \notin 1..n PROVE i = n + 1
    BY <1>1, <2>1
  <2>2. 1..n \subseteq 1..(n + 1) /\ n + 1 \in 1..(n + 1)
    BY <1>1
  <2> QED BY <1>1, <2>1, <2>2
<1> QED BY <1>1, <1>2, <1>3 DEF Attempted

LEMMA SettledKept ==
    ASSUME turn' = turn, NEW i, Attempted(turn.route[i])' = Attempted(turn.route[i]),
           Settled(i)
    PROVE  Settled(i)'
BY DEF Settled, Resolved

LEMMA FallBackCovers ==
    ASSUME IInv, turn' = turn, link # "done", FallBack,
           NEW h, h = Here, \A i \in 1..(h - 1) : Settled(i)', Settled(h)'
    PROVE  Covered'
<1>1. Len(candidates) > 0 /\ result = "pending"
  BY DEF IInv, HasCurrent, PendingUntilDone
<1>2. Len(candidates') = Len(candidates) - 1 /\ Len(candidates) \in Nat
  BY <1>1, EmptySeq, HeadTailProperties DEF IInv, TypeOK, FallBack
<1>3. h \in Nat /\ Len(turn.route) \in Nat
  BY <1>1, CurrentHere DEF IInv
<1>4. Here' - 1 = h
  BY <1>2, <1>3 DEF Here
<1>5. \A i \in 1..h : Settled(i)'
  BY <1>3
<1>6. link' \in {"done", "perimeter"}
  BY DEF FallBack, End
<1>7. result' = "AllProvidersExhausted" => Len(candidates') = 0
  BY <1>1, <1>2 DEF FallBack
<1> QED BY <1>4, <1>5, <1>6, <1>7 DEF Covered, Calling

LEMMA LeaveKeyCovers ==
    ASSUME IInv, turn' = turn, Calling, LeaveKey, TriedHere(attempts'),
           \A i \in 1..(Here - 1) : Settled(i)',
           NEW p, p = Current, \A k \in 1..key : k \in Attempted(p)'
    PROVE  Covered'
<1>1. link # "done" /\ Len(candidates) > 0 /\ result = "pending"
  BY DEF IInv, HasCurrent, Calling, PendingUntilDone
<1>2. key \in Nat /\ key <= credentials /\ credentials = Resolved(p) /\ credentials \in 0..MaxKeys
  BY BudgetAssumption DEF IInv, TypeOK, ScratchIsCurrent
<1>3. CASE HasMoreCredentials
  <2>1. /\ candidates' = candidates /\ key' = key + 1 /\ link' = "invoke" /\ result' = result
    BY <1>3 DEF LeaveKey
  <2>2. Here' = Here /\ Current' = p /\ key' - 1 = key
    BY <1>2, <2>1 DEF Here, Current
  <2>3. \A i \in 1..(Here' - 1) : Settled(i)'
    BY <2>2
  <2>4. \A k \in 1..(key' - 1) : k \in Attempted(Current)'
    BY <2>2 DEF Attempted
  <2> QED BY <1>1, <2>1, <2>3, <2>4 DEF Covered
<1>4. CASE ~HasMoreCredentials
  <2>1. key = Resolved(p)
    BY <1>2, <1>4 DEF HasMoreCredentials
  <2>2. Position(p) = Here /\ Here \in Nat /\ turn.route[Here] = p
    BY <1>1, CurrentHere DEF IInv
  <2>3. \A k \in Attempted(p)' : k \in 1..key
    <3> SUFFICES ASSUME NEW k \in 1..MaxKeys, NEW i \in 1..Len(attempts'),
                        attempts'[i].provider = p, attempts'[i].key = k
                 PROVE  k <= key
      BY <1>2, BudgetAssumption DEF Attempted
    <3> QED BY <2>2 DEF TriedHere
  <2>4. Attempted(p)' = 1..Resolved(p)
    BY <2>1, <2>3
  <2>5. PICK h : h = Here
    OBVIOUS
  <2>6. Settled(h)'
    BY <2>2, <2>4, <2>5 DEF Settled, Resolved
  <2> QED BY <1>1, <1>4, <2>5, <2>6, FallBackCovers DEF LeaveKey
<1> QED BY <1>3, <1>4

LEMMA CoveredInit == Init => Covered
<1> SUFFICES ASSUME Init PROVE Covered
  OBVIOUS
<1>1. candidates = turn.route /\ Len(candidates) \in Nat
  BY TypeInit DEF Init, TypeOK
<1>2. Here - 1 = 0
  BY <1>1 DEF Here
<1>3. result = "AllProvidersExhausted" => Len(candidates) = 0
  BY <1>1, EmptySeq DEF Init
<1> QED BY <1>2, <1>3 DEF Covered, Calling, Init

(* A step that stays with the candidate and the key.                            *)
LEMMA StayCovers ==
    ASSUME IInv, Covered, turn' = turn, candidates' = candidates, attempts' = attempts,
           key' = key, result' # "AllProvidersExhausted",
           \/ link' \in {"done", "perimeter", "credential", "quota"}
           \/ link' = "invoke" /\ (Calling \/ key = 1)
    PROVE  Covered'
<1>1. Here' = Here /\ \A p : Attempted(p)' = Attempted(p)
  BY AttemptedStays DEF Here
<1>2. \A i \in 1..(Here' - 1) : Settled(i)'
  BY <1>1, SettledKept DEF Covered
<1>3. Calling' => \A k \in 1..(key' - 1) : k \in Attempted(Current)'
  BY <1>1 DEF Covered, Calling, Current, Attempted
<1> QED BY <1>2, <1>3 DEF Covered

LEMMA CoveredStep == IInv /\ IInv' /\ Covered /\ [Next]_vars => Covered'
<1> SUFFICES ASSUME IInv, IInv', Covered, [Next]_vars PROVE Covered'
  OBVIOUS
<1>0. PICK p : p = Current
  OBVIOUS
<1>2. CASE UNCHANGED vars
  BY <1>2, SettledKept
  DEF vars, Covered, Settled, Here, Calling, Attempted, Current, Resolved
<1>3. CASE PerimeterAdmits \/ PerimeterRejects \/ ResolveCredentials \/ NoCredential
           \/ QuotaDeniesHandsOff \/ CallRaises \/ Cancel
  <2>1. /\ turn' = turn /\ candidates' = candidates /\ attempts' = attempts /\ key' = key
        /\ link # "done" /\ link' \in {"done", "perimeter", "credential", "quota"}
    BY <1>3
    DEF PerimeterAdmits, PerimeterRejects, ResolveCredentials, NoCredential,
        QuotaDeniesHandsOff, CallRaises, Cancel, End
  <2>2. result' = result \/ result' # "AllProvidersExhausted"
    BY <1>3
    DEF PerimeterAdmits, PerimeterRejects, ResolveCredentials, NoCredential,
        QuotaDeniesHandsOff, HandoffStatus, CallRaises, Cancel, End
  <2> QED BY <2>1, <2>2, StayCovers DEF IInv, PendingUntilDone
<1>4. CASE QuotaGrants
  BY <1>4, StayCovers DEF QuotaGrants, IInv, ScratchIsCurrent, PendingUntilDone
<1>5. CASE QuotaDeniesFallsBack
  <2>1. /\ turn' = turn /\ attempts' = attempts /\ link = "quota" /\ FallBack
        /\ turn.zeroSetup /\ CheaperFreeRemaining
    BY <1>5 DEF QuotaDeniesFallsBack
  <2>2. PICK h : h = Here
    OBVIOUS
  <2>3. \A i \in 1..(h - 1) : Settled(i)'
    BY <2>1, <2>2, SettledKept, AttemptedStays DEF Covered
  <2>4. /\ h \in Nat /\ turn.route[h] = p /\ Position(p) = h
        /\ Len(turn.route) \in Nat /\ Len(candidates) \in Nat
    BY <1>0, <2>1, <2>2, CurrentHere DEF IInv, HasCurrent
  <2>5. Attempted(p) = {}
    BY <2>1, <2>2, <2>4 DEF Attempted, IInv, TrailBehind, Calling
  <2>6. \E j \in (h + 1)..Len(turn.route) : turn.route[j] \in FreeTier
    <3>1. PICK i \in 2..Len(candidates) : candidates[i] \in FreeTier
      BY <2>1 DEF CheaperFreeRemaining
    <3>2. i \in 1..Len(candidates) /\ h - 1 + i \in (h + 1)..Len(turn.route)
      BY <2>2, <2>4, <3>1 DEF Here, IInv, SuffixLeft
    <3>3. turn.route[h - 1 + i] = candidates[i]
      BY <2>2, <3>2 DEF IInv, SuffixLeft
    <3> QED BY <3>1, <3>2, <3>3
  <2>7. Settled(h)
    BY <2>1, <2>4, <2>5, <2>6 DEF Settled
  <2>8. Settled(h)'
    BY <2>1, <2>7, SettledKept, AttemptedStays
  <2> QED BY <2>1, <2>2, <2>3, <2>8, FallBackCovers
<1>6. ASSUME link = "invoke", turn' = turn, NEW e \in ErrorClass \union {None}, Record(e)
      PROVE  /\ \A i \in 1..(Here - 1) : Settled(i)'
             /\ \A k \in 1..key : k \in Attempted(p)'
             /\ TriedHere(attempts')
  <2>1. TypeOK /\ SuffixLeft /\ Len(candidates) > 0
    BY <1>6 DEF IInv, HasCurrent
  <2>2. /\ Here \in Nat /\ Position(Current) = Here
        /\ Here \in 1..Len(turn.route) /\ Len(turn.route) \in Nat
    BY <2>1, CurrentHere
  <2>3. ASSUME NEW i \in 1..(Here - 1) PROVE Settled(i)'
    <3>1. turn.route[i] # Current
      <4>1. i \in 1..Len(turn.route) /\ turn.route \in Routes
        BY <2>1, <2>2 DEF TypeOK, Turn
      <4>2. Position(turn.route[i]) = i
        BY <4>1, IndexUnique DEF Position
      <4> QED BY <2>2, <4>2
    <3>2. Attempted(turn.route[i])' = Attempted(turn.route[i])
      BY <1>6, <2>1, <3>1, AttemptedRecord
    <3> QED BY <1>6, <3>2, SettledKept DEF Covered
  <2>4. ASSUME NEW k \in 1..key PROVE k \in Attempted(p)'
    <3>1. Attempted(p)' = Attempted(p) \union {key}
      BY <1>0, <1>6, <2>1, AttemptedRecord
    <3>2. key \in Nat
      BY <2>1, BudgetAssumption DEF TypeOK
    <3>3. k = key \/ k \in 1..(key - 1)
      BY <3>2
    <3> QED BY <1>0, <1>6, <3>1, <3>3 DEF Covered, Calling
  <2>5. TriedHere(attempts')
    BY <1>6, RecordKeeps
  <2> QED BY <2>3, <2>4, <2>5
<1>7. CASE CallSucceeds \/ CallFailsTerminally \/ CallFailsWaits
  <2>1. /\ link = "invoke" /\ turn' = turn /\ candidates' = candidates /\ key' = key
        /\ \E e \in ErrorClass \union {None} : Record(e)
        /\ link' \in {"done", "backoff"}
    BY <1>7 DEF CallSucceeds, CallFailsTerminally, CallFailsWaits, End
  <2>2. result' # "AllProvidersExhausted"
    BY <1>7
    DEF CallSucceeds, CallFailsTerminally, CallFailsWaits, End, TerminalError, IInv,
        PendingUntilDone
  <2>3. /\ \A i \in 1..(Here - 1) : Settled(i)'
        /\ \A k \in 1..key : k \in Attempted(p)'
    BY <1>6, <2>1
  <2>4. Here' = Here /\ Current' = p
    BY <1>0, <2>1 DEF Here, Current
  <2>5. key \in Nat /\ key >= 1
    BY BudgetAssumption DEF IInv, TypeOK
  <2>6. \A k \in 1..key : k \in Attempted(Current)'
    BY <2>3, <2>4 DEF Attempted
  <2> QED BY <2>1, <2>2, <2>3, <2>4, <2>5, <2>6 DEF Covered
<1>8. CASE CallFailsMovesOn
  <2>1. /\ link = "invoke" /\ turn' = turn /\ LeaveKey
        /\ \E e \in ErrorClass \union {None} : Record(e)
    BY <1>8 DEF CallFailsMovesOn
  <2>2. /\ \A i \in 1..(Here - 1) : Settled(i)'
        /\ \A k \in 1..key : k \in Attempted(p)'
        /\ TriedHere(attempts')
    BY <1>6, <2>1
  <2> QED BY <1>0, <2>1, <2>2, LeaveKeyCovers DEF Calling
<1>9. CASE BackoffElapses
  <2>1. /\ link = "backoff" /\ Calling /\ link # "done"
        /\ turn' = turn /\ attempts' = attempts
    BY <1>9 DEF BackoffElapses, Calling
  <2>2. CASE attempt < MaxAttempts
    BY <1>9, <2>1, <2>2, StayCovers DEF BackoffElapses, IInv, PendingUntilDone
  <2>3. CASE ~(attempt < MaxAttempts)
    <3>1. LeaveKey
      BY <1>9, <2>3 DEF BackoffElapses
    <3>2. TriedHere(attempts')
      BY <2>1 DEF IInv, TrailBehind, TriedHere
    <3>3. \A i \in 1..(Here - 1) : Settled(i)'
      BY <2>1, SettledKept, AttemptedStays DEF Covered
    <3>4. ASSUME NEW k \in 1..key PROVE k \in Attempted(p)'
      <4>1. k = key \/ k \in 1..(key - 1)
        BY BudgetAssumption DEF IInv, TypeOK
      <4>2. k \in Attempted(p)
        BY <1>0, <2>1, <4>1 DEF Covered
      <4> QED BY <2>1, <4>2, AttemptedStays
    <3> QED BY <1>0, <2>1, <3>1, <3>2, <3>3, <3>4, LeaveKeyCovers
  <2> QED BY <2>2, <2>3
<1> QED
  BY <1>2, <1>3, <1>4, <1>5, <1>7, <1>8, <1>9 DEF Next, Step

LEMMA Coverage == Spec => [](IInv /\ Covered)
BY IInvInit, IInvStep, CoveredInit, CoveredStep, PTL DEF Spec

(* A turn is reported exhausted only when every key of every candidate has been *)
(* called, except a zero-setup tenant's candidates it had no quota for while a  *)
(* free one was still to come.                                                  *)
THEOREM ExhaustionCorrect == Spec => []ExhaustionIsThorough
<1>1. IInv /\ Covered => ExhaustionIsThorough
  <2> SUFFICES ASSUME IInv, Covered, result = "AllProvidersExhausted",
                      NEW i \in 1..Len(turn.route)
               PROVE  Settled(i)
    BY DEF ExhaustionIsThorough, Settled
  <2>1. turn.route \in Seq(Providers)
    BY RouteAssumption DEF IInv, TypeOK, Turn
  <2>2. Here - 1 = Len(turn.route)
    BY <2>1 DEF Covered, Here
  <2> QED BY <2>2 DEF Covered
<1> QED BY <1>1, Coverage, PTL

-------------------------------------------------------------------------------
(* The walk of Failover *)

(* The slots called so far, as Walk sees them.                                  *)
Visited == {<<Position(attempts[i].provider), attempts[i].key>> : i \in 1..Len(attempts)}

Pools == [i \in 1..Len(turn.route) |-> Resolved(turn.route[i])]

Outcome ==
    IF result \in {"pending", "answered"} THEN result
    ELSE IF result = "AllProvidersExhausted" THEN "exhausted"
    ELSE "aborted"

LEMMA RouteTypes ==
    ASSUME turn \in Turn
    PROVE  /\ turn.route \in Routes /\ Len(turn.route) \in Nat
           /\ \A i \in 1..Len(turn.route) :
                /\ turn.route[i] \in Providers
                /\ Resolved(turn.route[i]) \in 0..MaxKeys
<1>1. turn.route \in Routes /\ turn.route \in Seq(Providers)
  BY RouteAssumption DEF Turn
<1>2. Len(turn.route) \in Nat /\ \A i \in 1..Len(turn.route) : turn.route[i] \in Providers
  BY <1>1
<1> QED BY <1>1, <1>2, ResolvedType

LEMMA WalkInit == Init => Walk!Init
<1> SUFFICES ASSUME Init PROVE Walk!Init
  OBVIOUS
<1>1. /\ Len(turn.route) \in Nat /\ turn.route \in Seq(Providers)
      /\ \A i \in 1..Len(turn.route) : Resolved(turn.route[i]) \in Nat
  BY RouteTypes, RouteAssumption, BudgetAssumption DEF Init, Turn
<1>2. Pools \in Seq(Nat)
  BY <1>1 DEF Pools
<1>3. Pools = <<>> <=> turn.route = <<>>
  <2>1. Len(Pools) = Len(turn.route)
    BY <1>1, <1>2 DEF Pools
  <2> QED BY <1>1, <1>2, <2>1, EmptySeq
<1>4. <<Len(turn.route) - Len(candidates) + 1, key>> = <<1, 1>>
  BY <1>1 DEF Init
<1>5. Visited = {}
  BY DEF Init, Visited
<1>6. Outcome = IF Pools = <<>> THEN "exhausted" ELSE "pending"
  BY <1>3 DEF Init, Outcome
<1> QED BY <1>2, <1>4, <1>5, <1>6 DEF Walk!Init, Pools, Visited, Outcome

LEMMA WalkStutter ==
    ASSUME turn' = turn, candidates' = candidates, key' = key, attempts' = attempts,
           result' = result
    PROVE  UNCHANGED Walk!vars
BY DEF Walk!vars, Position, Resolved

(* A step of the turn that calls the current slot, or nobody, and then stays,   *)
(* ends, rotates to the next key or falls back, is a step of the walk.          *)
LEMMA WalkMoves ==
    ASSUME IInv, link # "done", turn' = turn, attempts' \in Seq(Attempt),
           Visited' \in {Visited, Visited \union {<<Here, key>>}},
           \/ /\ candidates' = candidates /\ key' = key
              /\ \/ result' = result
                 \/ result' = "answered" /\ <<Here, key>> \in Visited'
                 \/ result' \notin {"pending", "answered", "AllProvidersExhausted"}
           \/ /\ candidates' = candidates /\ key' = key + 1 /\ result' = result
              /\ key < Resolved(Current) /\ <<Here, key>> \in Visited'
           \/ /\ FallBack
              /\ \/ \A k \in 1..Resolved(Current) : <<Here, k>> \in Visited'
                 \/ \A k \in 1..Resolved(Current) : <<Here, k>> \notin Visited'
    PROVE  Walk!Next
<1>1. Len(candidates) > 0 /\ result = "pending"
  BY DEF IInv, HasCurrent, PendingUntilDone
<1>2. /\ Here \in 1..Len(turn.route) /\ Len(turn.route) \in Nat
      /\ turn.route[Here] = Current /\ Len(candidates) \in Nat
  BY <1>1, CurrentHere DEF IInv
<1>3. Pools[Here] = Resolved(Current) /\ Len(Pools) = Len(turn.route) /\ Pools' = Pools
  <2>1. Pools' = Pools
    BY DEF Pools, Resolved
  <2>2. Pools \in Seq(Nat)
    BY <1>2, RouteTypes, BudgetAssumption DEF IInv, TypeOK, Pools
  <2>3. Len(Pools) = Len(turn.route)
    BY <1>2, <2>2 DEF Pools
  <2> QED BY <1>2, <2>1, <2>3 DEF Pools
<1>4. Walk!Call
  BY DEF Walk!Call, Visited, Here
<1>5. Outcome = "pending" /\ UNCHANGED Pools
  BY <1>1, <1>3 DEF Outcome
<1>6. CASE candidates' = candidates /\ key' = key
  <2>1. CASE result' = result
    BY <1>4, <1>5, <1>6, <2>1 DEF Walk!Next, Walk!Stay, Outcome, Pools
  <2>2. CASE result' = "answered" /\ <<Here, key>> \in Visited'
    BY <1>4, <1>5, <1>6, <2>2 DEF Walk!Next, Walk!Answer, Outcome, Pools, Visited, Here
  <2>3. CASE result' \notin {"pending", "answered", "AllProvidersExhausted"}
    BY <1>4, <1>5, <1>6, <2>3 DEF Walk!Next, Walk!Abort, Outcome, Pools
  <2>4. key' # key + 1
    BY <1>6, BudgetAssumption DEF IInv, TypeOK
  <2>5. ~FallBack
    <3>1. FallBack => Len(candidates') = Len(candidates) - 1
      BY <1>1, EmptySeq, HeadTailProperties DEF IInv, TypeOK, FallBack
    <3> QED BY <1>2, <1>6, <3>1
  <2> QED BY <2>1, <2>2, <2>3, <2>4, <2>5
<1>7. CASE /\ candidates' = candidates /\ key' = key + 1 /\ result' = result
           /\ key < Resolved(Current) /\ <<Here, key>> \in Visited'
  <2>1. Walk!NextKey
    BY <1>3, <1>7 DEF Walk!NextKey, Pools, Visited, Here, Outcome
  <2> QED BY <1>4, <1>5, <2>1 DEF Walk!Next, Outcome, Pools
<1>8. CASE /\ FallBack
           /\ \/ \A k \in 1..Resolved(Current) : <<Here, k>> \in Visited'
              \/ \A k \in 1..Resolved(Current) : <<Here, k>> \notin Visited'
  <2>1. Len(candidates') = Len(candidates) - 1
    BY <1>1, <1>8, EmptySeq, HeadTailProperties DEF IInv, TypeOK, FallBack
  <2> DEFINE n == Len(turn.route)
             c == Len(candidates)
  <2>2. Here' = Here + 1 /\ key' = 1
    <3>1. n' = n /\ c' = c - 1 /\ n \in Nat /\ c \in Nat /\ Here = n - c + 1
      BY <1>2, <2>1 DEF Here
    <3>2. Here' = n' - c' + 1
      BY DEF Here
    <3>3. n - (c - 1) + 1 = n - c + 1 + 1
      BY <3>1
    <3> QED BY <1>8, <3>1, <3>2, <3>3 DEF FallBack
  <2>3. Here = n <=> c = 1
    <3>1. n \in Nat /\ c \in Nat /\ Here = n - c + 1
      BY <1>2 DEF Here
    <3> HIDE DEF n, c
    <3> QED BY <3>1
  <2>4. Outcome' = IF Here = Len(Pools) THEN "exhausted" ELSE Outcome
    BY <1>1, <1>3, <1>8, <2>3 DEF Outcome, FallBack, End
  <2>5. {<<Here, k>> : k \in 1..Pools[Here]} \subseteq Visited'
        \/ {<<Here, k>> : k \in 1..Pools[Here]} \intersect Visited' = {}
    BY <1>3, <1>8
  <2>6. Walk!NextProvider
    BY <2>2, <2>4, <2>5 DEF Walk!NextProvider, Walk!Slots, Pools, Visited, Here, Outcome
  <2> QED BY <1>4, <1>5, <2>6 DEF Walk!Next, Outcome, Pools
<1> QED BY <1>6, <1>7, <1>8

LEMMA VisitedRecord ==
    ASSUME TypeOK, SuffixLeft, Len(candidates) > 0, turn' = turn,
           NEW e \in ErrorClass \union {None}, Record(e)
    PROVE  Visited' = Visited \union {<<Here, key>>}
<1> DEFINE n == Len(attempts)
<1>1. /\ n \in Nat /\ Len(attempts') = n + 1
      /\ \A i \in 1..n : attempts'[i] = attempts[i]
      /\ attempts'[n + 1].provider = Current /\ attempts'[n + 1].key = key
  BY RecordFacts
<1>2. Position(Current) = Here /\ \A p : Position(p)' = Position(p)
  BY CurrentHere DEF Position
<1>3. 1..(n + 1) = 1..n \union {n + 1}
  BY <1>1
<1>4. Visited' = {<<Position(attempts'[i].provider), attempts'[i].key>> : i \in 1..(n + 1)}
  BY <1>1, <1>2 DEF Visited, Position
<1>5. /\ <<Position(attempts'[n + 1].provider), attempts'[n + 1].key>> = <<Here, key>>
      /\ \A i \in 1..n : <<Position(attempts'[i].provider), attempts'[i].key>>
                          = <<Position(attempts[i].provider), attempts[i].key>>
  BY <1>1, <1>2
<1> QED BY <1>3, <1>4, <1>5 DEF Visited

LEMMA VisitedStays ==
    ASSUME turn' = turn, attempts' = attempts
    PROVE  Visited' = Visited
BY DEF Visited, Position

LEMMA VisitedKey ==
    ASSUME TypeOK, SuffixLeft, Len(candidates) > 0, NEW k \in Attempted(Current)
    PROVE  <<Here, k>> \in Visited
BY CurrentHere DEF Attempted, Visited

(* Leaving a key or, after its last one, a provider.                            *)
LEMMA WalkLeaves ==
    ASSUME IInv, Covered, Calling, turn' = turn, attempts' \in Seq(Attempt),
           Visited' \in {Visited, Visited \union {<<Here, key>>}},
           <<Here, key>> \in Visited', LeaveKey
    PROVE  Walk!Next
<1>1. link # "done" /\ TypeOK /\ SuffixLeft /\ Len(candidates) > 0
  BY DEF IInv, HasCurrent, Calling
<1>2. credentials = Resolved(Current) /\ key <= credentials /\ key \in Nat /\ credentials \in Nat
  BY BudgetAssumption DEF IInv, TypeOK, ScratchIsCurrent
<1>3. CASE HasMoreCredentials
  BY <1>1, <1>2, <1>3, WalkMoves DEF LeaveKey, HasMoreCredentials
<1>4. CASE ~HasMoreCredentials
  <2>1. key = Resolved(Current)
    BY <1>2, <1>4 DEF HasMoreCredentials
  <2>2. ASSUME NEW k \in 1..Resolved(Current) PROVE <<Here, k>> \in Visited'
    <3>1. k = key \/ k \in 1..(key - 1)
      BY <1>2, <2>1
    <3>2. k \in 1..(key - 1) => <<Here, k>> \in Visited
      BY <1>1, VisitedKey DEF Covered
    <3> QED BY <3>1, <3>2
  <2> QED BY <1>1, <1>4, <2>2, WalkMoves DEF LeaveKey
<1> QED BY <1>3, <1>4

LEMMA WalkStep == IInv /\ IInv' /\ Covered /\ [Next]_vars => [Walk!Next]_(Walk!vars)
<1> SUFFICES ASSUME IInv, IInv', Covered, [Next]_vars
             PROVE  Walk!Next \/ UNCHANGED Walk!vars
  OBVIOUS
<1>1. attempts' \in Seq(Attempt)
  BY DEF IInv, TypeOK
<1>2. CASE UNCHANGED vars \/ PerimeterAdmits \/ ResolveCredentials \/ QuotaGrants
  BY <1>2, WalkStutter DEF vars, PerimeterAdmits, ResolveCredentials, QuotaGrants
<1>3. CASE PerimeterRejects \/ NoCredential \/ QuotaDeniesHandsOff \/ CallRaises \/ Cancel
  <2>1. /\ turn' = turn /\ candidates' = candidates /\ attempts' = attempts /\ key' = key
        /\ link # "done"
        /\ result' \notin {"pending", "answered", "AllProvidersExhausted"}
    BY <1>3
    DEF PerimeterRejects, NoCredential, QuotaDeniesHandsOff, HandoffStatus, CallRaises,
        Cancel, End
  <2> QED BY <1>1, <2>1, VisitedStays, WalkMoves
<1>4. CASE QuotaDeniesFallsBack
  <2>1. link = "quota" /\ FallBack /\ turn' = turn /\ attempts' = attempts
    BY <1>4 DEF QuotaDeniesFallsBack
  <2>2. \A k \in 1..Resolved(Current) : <<Here, k>> \notin Visited'
    <3>1. Here \in Nat
      BY <2>1, CurrentHere DEF IInv, HasCurrent
    <3>2. \A i \in 1..Len(attempts) : Position(attempts[i].provider) # Here
      BY <2>1, <3>1 DEF IInv, TrailBehind, Calling
    <3> QED BY <2>1, <3>2, VisitedStays DEF Visited
  <2> QED BY <1>1, <2>1, <2>2, VisitedStays, WalkMoves
<1>5. ASSUME link = "invoke", turn' = turn, NEW e \in ErrorClass \union {None}, Record(e)
      PROVE  Visited' = Visited \union {<<Here, key>>}
  BY <1>5, VisitedRecord DEF IInv, HasCurrent
<1>6. CASE CallSucceeds \/ CallFailsWaits \/ CallFailsTerminally
  <2>1. /\ link = "invoke" /\ turn' = turn /\ candidates' = candidates /\ key' = key
        /\ \E e \in ErrorClass \union {None} : Record(e)
        /\ \/ result' = result
           \/ result' = "answered"
           \/ result' \notin {"pending", "answered", "AllProvidersExhausted"}
    BY <1>6 DEF CallSucceeds, CallFailsWaits, CallFailsTerminally, TerminalError, End
  <2>2. Visited' = Visited \union {<<Here, key>>}
    BY <1>5, <2>1
  <2> QED BY <1>1, <2>1, <2>2, WalkMoves
<1>7. CASE CallFailsMovesOn
  <2>1. /\ link = "invoke" /\ turn' = turn /\ LeaveKey
        /\ \E e \in ErrorClass \union {None} : Record(e)
    BY <1>7 DEF CallFailsMovesOn
  <2>2. Visited' = Visited \union {<<Here, key>>}
    BY <1>5, <2>1
  <2> QED BY <1>1, <2>1, <2>2, WalkLeaves DEF Calling
<1>8. CASE BackoffElapses
  <2>1. link = "backoff" /\ turn' = turn /\ attempts' = attempts
    BY <1>8 DEF BackoffElapses
  <2>2. CASE attempt < MaxAttempts
    BY <1>8, <2>1, <2>2, WalkStutter DEF BackoffElapses
  <2>3. CASE ~(attempt < MaxAttempts)
    <3>1. LeaveKey
      BY <1>8, <2>3 DEF BackoffElapses
    <3>2. <<Here, key>> \in Visited
      BY <2>1, VisitedKey DEF Covered, IInv, HasCurrent
    <3> QED BY <1>1, <2>1, <3>1, <3>2, VisitedStays, WalkLeaves DEF Calling
  <2> QED BY <2>2, <2>3
<1> QED BY <1>2, <1>3, <1>4, <1>6, <1>7, <1>8 DEF Next, Step

(* The handlers of the chain implement the walk of Failover: slots in route     *)
(* order, no key passed over, an answer only from the slot being visited, and   *)
(* exhaustion only past the last provider.                                      *)
THEOREM Refinement == Spec => WalksInOrder
<1>1. Init => Walk!Init
  BY WalkInit
<1>2. IInv /\ IInv' /\ Covered /\ [Next]_vars => [Walk!Next]_(Walk!vars)
  BY WalkStep
<1> QED BY <1>1, <1>2, Coverage, PTL DEF Spec, WalksInOrder, Walk!Spec

-------------------------------------------------------------------------------
(* Keys *)

(* A call is made with a key its provider resolved to.                          *)
KeysResolved ==
    \A i \in 1..Len(attempts) :
        attempts[i].key \in 1..Resolved(attempts[i].provider)

(* A provider the turn left had a key.                                          *)
LeftWithKeys == \A i \in 1..(Here - 1) : Resolved(turn.route[i]) > 0

(* A turn that ends for want of a key, or of a good one, ends at a provider of  *)
(* the route.                                                                   *)
RefusalExplained ==
    result = "AuthenticationError" =>
      /\ Len(candidates) > 0
      /\ \/ Resolved(Current) = 0
         \/ /\ attempts # <<>>
            /\ Last(attempts).provider = Current /\ Last(attempts).error = "auth"

KInv == KeysResolved /\ LeftWithKeys /\ RefusalExplained

LEMMA KInvInit == Init => KInv
<1> SUFFICES ASSUME Init PROVE KInv
  OBVIOUS
<1>1. candidates = turn.route /\ Len(candidates) \in Nat
  BY TypeInit DEF Init, TypeOK
<1>2. Here - 1 = 0
  BY <1>1 DEF Here
<1>3. Len(attempts) = 0 /\ result # "AuthenticationError"
  BY DEF Init
<1> QED BY <1>2, <1>3 DEF KInv, KeysResolved, LeftWithKeys, RefusalExplained

(* Dropping the current candidate leaves one behind that had a key.             *)
LEMMA FallBackLeaves ==
    ASSUME IInv, LeftWithKeys, turn' = turn, link # "done", FallBack,
           Resolved(Current) > 0
    PROVE  LeftWithKeys' /\ RefusalExplained'
<1>1. Len(candidates) > 0 /\ result = "pending"
  BY DEF IInv, HasCurrent, PendingUntilDone
<1>2. Len(candidates') = Len(candidates) - 1 /\ Len(candidates) \in Nat
  BY <1>1, EmptySeq, HeadTailProperties DEF IInv, TypeOK, FallBack
<1>3. Here \in Nat /\ turn.route[Here] = Current /\ Len(turn.route) \in Nat
  BY <1>1, CurrentHere DEF IInv
<1>4. Here' - 1 = Here
  BY <1>2, <1>3 DEF Here
<1>5. \A i \in 1..Here : Resolved(turn.route[i]) > 0
  BY <1>3 DEF LeftWithKeys
<1>6. LeftWithKeys'
  BY <1>4, <1>5 DEF LeftWithKeys, Resolved
<1>7. result' # "AuthenticationError"
  BY <1>1 DEF FallBack, End
<1> QED BY <1>6, <1>7 DEF RefusalExplained

(* So does leaving a key, when it was the last.                                 *)
LEMMA LeaveKeyLeaves ==
    ASSUME IInv, LeftWithKeys, turn' = turn, Calling, LeaveKey
    PROVE  LeftWithKeys' /\ RefusalExplained'
<1>1. link # "done" /\ result = "pending" /\ Resolved(Current) > 0
  <2>1. credentials = Resolved(Current) /\ key <= credentials /\ key \in 1..MaxKeys
        /\ credentials \in 0..MaxKeys
    BY DEF IInv, ScratchIsCurrent, TypeOK
  <2> QED BY <2>1, BudgetAssumption DEF IInv, PendingUntilDone, Calling
<1>2. CASE HasMoreCredentials
  <2>1. candidates' = candidates /\ result' = result
    BY <1>2 DEF LeaveKey
  <2>2. Here' = Here
    BY <2>1 DEF Here
  <2> QED BY <1>1, <2>1, <2>2 DEF LeftWithKeys, RefusalExplained, Resolved
<1>3. CASE ~HasMoreCredentials
  BY <1>1, <1>3, FallBackLeaves DEF LeaveKey
<1> QED BY <1>2, <1>3

LEMMA RecordResolved ==
    ASSUME IInv, KeysResolved, turn' = turn, link = "invoke",
           NEW e \in ErrorClass \union {None}, Record(e)
    PROVE  KeysResolved'
<1> DEFINE n == Len(attempts)
<1>1. /\ n \in Nat /\ Len(attempts') = n + 1
      /\ \A i \in 1..n : attempts'[i] = attempts[i]
      /\ attempts'[n + 1].provider = Current /\ attempts'[n + 1].key = key
  BY RecordFacts DEF IInv, HasCurrent
<1>2. key \in 1..Resolved(Current)
  <2>1. credentials = Resolved(Current) /\ key <= credentials /\ key \in 1..MaxKeys
        /\ credentials \in 0..MaxKeys
    BY DEF IInv, ScratchIsCurrent, TypeOK, Calling
  <2> QED BY <2>1, BudgetAssumption
<1>3. \A i \in 1..(n + 1) : attempts'[i].key \in 1..Resolved(attempts'[i].provider)
  <2> TAKE i \in 1..(n + 1)
  <2>1. CASE i = n + 1
    BY <1>1, <1>2, <2>1
  <2>2. CASE i # n + 1
    BY <1>1, <2>2 DEF KeysResolved
  <2> QED BY <2>1, <2>2
<1> HIDE DEF n
<1> QED BY <1>1, <1>3 DEF KeysResolved, Resolved

LEMMA KInvStep == IInv /\ KInv /\ [Next]_vars => KInv'
<1> SUFFICES ASSUME IInv, KInv, [Next]_vars PROVE KInv'
  OBVIOUS
<1> USE DEF KInv
<1>0. ASSUME turn' = turn, candidates' = candidates
      PROVE  LeftWithKeys'
  BY <1>0 DEF LeftWithKeys, Here, Resolved
<1>1. ASSUME turn' = turn, attempts' = attempts
      PROVE  KeysResolved'
  BY <1>1 DEF KeysResolved, Resolved
<1>2. CASE UNCHANGED vars
  BY <1>0, <1>1, <1>2 DEF vars, RefusalExplained, Current, Resolved
<1>3. CASE PerimeterAdmits \/ PerimeterRejects \/ ResolveCredentials
           \/ QuotaGrants \/ QuotaDeniesHandsOff \/ CallRaises \/ Cancel
  <2>1. /\ turn' = turn /\ candidates' = candidates /\ attempts' = attempts
        /\ link # "done" /\ (result' = result \/ result' # "AuthenticationError")
    BY <1>3
    DEF PerimeterAdmits, PerimeterRejects, ResolveCredentials, QuotaGrants,
        QuotaDeniesHandsOff, HandoffStatus, CallRaises, Cancel, End
  <2>2. result' # "AuthenticationError"
    BY <2>1 DEF IInv, PendingUntilDone
  <2> QED BY <1>0, <1>1, <2>1, <2>2 DEF RefusalExplained
<1>4. CASE NoCredential
  <2>1. /\ turn' = turn /\ candidates' = candidates /\ attempts' = attempts
        /\ link # "done" /\ Resolved(Current) = 0
    BY <1>4 DEF NoCredential
  <2>2. Len(candidates) > 0
    BY <2>1 DEF IInv, HasCurrent
  <2> QED BY <1>0, <1>1, <2>1, <2>2 DEF RefusalExplained, Current, Resolved
<1>5. CASE QuotaDeniesFallsBack
  <2>1. /\ turn' = turn /\ attempts' = attempts /\ link = "quota" /\ FallBack
        /\ Resolved(Current) > 0
    BY <1>5 DEF QuotaDeniesFallsBack, IInv, ScratchIsCurrent
  <2> QED BY <1>1, <2>1, FallBackLeaves
<1>6. CASE CallSucceeds \/ CallFailsWaits
  <2>1. /\ turn' = turn /\ candidates' = candidates /\ link = "invoke"
        /\ \E e \in ErrorClass \union {None} : Record(e)
        /\ (result' = result \/ result' # "AuthenticationError")
    BY <1>6 DEF CallSucceeds, CallFailsWaits, End
  <2>2. KeysResolved'
    BY <2>1, RecordResolved
  <2>3. result' # "AuthenticationError"
    BY <2>1 DEF IInv, PendingUntilDone
  <2> QED BY <1>0, <2>1, <2>2, <2>3 DEF RefusalExplained
<1>7. CASE CallFailsMovesOn
  <2>1. /\ link = "invoke" /\ turn' = turn /\ LeaveKey
        /\ \E e \in ErrorClass \union {None} : Record(e)
    BY <1>7 DEF CallFailsMovesOn
  <2>2. KeysResolved'
    BY <2>1, RecordResolved
  <2> QED BY <2>1, <2>2, LeaveKeyLeaves DEF Calling
<1>8. CASE CallFailsTerminally
  <2>1. PICK e \in ErrorClass : Record(e) /\ End(TerminalError(e))
    BY <1>8 DEF CallFailsTerminally
  <2>2. turn' = turn /\ candidates' = candidates /\ link = "invoke"
    BY <1>8 DEF CallFailsTerminally
  <2>3. KeysResolved'
    BY <2>1, <2>2, RecordResolved
  <2>4. RefusalExplained'
    <3> SUFFICES ASSUME result' = "AuthenticationError"
                 PROVE  /\ Len(candidates) > 0
                        /\ attempts' # <<>>
                        /\ Last(attempts').provider = Current
                        /\ Last(attempts').error = "auth"
      BY <2>2 DEF RefusalExplained, Current
    <3>1. e = "auth"
      BY <2>1 DEF End, TerminalError
    <3>2. Len(candidates) > 0 /\ attempts \in Seq(Attempt)
      BY <2>2 DEF IInv, HasCurrent, TypeOK
    <3>3. PICK x : x = [provider |-> Current, key |-> key, error |-> e]
      OBVIOUS
    <3>4. attempts' = Append(attempts, x)
      BY <2>1, <3>3 DEF Record
    <3>5. attempts' # <<>> /\ Last(attempts') = x
      BY <3>2, <3>4 DEF Last
    <3> QED BY <3>1, <3>2, <3>3, <3>5
  <2> QED BY <1>0, <2>2, <2>3, <2>4
<1>9. CASE BackoffElapses
  <2>1. /\ link = "backoff" /\ Calling /\ turn' = turn /\ attempts' = attempts
    BY <1>9 DEF BackoffElapses, Calling
  <2>2. CASE attempt < MaxAttempts
    <3>1. candidates' = candidates /\ result' = "pending"
      BY <1>9, <2>1, <2>2 DEF BackoffElapses, IInv, PendingUntilDone
    <3> QED BY <1>0, <1>1, <2>1, <3>1 DEF RefusalExplained
  <2>3. CASE ~(attempt < MaxAttempts)
    BY <1>1, <1>9, <2>1, <2>3, LeaveKeyLeaves DEF BackoffElapses
  <2> QED BY <2>2, <2>3
<1> QED
  BY <1>2, <1>3, <1>4, <1>5, <1>6, <1>7, <1>8, <1>9 DEF Next, Step

-------------------------------------------------------------------------------
(* Byok *)

(* The turn is the one the visit comes to.                                      *)
Served == visit \in Visit /\ turn = TurnOf(visit)

LEMMA JoinedSet ==
    ASSUME NEW T, NEW s \in Seq(T), NEW t \in Seq(T)
    PROVE  ToSet(s \o t) = ToSet(s) \union ToSet(t)
<1>1. /\ DOMAIN s = 1..Len(s) /\ DOMAIN t = 1..Len(t)
      /\ Len(s) \in Nat /\ Len(t) \in Nat
      /\ DOMAIN (s \o t) = 1..(Len(s) + Len(t))
      /\ \A i \in 1..(Len(s) + Len(t)) :
            (s \o t)[i] = IF i <= Len(s) THEN s[i] ELSE t[i - Len(s)]
  OBVIOUS
<1>2. ASSUME NEW x \in ToSet(s \o t)
      PROVE  x \in ToSet(s) \union ToSet(t)
  <2>1. PICK i \in 1..(Len(s) + Len(t)) : x = (s \o t)[i]
    BY <1>1 DEF ToSet
  <2>2. CASE i <= Len(s)
    BY <1>1, <2>1, <2>2 DEF ToSet
  <2>3. CASE ~(i <= Len(s))
    <3>1. i - Len(s) \in 1..Len(t)
      BY <1>1, <2>3
    <3> QED BY <1>1, <2>1, <2>3, <3>1 DEF ToSet
  <2> QED BY <2>2, <2>3
<1>3. ASSUME NEW x \in ToSet(s)
      PROVE  x \in ToSet(s \o t)
  <2>1. PICK i \in 1..Len(s) : x = s[i]
    BY <1>1 DEF ToSet
  <2>2. i \in 1..(Len(s) + Len(t)) /\ i <= Len(s)
    BY <1>1
  <2> QED BY <1>1, <2>1, <2>2 DEF ToSet
<1>4. ASSUME NEW x \in ToSet(t)
      PROVE  x \in ToSet(s \o t)
  <2>1. PICK i \in 1..Len(t) : x = t[i]
    BY <1>1 DEF ToSet
  <2>2. /\ i + Len(s) \in 1..(Len(s) + Len(t)) /\ ~(i + Len(s) <= Len(s))
        /\ (i + Len(s)) - Len(s) = i
    BY <1>1
  <2> QED BY <1>1, <2>1, <2>2 DEF ToSet
<1> QED BY <1>2, <1>3, <1>4

(* A list of vendors in ascending order of their tiers, no two of one tier.      *)
Climbs(L) ==
    \A i, j \in 1..Len(L) : i < j => DefaultTier[L[i]] < DefaultTier[L[j]]

LEMMA TierOfItsOwn ==
    \A p, q \in Vendors : /\ DefaultTier[p] \in {1, 2, 3}
                          /\ DefaultTier[p] = DefaultTier[q] => p = q
BY DEF Vendors, DefaultTier

LEMMA ClimbsJoined ==
    ASSUME NEW s \in Seq(Vendors), NEW t \in Seq(Vendors), Climbs(s), Climbs(t),
           \A x \in ToSet(s), y \in ToSet(t) : DefaultTier[x] < DefaultTier[y]
    PROVE  Climbs(s \o t)
<1>1. /\ Len(s) \in Nat /\ Len(t) \in Nat /\ Len(s \o t) = Len(s) + Len(t)
      /\ \A i \in 1..(Len(s) + Len(t)) :
           (s \o t)[i] = IF i <= Len(s) THEN s[i] ELSE t[i - Len(s)]
      /\ DOMAIN s = 1..Len(s) /\ DOMAIN t = 1..Len(t)
  OBVIOUS
<1>2. PICK u : u = s \o t
  OBVIOUS
<1>3. ASSUME NEW i \in 1..(Len(s) + Len(t)), NEW j \in 1..(Len(s) + Len(t)), i < j
      PROVE  DefaultTier[u[i]] < DefaultTier[u[j]]
  <2>1. CASE j <= Len(s)
    <3>1. i \in 1..Len(s) /\ j \in 1..Len(s) /\ u[i] = s[i] /\ u[j] = s[j]
      BY <1>1, <1>2, <1>3, <2>1
    <3> QED BY <1>3, <3>1 DEF Climbs
  <2>2. CASE i <= Len(s) /\ ~(j <= Len(s))
    <3>1. /\ i \in 1..Len(s) /\ j - Len(s) \in 1..Len(t)
          /\ u[i] = s[i] /\ u[j] = t[j - Len(s)]
      BY <1>1, <1>2, <1>3, <2>2
    <3>2. u[i] \in ToSet(s) /\ u[j] \in ToSet(t)
      BY <1>1, <3>1 DEF ToSet
    <3> QED BY <3>2
  <2>3. CASE ~(i <= Len(s))
    <3>1. PICK k, l : k = i - Len(s) /\ l = j - Len(s)
      OBVIOUS
    <3>2. k \in 1..Len(t) /\ l \in 1..Len(t) /\ k < l /\ u[i] = t[k] /\ u[j] = t[l]
      BY <1>1, <1>2, <1>3, <2>3, <3>1
    <3> QED BY <3>2 DEF Climbs
  <2> QED BY <2>1, <2>2, <2>3
<1>4. Climbs(u)
  BY <1>1, <1>2, <1>3 DEF Climbs
<1> QED BY <1>2, <1>4

LEMMA ClimbsFiltered ==
    ASSUME NEW s \in Seq(Vendors), Climbs(s), NEW S
    PROVE  Climbs(Only(s, S))
<1>1. PICK L, P : L = Only(s, S) /\ P = {i \in DOMAIN s : s[i] \in S}
  OBVIOUS
<1>2. L \in Seq(Vendors) /\ \E at : Picks(at, L, s, P) /\ Ascends(at, Len(L))
  BY <1>1, OnlyPlaces
<1>3. PICK at : Picks(at, L, s, P) /\ Ascends(at, Len(L))
  BY <1>2
<1>4. ASSUME NEW i \in 1..Len(L), NEW j \in 1..Len(L), i < j
      PROVE  DefaultTier[L[i]] < DefaultTier[L[j]]
  <2>1. at[i] < at[j] /\ at[i] \in P /\ at[j] \in P /\ L[i] = s[at[i]] /\ L[j] = s[at[j]]
    BY <1>3, <1>4 DEF Picks, Ascends
  <2>2. at[i] \in 1..Len(s) /\ at[j] \in 1..Len(s)
    BY <1>1, <2>1
  <2> QED BY <2>1, <2>2 DEF Climbs
<1>5. Climbs(L)
  BY <1>4 DEF Climbs
<1> QED BY <1>1, <1>5

(* The vendors build_registry registers, and those of one tier.                 *)
RegisteredSet == {p \in Providers : p \in visit.server \/ visit.credentials[p] # <<>>}

LEMMA RegisteredFacts ==
    /\ Providers \subseteq Vendors
    /\ Registered(visit) \in Seq(Vendors)
    /\ ToSet(Registered(visit)) = RegisteredSet
    /\ \A i, j \in DOMAIN Registered(visit) :
         Registered(visit)[i] = Registered(visit)[j] => i = j
<1>1. Specs \in Seq(Vendors) /\ ToSet(Specs) = Providers /\ Providers \subseteq Vendors
  <2>1. \A i \in DOMAIN Specs : Specs[i] \in Vendors
    BY ByokAssumption
  <2> QED BY <2>1, ByokAssumption DEF ToSet
<1>2. \A i, j \in DOMAIN Specs : Specs[i] = Specs[j] => i = j
  BY ByokAssumption DEF IsInjective
<1>3. Registered(visit) = Only(Specs, RegisteredSet) /\ RegisteredSet \subseteq Providers
  BY DEF Registered, RegisteredSet
<1>4. PICK L : L = Only(Specs, RegisteredSet)
  OBVIOUS
<1>5. L \in Seq(Vendors) /\ ToSet(L) = ToSet(Specs) \cap RegisteredSet
  BY <1>1, <1>4, OnlyFacts
<1>6. \A i, j \in DOMAIN L : L[i] = L[j] => i = j
  BY <1>1, <1>2, <1>4, OnlyFacts
<1> QED BY <1>1, <1>3, <1>4, <1>5, <1>6

LEMMA OneTier ==
    ASSUME NEW L \in Seq(Vendors), \A i, j \in DOMAIN L : L[i] = L[j] => i = j,
           NEW tier, NEW S, S \subseteq Vendors, \A p \in S : DefaultTier[p] = tier
    PROVE  Climbs(Only(L, S))
<1>1. PICK M : M = Only(L, S)
  OBVIOUS
<1>2. /\ M \in Seq(Vendors) /\ ToSet(M) = ToSet(L) \cap S
      /\ \A i, j \in DOMAIN M : M[i] = M[j] => i = j
  BY <1>1, OnlyFacts
<1>3. ASSUME NEW i \in 1..Len(M), NEW j \in 1..Len(M)
      PROVE  i = j
  <2>1. i \in DOMAIN M /\ j \in DOMAIN M /\ M[i] \in S /\ M[j] \in S
    BY <1>2 DEF ToSet
  <2>2. M[i] = M[j]
    BY <2>1, TierOfItsOwn
  <2> QED BY <1>2, <2>1, <2>2
<1>4. \A i \in 1..Len(M) : ~(i < i)
  BY <1>2
<1>5. Climbs(M)
  BY <1>3, <1>4 DEF Climbs
<1> QED BY <1>1, <1>5

(* Who is left by the router before the policy's cut: those that fit, cheapest  *)
(* first.                                                                       *)
LEMMA KeptFacts ==
    ASSUME Served, NEW fits, fits = AtOrAbove(Registered(visit), visit.floor),
           NEW kept, kept = IF visit.escalates THEN fits
                            ELSE Only(fits, {p \in Providers : DefaultTier[p] = visit.floor})
    PROVE  kept \in Seq(Vendors) /\ ToSet(kept) = Fitting /\ Climbs(kept)
<1> DEFINE floor == visit.floor
           Tier(n) == {p \in Providers : DefaultTier[p] = n}
           Kept(n) == IF n >= floor THEN Only(Registered(visit), Tier(n)) ELSE <<>>
<1>1. /\ Providers \subseteq Vendors
      /\ Registered(visit) \in Seq(Vendors) /\ ToSet(Registered(visit)) = RegisteredSet
      /\ \A i, j \in DOMAIN Registered(visit) :
           Registered(visit)[i] = Registered(visit)[j] => i = j
  BY RegisteredFacts
<1>2. PICK L : L = Registered(visit)
  OBVIOUS
<1>3. ASSUME NEW n \in {1, 2, 3}
      PROVE  /\ Kept(n) \in Seq(Vendors) /\ Climbs(Kept(n))
             /\ ToSet(Kept(n)) = {p \in RegisteredSet : n >= floor /\ DefaultTier[p] = n}
  <2> DEFINE S == Tier(n)
  <2>1. S \subseteq Vendors /\ \A p \in S : DefaultTier[p] = n
    BY <1>1
  <2>2. RegisteredSet \cap S = {p \in RegisteredSet : DefaultTier[p] = n}
    BY DEF RegisteredSet
  <2>3. CASE n >= floor
    <3>1. Kept(n) = Only(L, S)
      BY <1>2, <2>3
    <3> HIDE DEF S
    <3>2. Only(L, S) \in Seq(Vendors) /\ ToSet(Only(L, S)) = ToSet(L) \cap S
      BY <1>1, <1>2, OnlyFacts
    <3>3. Climbs(Only(L, S))
      BY <1>1, <1>2, <2>1, OneTier
    <3> HIDE DEF Kept
    <3> QED BY <1>1, <1>2, <2>2, <2>3, <3>1, <3>2, <3>3
  <2>4. CASE ~(n >= floor)
    <3>1. Kept(n) = <<>>
      BY <2>4
    <3>2. <<>> \in Seq(Vendors) /\ ToSet(<<>>) = {} /\ Climbs(<<>>)
      BY DEF ToSet, Climbs
    <3> HIDE DEF Kept
    <3> QED BY <2>4, <3>1, <3>2
  <2> QED BY <2>3, <2>4
<1>4. fits = (Kept(1) \o Kept(2)) \o Kept(3)
  BY DEF AtOrAbove
<1>5. PICK a \in Seq(Vendors), b \in Seq(Vendors), c \in Seq(Vendors) :
        a = Kept(1) /\ b = Kept(2) /\ c = Kept(3)
  <2> HIDE DEF Kept
  <2> QED BY <1>3
<1>6. /\ Climbs(a) /\ Climbs(b) /\ Climbs(c)
      /\ ToSet(a) = {p \in RegisteredSet : 1 >= floor /\ DefaultTier[p] = 1}
      /\ ToSet(b) = {p \in RegisteredSet : 2 >= floor /\ DefaultTier[p] = 2}
      /\ ToSet(c) = {p \in RegisteredSet : 3 >= floor /\ DefaultTier[p] = 3}
  <2> HIDE DEF Kept
  <2> QED BY <1>3, <1>5
<1>7. PICK ab : ab = a \o b
  OBVIOUS
<1>8. ab \in Seq(Vendors) /\ ToSet(ab) = ToSet(a) \union ToSet(b) /\ Climbs(ab)
  BY <1>6, <1>7, JoinedSet, ClimbsJoined
<1>9. fits = ab \o c
  <2> HIDE DEF Kept
  <2> QED BY <1>4, <1>5, <1>7
<1>10. /\ fits \in Seq(Vendors) /\ ToSet(fits) = ToSet(a) \union ToSet(b) \union ToSet(c)
       /\ Climbs(fits)
  <2>1. ab \o c \in Seq(Vendors) /\ ToSet(ab \o c) = ToSet(ab) \union ToSet(c)
    BY <1>8, JoinedSet
  <2>2. Climbs(ab \o c)
    <3>1. \A x \in ToSet(ab), y \in ToSet(c) : DefaultTier[x] < DefaultTier[y]
      BY <1>6, <1>8
    <3> QED BY <1>6, <1>8, <3>1, ClimbsJoined
  <2> QED BY <1>8, <1>9, <2>1, <2>2
<1>11. ToSet(fits) = {p \in RegisteredSet : DefaultTier[p] >= floor}
  <2>1. \A p \in RegisteredSet : DefaultTier[p] \in {1, 2, 3}
    BY <1>1, TierOfItsOwn DEF RegisteredSet
  <2> QED BY <1>6, <1>10, <2>1
<1>12. CASE visit.escalates
  <2>1. Fitting = {p \in RegisteredSet : DefaultTier[p] >= floor}
    BY <1>12 DEF Fitting, RegisteredSet
  <2> QED BY <1>10, <1>11, <1>12, <2>1
<1>13. CASE ~visit.escalates
  <2> DEFINE S == Tier(floor)
  <2>1. Fitting = {p \in RegisteredSet : DefaultTier[p] >= floor} \cap S
    BY <1>13 DEF Fitting, RegisteredSet
  <2>2. kept = Only(fits, S)
    BY <1>13
  <2> HIDE DEF S
  <2>3. Only(fits, S) \in Seq(Vendors) /\ ToSet(Only(fits, S)) = ToSet(fits) \cap S
    BY <1>10, OnlyFacts
  <2>4. Climbs(Only(fits, S))
    BY <1>10, ClimbsFiltered
  <2> QED BY <1>11, <2>1, <2>2, <2>3, <2>4
<1> QED BY <1>12, <1>13

(* The k-th vendor of an ascending list has k - 1 cheaper ones before it.       *)
LEMMA CheaperBefore ==
    ASSUME NEW L \in Seq(Vendors), Climbs(L), NEW i \in 1..Len(L),
           NEW S, S = {q \in ToSet(L) : DefaultTier[q] < DefaultTier[L[i]]}
    PROVE  IsFiniteSet(S) /\ Cardinality(S) \in Nat /\ i - 1 <= Cardinality(S)
<1>1. Len(L) \in Nat /\ DOMAIN L = 1..Len(L) /\ \A j \in 1..Len(L) : L[j] \in Vendors
  OBVIOUS
<1>2. IsFiniteSet(S) /\ Cardinality(S) \in Nat
  <2>1. S \in SUBSET Vendors
    BY <1>1 DEF ToSet
  <2>2. IsFiniteSet(Vendors)
    <3>1. IsFiniteSet({}) 
      BY FS_EmptySet
    <3>2. IsFiniteSet({} \union {"anthropic"})
      BY <3>1, FS_AddElement
    <3>3. IsFiniteSet(({} \union {"anthropic"}) \union {"openai"})
      BY <3>2, FS_AddElement
    <3>4. IsFiniteSet((({} \union {"anthropic"}) \union {"openai"}) \union {"gemini"})
      BY <3>3, FS_AddElement
    <3>5. Vendors = (({} \union {"anthropic"}) \union {"openai"}) \union {"gemini"}
      BY DEF Vendors
    <3> QED BY <3>4, <3>5
  <2> QED BY <2>1, <2>2, FS_Subset, FS_CardinalityType
<1> DEFINE n == i - 1
           f == [j \in 1..n |-> L[j]]
<1>3. n \in Nat /\ \A j \in 1..n : j \in 1..Len(L) /\ j < i
  BY <1>1
<1>4. \A j \in 1..n : f[j] \in S
  <2> TAKE j \in 1..n
  <2>1. j \in 1..Len(L) /\ j < i /\ L[j] \in ToSet(L)
    BY <1>1, <1>3 DEF ToSet
  <2> QED BY <2>1 DEF Climbs
<1>5. ASSUME NEW j \in 1..n, NEW k \in 1..n, f[j] = f[k]
      PROVE  j = k
  <2>1. L[j] = L[k] /\ j \in 1..Len(L) /\ k \in 1..Len(L) /\ L[j] \in Vendors
    BY <1>1, <1>3, <1>5
  <2>2. ~(DefaultTier[L[j]] < DefaultTier[L[k]]) /\ ~(DefaultTier[L[k]] < DefaultTier[L[j]])
    <3>1. DefaultTier[L[j]] \in {1, 2, 3}
      BY <2>1, TierOfItsOwn
    <3> QED BY <2>1, <3>1
  <2>3. ~(j < k) /\ ~(k < j)
    BY <2>1, <2>2 DEF Climbs
  <2> QED BY <1>1, <2>1, <2>3
<1>6. f \in Injection(1..n, S)
  BY <1>4, <1>5 DEF Injection, IsInjective
<1>7. IsFiniteSet(1..n) /\ Cardinality(1..n) = n
  <2>1. PICK m \in Nat : m = n
    BY <1>3
  <2> QED BY <2>1, FS_Interval
<1>8. Cardinality(1..n) <= Cardinality(S)
  <2> HIDE DEF n, f
  <2> QED BY <1>2, <1>6, <1>7, FS_Injection
<1> QED BY <1>2, <1>7, <1>8

(* The route holds registered vendors only, and each that fits and that the cut *)
(* leaves room for.                                                             *)
LEMMA RouteFacts ==
    ASSUME Served
    PROVE  /\ ToSet(turn.route) \subseteq RegisteredSet
           /\ \A p \in Fitting : Cardinality(Cheaper(p)) < visit.cut => p \in ToSet(turn.route)
<1>1. PICK fits : fits = AtOrAbove(Registered(visit), visit.floor)
  OBVIOUS
<1>2. PICK kept : kept = IF visit.escalates THEN fits
                         ELSE Only(fits, {p \in Providers : DefaultTier[p] = visit.floor})
  OBVIOUS
<1>3. kept \in Seq(Vendors) /\ ToSet(kept) = Fitting /\ Climbs(kept)
  BY <1>1, <1>2, KeptFacts
<1>4. PICK n : n = IF Len(kept) < visit.cut THEN Len(kept) ELSE visit.cut
  OBVIOUS
<1>5. turn.route = SubSeq(kept, 1, n)
  BY <1>1, <1>2, <1>4 DEF Served, TurnOf, Route
<1>6. visit.cut \in Nat /\ Len(kept) \in Nat /\ DOMAIN kept = 1..Len(kept)
  <2>1. visit.cut \in Cuts
    BY DEF Served, Visit
  <2>2. visit.cut \in Nat
    BY <2>1, ByokAssumption
  <2> QED BY <1>3, <2>2
<1>7. n \in Nat /\ n <= Len(kept)
  BY <1>4, <1>6
<1>8. DOMAIN turn.route = 1..n /\ \A i \in 1..n : turn.route[i] = kept[i]
  BY <1>3, <1>5, <1>6, <1>7
<1>9. ToSet(turn.route) \subseteq RegisteredSet
  <2>1. ToSet(turn.route) \subseteq ToSet(kept)
    BY <1>6, <1>7, <1>8 DEF ToSet
  <2>2. Fitting \subseteq RegisteredSet
    BY DEF Fitting, RegisteredSet
  <2> QED BY <1>3, <2>1, <2>2
<1>10. ASSUME NEW p \in Fitting, Cardinality(Cheaper(p)) < visit.cut
       PROVE  p \in ToSet(turn.route)
  <2>1. PICK i \in 1..Len(kept) : kept[i] = p
    BY <1>3, <1>6 DEF ToSet
  <2>2. PICK S : S = {q \in ToSet(kept) : DefaultTier[q] < DefaultTier[kept[i]]}
    OBVIOUS
  <2>3. S = Cheaper(p)
    BY <1>3, <2>1, <2>2 DEF Cheaper
  <2>4. Cardinality(S) \in Nat /\ i - 1 <= Cardinality(S)
    BY <1>3, <2>2, CheaperBefore
  <2>5. Cardinality(S) < visit.cut
    BY <1>10, <2>3
  <2>6. i \in 1..n
    BY <1>4, <1>6, <2>1, <2>4, <2>5
  <2> QED BY <1>8, <2>1, <2>6 DEF ToSet
<1> QED BY <1>9, <1>10

(* What a visitor pasted for a vendor, less the blanks.                         *)
Usable(p) == ToSet(visit.credentials[p]) \ {Blank}

LEMMA SplitFacts ==
    ASSUME Served, NEW p \in Providers
    PROVE  /\ SplitKeys(visit.credentials[p]) \in Seq(STRING)
           /\ ToSet(SplitKeys(visit.credentials[p])) = Usable(p)
           /\ Usable(p) \cap Marks = {}
           /\ visit.credentials[p] = <<>> => Usable(p) = {}
<1> DEFINE list == visit.credentials[p]
<1>1. list \in Pasted
  BY DEF Served, Visit
<1>2. list \in Seq(STRING) /\ ToSet(list) \cap Marks = {}
  BY <1>1, ByokAssumption
<1>3. SplitKeys(list) \in Seq(STRING) /\ ToSet(SplitKeys(list)) = ToSet(list) \cap Usable(p)
  <2>1. SplitKeys(list) = Only(list, Usable(p))
    BY DEF SplitKeys, Usable
  <2> HIDE DEF list
  <2> QED BY <1>2, <2>1, OnlyFacts
<1>4. list = <<>> => ToSet(list) = {}
  BY <1>2 DEF ToSet
<1> QED BY <1>2, <1>3, <1>4 DEF Usable

(* The keys of a vendor: the visitor's, else the organisation's, else none that *)
(* has to be sent.                                                              *)
LEMMA KeysFacts ==
    ASSUME Served, NEW p \in Providers, NEW r, r = ResolveCandidates(visit, p)
    PROVE  /\ Resolved(p) = Len(r) /\ Len(r) \in Nat
           /\ Usable(p) # {} => ToSet(r) = Usable(p) /\ DOMAIN r = 1..Len(r)
           /\ Usable(p) = {} /\ p \in visit.organisation => r = <<OrganisationKey>>
           /\ Usable(p) = {} /\ p \notin visit.organisation =>
                r = IF visit.zeroSetup THEN <<NoKey>> ELSE <<>>
<1> DEFINE users == SplitKeys(visit.credentials[p])
<1>1. /\ users \in Seq(STRING) /\ ToSet(users) = Usable(p) /\ Usable(p) \cap Marks = {}
  BY SplitFacts
<1>2. p \notin FreeTier
  <2>1. p \in Vendors
    BY ByokAssumption DEF ToSet
  <2> QED BY <2>1, ByokAssumption DEF Vendors, DefaultTier
<1>3. turn.ownKeys[p] = OwnKeys(visit, p) /\ turn.zeroSetup = visit.zeroSetup
  BY DEF Served, TurnOf
<1>4. Resolved(p) = IF OwnKeys(visit, p) > 0 THEN OwnKeys(visit, p)
                    ELSE IF visit.zeroSetup THEN 1 ELSE 0
  BY <1>2, <1>3 DEF Resolved
<1>5. OwnKeys(visit, p) = IF r = <<NoKey>> THEN 0 ELSE Len(r)
  BY DEF OwnKeys
<1>6. users = <<>> <=> Usable(p) = {}
  <2>1. users = <<>> => ToSet(users) = {}
    BY DEF ToSet
  <2>2. users # <<>> => users[1] \in ToSet(users)
    BY <1>1, EmptySeq DEF ToSet
  <2> QED BY <1>1, <2>1, <2>2
<1>7. CASE Usable(p) # {}
  <2>1. r = users
    BY <1>6, <1>7 DEF ResolveCandidates
  <2>2. Len(users) \in Nat /\ DOMAIN users = 1..Len(users) /\ Len(users) > 0
    <3> HIDE DEF users
    <3> QED BY <1>1, <1>6, <1>7, EmptySeq
  <2>3. users # <<NoKey>>
    <3> SUFFICES ASSUME users = <<NoKey>>
                 PROVE  FALSE
      OBVIOUS
    <3>1. NoKey \in ToSet(users)
      BY DEF ToSet
    <3> QED BY <1>1, <3>1 DEF Marks
  <2>4. Resolved(p) = Len(r)
    BY <1>4, <1>5, <2>1, <2>2, <2>3
  <2> HIDE DEF users
  <2> QED BY <1>1, <1>7, <2>1, <2>2, <2>4
<1>8. CASE Usable(p) = {} /\ p \in visit.organisation
  <2>1. r = <<OrganisationKey>>
    BY <1>6, <1>8 DEF ResolveCandidates
  <2>2. r # <<NoKey>>
    BY <2>1 DEF OrganisationKey, NoKey
  <2> QED BY <1>4, <1>5, <1>8, <2>1, <2>2
<1>9. CASE Usable(p) = {} /\ p \notin visit.organisation
  <2>1. r = IF visit.zeroSetup THEN <<NoKey>> ELSE <<>>
    BY <1>2, <1>6, <1>9 DEF ResolveCandidates
  <2>2. visit.zeroSetup => r = <<NoKey>> /\ Resolved(p) = 1 /\ Len(r) = 1
    BY <1>4, <1>5, <2>1
  <2>3. ~visit.zeroSetup => r = <<>> /\ Resolved(p) = 0 /\ Len(r) = 0
    BY <1>4, <1>5, <2>1
  <2> QED BY <1>9, <2>1, <2>2, <2>3
<1> QED BY <1>7, <1>8, <1>9

LEMMA ServedStep == Served /\ [ByokNext]_byokVars => Served'
<1> SUFFICES ASSUME Served, [ByokNext]_byokVars PROVE Served'
  OBVIOUS
<1>1. turn' = turn /\ visit' = visit
  BY DEF ByokNext, byokVars, vars, Next, Step, PerimeterAdmits, PerimeterRejects,
         ResolveCredentials, NoCredential, QuotaGrants, QuotaDeniesFallsBack,
         QuotaDeniesHandsOff, CallSucceeds, CallFailsWaits, CallFailsMovesOn,
         CallFailsTerminally, CallRaises, BackoffElapses, Cancel
<1> QED BY <1>1 DEF Served

LEMMA ByokInvariance == ByokSpec => [](IInv /\ Covered /\ KInv /\ Served)
<1>1. ByokInit => Init /\ Served
  BY DEF ByokInit, Served
<1>2. [ByokNext]_byokVars => [Next]_vars
  BY DEF ByokNext, byokVars
<1> QED
  BY <1>1, <1>2, IInvInit, IInvStep, CoveredInit, CoveredStep, KInvInit, KInvStep,
     ServedStep, PTL DEF ByokSpec

(* Whoever may call a vendor, the visitor's usable keys for it are the only     *)
(* ones spent when there are any, and the server's key never stands in for an   *)
(* organisation's.                                                              *)
THEOREM VisitorsPayFirst == ByokSpec => []VisitorsKeysPayFirst
<1>1. IInv /\ KInv /\ Served => VisitorsKeysPayFirst
  <2> SUFFICES ASSUME IInv, KInv, Served, NEW i \in 1..Len(attempts),
                      NEW p, p = attempts[i].provider
               PROVE  IF Usable(p) # {} THEN SpentAt(i) \in Usable(p)
                      ELSE SpentAt(i) = ServerKey => p \notin visit.organisation
    BY DEF VisitorsKeysPayFirst, Usable
  <2>1. p \in Providers
    <3>1. attempts[i] \in Attempt
      BY DEF IInv, TypeOK
    <3> QED BY <3>1 DEF Attempt
  <2> DEFINE r == ResolveCandidates(visit, p)
             k == attempts[i].key
  <2>2. k \in 1..Len(r)
    BY <2>1, KeysFacts DEF KInv, KeysResolved
  <2>3. SpentAt(i) = IF r[k] = NoKey THEN (IF p \in visit.server THEN ServerKey ELSE NoKey)
                     ELSE r[k]
    BY DEF SpentAt, Sent, KeySent
  <2>4. CASE Usable(p) # {}
    <3>1. r[k] \in Usable(p)
      BY <2>1, <2>2, <2>4, KeysFacts DEF ToSet
    <3>2. r[k] # NoKey
      BY <2>1, <3>1, SplitFacts DEF Marks
    <3> HIDE DEF r, k
    <3> QED BY <2>3, <2>4, <3>1, <3>2
  <2>5. CASE Usable(p) = {} /\ p \in visit.organisation
    <3>1. r = <<OrganisationKey>>
      BY <2>1, <2>5, KeysFacts
    <3>2. r[k] = OrganisationKey
      <4> HIDE DEF r, k
      <4> QED BY <2>2, <3>1
    <3> HIDE DEF r, k
    <3> QED BY <2>3, <2>5, <3>2 DEF OrganisationKey, NoKey, ServerKey
  <2> QED BY <2>4, <2>5
<1> QED BY <1>1, ByokInvariance, PTL

(* A dispatch that reports exhaustion has called every registered vendor that   *)
(* fits the request and that the policy's cut leaves room for, with each usable *)
(* key of the visitor's or with the shared key.                                 *)
THEOREM ExhaustionSpends == ByokSpec => []ExhaustionSpentEveryKey
<1>1. IInv /\ Covered /\ KInv /\ Served => ExhaustionSpentEveryKey
  <2> SUFFICES ASSUME IInv, Covered, KInv, Served, Told = "AllProvidersExhausted",
                      NEW p \in Fitting, Cardinality(Cheaper(p)) < visit.cut,
                      NEW calls, calls = {j \in 1..Len(attempts) : attempts[j].provider = p}
               PROVE  /\ Usable(p) \subseteq {SpentAt(i) : i \in calls}
                      /\ p \in visit.server => {SpentAt(i) : i \in calls} # {}
    BY DEF ExhaustionSpentEveryKey, Usable
  <2> DEFINE r == ResolveCandidates(visit, p)
  <2> SUFFICES ASSUME Usable(p) # {} \/ p \in visit.server
               PROVE  /\ Usable(p) \subseteq {SpentAt(i) : i \in calls}
                      /\ {SpentAt(i) : i \in calls} # {}
    OBVIOUS
  <2>0. p \in Providers
    BY DEF Fitting
  <2>1. result = "AllProvidersExhausted" /\ Len(candidates) = 0
    BY DEF Told, Covered
  <2>2. turn.route \in Seq(Providers) /\ Len(turn.route) \in Nat
    BY RouteAssumption DEF IInv, TypeOK, Turn
  <2>3. Here - 1 = Len(turn.route)
    BY <2>1, <2>2 DEF Here
  <2>4. PICK n \in 1..Len(turn.route) : turn.route[n] = p
    <3>1. p \in ToSet(turn.route)
      BY RouteFacts
    <3> QED BY <2>2, <3>1 DEF ToSet
  <2>5. Attempted(p) = 1..Resolved(p) /\ Resolved(p) > 0
    <3>1. Settled(n) /\ Resolved(turn.route[n]) > 0
      BY <2>3, <2>4 DEF Covered, KInv, LeftWithKeys
    <3>2. FreeTier = {}
      <4>1. Providers \subseteq Vendors
        BY ByokAssumption DEF ToSet
      <4> QED BY <4>1, ByokAssumption DEF Vendors, DefaultTier
    <3> QED BY <2>4, <3>1, <3>2 DEF Settled
  <2>6. ASSUME NEW k \in 1..Len(r)
        PROVE  \E i \in calls : attempts[i].key = k
    <3>1. k \in Attempted(p)
      BY <2>0, <2>5, KeysFacts
    <3> QED BY <3>1 DEF Attempted
  <2>7. Len(r) \in Nat /\ Len(r) > 0
    BY <2>0, <2>5, KeysFacts
  <2>8. {SpentAt(i) : i \in calls} # {}
    <3>1. 1 \in 1..Len(r)
      BY <2>7
    <3> QED BY <2>6, <3>1
  <2>9. ASSUME NEW x \in Usable(p)
        PROVE  \E i \in calls : SpentAt(i) = x
    <3>1. ToSet(r) = Usable(p) /\ DOMAIN r = 1..Len(r)
      BY <2>0, KeysFacts
    <3>2. PICK k \in 1..Len(r) : r[k] = x
      BY <3>1 DEF ToSet
    <3>3. PICK i \in calls : attempts[i].key = k
      BY <2>6
    <3>4. x # NoKey
      BY <2>0, SplitFacts DEF Marks
    <3>5. attempts[i].provider = p
      OBVIOUS
    <3>6. SpentAt(i) = x
      BY <3>2, <3>3, <3>4, <3>5 DEF SpentAt, Sent, KeySent
    <3> QED BY <3>6
  <2> QED BY <2>8, <2>9
<1> QED BY <1>1, ByokInvariance, PTL

(* An AuthenticationError is a vendor's refusal, or a lookup that raised for a  *)
(* caller that is not zero-setup, at a vendor nobody but the server, or a blank *)
(* entry, had it registered for.                                                *)
THEOREM StrandedOnlyThere == ByokSpec => []StrandedExplained
<1>1. IInv /\ KInv /\ Served => StrandedExplained
  <2> SUFFICES ASSUME IInv, KInv, Served, Told = "AuthenticationError",
                      Resolved(Current) = 0, NEW p, p = Current
               PROVE  /\ ~visit.zeroSetup
                      /\ p \notin visit.organisation
                      /\ ToSet(visit.credentials[p]) \subseteq {Blank}
                      /\ p \in visit.server \/ visit.credentials[p] # <<>>
    BY DEF StrandedExplained, Told, KInv, RefusalExplained
  <2>1. Len(candidates) > 0
    BY DEF Told, KInv, RefusalExplained
  <2>2. p \in Providers /\ p \in ToSet(turn.route)
    <3>1. /\ p \in Providers /\ Here \in 1..Len(turn.route) /\ turn.route[Here] = p
      BY <2>1, CurrentHere DEF IInv
    <3>2. DOMAIN turn.route = 1..Len(turn.route)
      BY RouteAssumption DEF IInv, TypeOK, Turn
    <3> QED BY <3>1, <3>2 DEF ToSet
  <2>3. p \in visit.server \/ visit.credentials[p] # <<>>
    BY <2>2, RouteFacts DEF RegisteredSet
  <2> DEFINE r == ResolveCandidates(visit, p)
  <2>4. Len(r) = 0
    BY <2>2, KeysFacts
  <2>5. Usable(p) = {}
    <3> SUFFICES ASSUME NEW x \in Usable(p)
                 PROVE  FALSE
      OBVIOUS
    <3>1. x \in ToSet(r) /\ DOMAIN r = 1..Len(r)
      BY <2>2, KeysFacts
    <3> HIDE DEF r
    <3> QED BY <2>4, <3>1 DEF ToSet
  <2>6. p \notin visit.organisation
    <3>1. p \in visit.organisation => r = <<OrganisationKey>>
      BY <2>2, <2>5, KeysFacts
    <3> HIDE DEF r
    <3> QED BY <2>4, <3>1
  <2>7. ~visit.zeroSetup
    <3>1. visit.zeroSetup => r = <<NoKey>>
      BY <2>2, <2>5, <2>6, KeysFacts
    <3> HIDE DEF r
    <3> QED BY <2>4, <3>1
  <2> QED BY <2>3, <2>5, <2>6, <2>7 DEF Usable
<1> QED BY <1>1, ByokInvariance, PTL

===============================================================================
