---------------------------- MODULE FallbackChain ----------------------------
(* One model turn through the fallback chain of the gateway: the executor of   *)
(* fallback/chain.py over the four links ModelGateway builds (perimeter,       *)
(* credential, quota, invocation).  A step is what runs between two points     *)
(* where the turn can be observed or cancelled: one link, one provider call or *)
(* one backoff sleep.  Vendors are external and answer anything at all; the    *)
(* quota verdict is free here and computed in QuotaManager.                    *)
EXTENDS Integers, Sequences, Conditions

CONSTANTS
    Providers,             (* the registered providers                         *)
    FreeTier,              (* those whose tier is FREE                         *)
    Routes,                (* the candidate lists the router may hand over     *)
    MaxKeys,               (* most keys a tenant pools for one provider        *)
    MaxAttempts,           (* retry_max_attempts                               *)
    RateLimitMaxAttempts   (* rate_limit_max_attempts                          *)

(* The registry is keyed by name, so a route never repeats a provider. *)
ASSUME RouteAssumption ==
    /\ FreeTier \subseteq Providers
    /\ Routes \subseteq Seq(Providers)
    /\ \A r \in Routes : \A i, j \in 1..Len(r) : r[i] = r[j] => i = j

ASSUME BudgetAssumption ==
    /\ MaxKeys \in Nat \ {0}
    /\ MaxAttempts \in Nat \ {0}
    /\ RateLimitMaxAttempts \in Nat

VARIABLES
    turn,          (* what the turn is given: route, keys, stage, admissible   *)
    candidates,    (* context.candidates, consumed from the front              *)
    link,          (* the link, call or sleep the turn is at                   *)
    credentials,   (* how many credentials the current candidate resolved to   *)
    key,           (* index of the credential in use                           *)
    attempt,       (* attempt number with that credential                      *)
    wait,          (* what the sleep in progress lasts                         *)
    reservation,   (* provider the held quota reservation was made for         *)
    attempts,      (* context.attempts, the audit trail                        *)
    result         (* how the turn ended                                       *)

vars == <<turn, candidates, link, credentials, key, attempt, wait,
          reservation, attempts, result>>

None == "none"

Links == {"perimeter", "credential", "quota", "invoke", "backoff", "done"}

(* What retry_after_seconds finds on an exception: nothing, a delay within     *)
(* rate_limit_max_wait, or a longer one.                                       *)
Hints == {"no_hint", "short", "long"}

Waits == {None, "exponential", "hinted", "max_wait"}

Windows == {"requests_per_min", "tokens_per_min", "tokens_per_day"}

Results == {"pending", "answered", "PerimeterViolation", "AuthenticationError",
            "QuotaExceeded429", "QuotaExceeded402", "ProviderError",
            "DispatcherError", "AllProvidersExhausted", "Cancelled"}

Attempt == [provider : Providers, key : 1..MaxKeys,
            error : ErrorClass \union {None}]

Turn == [route : Routes, ownKeys : [Providers -> 0..MaxKeys],
         zeroSetup : BOOLEAN, admissible : BOOLEAN]

-------------------------------------------------------------------------------
Current == Head(candidates)

(* Mutant: the index of the last key is not subtracted. *)
HasMoreCredentialsOffByOne == key <= credentials

HasMoreCredentials == key < credentials

HasMoreProviders == Len(candidates) > 1

(* How many credentials resolve_candidates returns; 0 means that it raises. *)
Resolved(provider) ==
    IF turn.ownKeys[provider] > 0 THEN turn.ownKeys[provider]
    ELSE IF provider \in FreeTier \/ turn.zeroSetup THEN 1 ELSE 0

(* Mutant: the current candidate counts as a cheaper one. *)
FreeRemainingWithCurrent ==
    \E i \in 1..Len(candidates) : candidates[i] \in FreeTier

CheaperFreeRemaining == \E i \in 2..Len(candidates) : candidates[i] \in FreeTier

HandoffStatus(window) ==
    IF window \in {"requests_per_min", "tokens_per_min"}
    THEN "QuotaExceeded429" ELSE "QuotaExceeded402"

TerminalError(class) ==
    IF class = "auth" THEN "AuthenticationError" ELSE "ProviderError"

(* Mutant: only the keys of this provider are looked at. *)
WaitsDespiteProviders(class, hint) ==
    /\ class = "rate_limit"
    /\ ~HasMoreCredentials
    /\ attempt < RateLimitMaxAttempts
    /\ hint # "long"

(* A rate limit is waited out only where there is nowhere better to go. *)
WaitsOutRateLimit(class, hint) ==
    /\ class = "rate_limit"
    /\ ~HasMoreCredentials
    /\ ~HasMoreProviders
    /\ attempt < RateLimitMaxAttempts
    /\ hint # "long"

RetriesSameKey(class, hint) ==
    \/ IsRetryable(class) /\ attempt < MaxAttempts
    \/ WaitsOutRateLimit(class, hint)

(* Mutant: an auth failure falls back even with no key left. *)
GivesUpKeyOnAnyAuth(class) ==
    IsFallbackWorthy(class) \/ IsRetryable(class) \/ class = "auth"

GivesUpKey(class) ==
    \/ IsFallbackWorthy(class) \/ IsRetryable(class)
    \/ class = "auth" /\ HasMoreCredentials

(* The vendor's hint is preferred whatever the class of the failure. *)
BackoffDelay(hint) ==
    CASE hint = "no_hint" -> "exponential"
      [] hint = "short"   -> "hinted"
      [] hint = "long"    -> "max_wait"

Record(error) ==
    attempts' = Append(attempts, [provider |-> Current, key |-> key, error |-> error])

(* The turn ends: an exception unwinds the chain or the response is returned. *)
End(how) ==
    /\ result' = how
    /\ link' = "done"

(* Mutant: the failed candidate goes to the back of the list. *)
FallBackRequeues ==
    /\ candidates' = Append(Tail(candidates), Current)
    /\ credentials' = 0
    /\ reservation' = None
    /\ key' = 1
    /\ attempt' = 1
    /\ link' = "perimeter"
    /\ UNCHANGED result

(* Mutant: reset_candidate_state forgets the reservation field. *)
FallBackKeepsReservation ==
    /\ candidates' = Tail(candidates)
    /\ credentials' = 0
    /\ reservation' = reservation
    /\ key' = 1
    /\ attempt' = 1
    /\ IF Len(candidates) = 1
       THEN End("AllProvidersExhausted")
       ELSE link' = "perimeter" /\ UNCHANGED result

(* FALLBACK: drop the candidate, clear its scratch state, restart or give up.  *)
FallBack ==
    /\ candidates' = Tail(candidates)
    /\ credentials' = 0
    /\ reservation' = None
    /\ key' = 1
    /\ attempt' = 1
    /\ IF Len(candidates) = 1
       THEN End("AllProvidersExhausted")
       ELSE link' = "perimeter" /\ UNCHANGED result

(* Mutant: pooled keys are not rotated through. *)
LeaveKeyAndProvider == FallBack

(* This credential is done: rotate to the next pooled key, or fall back. *)
LeaveKey ==
    IF HasMoreCredentials
    THEN /\ key' = key + 1
         /\ attempt' = 1
         /\ link' = "invoke"
         /\ UNCHANGED <<candidates, credentials, reservation, result>>
    ELSE FallBack

-------------------------------------------------------------------------------
Init ==
    /\ turn \in Turn
    /\ candidates = turn.route
    /\ link = IF turn.route = <<>> THEN "done" ELSE "perimeter"
    /\ result = IF turn.route = <<>> THEN "AllProvidersExhausted" ELSE "pending"
    /\ credentials = 0
    /\ key = 1
    /\ attempt = 1
    /\ wait = None
    /\ reservation = None
    /\ attempts = <<>>

PerimeterAdmits ==
    /\ link = "perimeter"
    /\ turn.admissible
    /\ link' = "credential"
    /\ UNCHANGED <<turn, candidates, credentials, key, attempt, wait,
                   reservation, attempts, result>>

PerimeterRejects ==
    /\ link = "perimeter"
    /\ ~turn.admissible
    /\ End("PerimeterViolation")
    /\ UNCHANGED <<turn, candidates, credentials, key, attempt, wait,
                   reservation, attempts>>

ResolveCredentials ==
    /\ link = "credential"
    /\ Resolved(Current) > 0
    /\ credentials' = Resolved(Current)
    /\ link' = "quota"
    /\ UNCHANGED <<turn, candidates, key, attempt, wait, reservation,
                   attempts, result>>

(* A candidate without a credential ends the turn, wherever it is in the list. *)
NoCredential ==
    /\ link = "credential"
    /\ Resolved(Current) = 0
    /\ End("AuthenticationError")
    /\ UNCHANGED <<turn, candidates, credentials, key, attempt, wait,
                   reservation, attempts>>

(* Mutant: the reservation is made for the provider routed first. *)
QuotaGrantsFirst ==
    /\ link = "quota"
    /\ reservation' = turn.route[1]
    /\ link' = "invoke"
    /\ UNCHANGED <<turn, candidates, credentials, key, attempt, wait,
                   attempts, result>>

(* ALLOW and SOFT_LIMIT differ only in a warning nothing reads. *)
QuotaGrants ==
    /\ link = "quota"
    /\ reservation' = Current
    /\ link' = "invoke"
    /\ UNCHANGED <<turn, candidates, credentials, key, attempt, wait,
                   attempts, result>>

(* Mutant: the chain restarts without dropping the denied candidate. *)
QuotaDeniesRestarts ==
    /\ link = "quota"
    /\ turn.zeroSetup /\ CheaperFreeRemaining
    /\ link' = "perimeter"
    /\ UNCHANGED <<turn, candidates, credentials, key, attempt, wait,
                   reservation, attempts, result>>

QuotaDeniesFallsBack ==
    /\ link = "quota"
    /\ turn.zeroSetup /\ CheaperFreeRemaining
    /\ FallBack
    /\ UNCHANGED <<turn, wait, attempts>>

QuotaDeniesHandsOff ==
    /\ link = "quota"
    /\ ~(turn.zeroSetup /\ CheaperFreeRemaining)
    /\ \E window \in Windows : End(HandoffStatus(window))
    /\ UNCHANGED <<turn, candidates, credentials, key, attempt, wait,
                   reservation, attempts>>

(* The reservation is committed against the usage of this response. *)
CallSucceeds ==
    /\ link = "invoke"
    /\ Record(None)
    /\ End("answered")
    /\ UNCHANGED <<turn, candidates, credentials, key, attempt, wait, reservation>>

CallFailsWaits ==
    /\ link = "invoke"
    /\ \E class \in ErrorClass, hint \in Hints :
         /\ RetriesSameKey(class, hint)
         /\ Record(class)
         /\ wait' = BackoffDelay(hint)
    /\ link' = "backoff"
    /\ UNCHANGED <<turn, candidates, credentials, key, attempt, reservation, result>>

CallFailsMovesOn ==
    /\ link = "invoke"
    /\ \E class \in ErrorClass, hint \in Hints :
         /\ ~RetriesSameKey(class, hint)
         /\ GivesUpKey(class)
         /\ Record(class)
    /\ LeaveKey
    /\ UNCHANGED <<turn, wait>>

CallFailsTerminally ==
    /\ link = "invoke"
    /\ \E class \in ErrorClass, hint \in Hints :
         /\ ~RetriesSameKey(class, hint)
         /\ ~GivesUpKey(class)
         /\ Record(class)
         /\ End(TerminalError(class))
    /\ UNCHANGED <<turn, candidates, credentials, key, attempt, wait, reservation>>

(* A library exception raised by an adapter is propagated unrecorded. *)
CallRaises ==
    /\ link = "invoke"
    /\ End("DispatcherError")
    /\ UNCHANGED <<turn, candidates, credentials, key, attempt, wait,
                   reservation, attempts>>

(* Mutant: sleeping does not use up an attempt. *)
BackoffForgetsAttempt ==
    /\ link = "backoff"
    /\ wait' = None
    /\ link' = "invoke"
    /\ UNCHANGED <<turn, candidates, credentials, key, attempt, reservation,
                   attempts, result>>

(* The loop continues after the sleep, if its range has an attempt left. *)
BackoffElapses ==
    /\ link = "backoff"
    /\ wait' = None
    /\ IF attempt < MaxAttempts
       THEN /\ attempt' = attempt + 1
            /\ link' = "invoke"
            /\ UNCHANGED <<candidates, credentials, key, reservation, result>>
       ELSE LeaveKey
    /\ UNCHANGED <<turn, attempts>>

(* asyncio.wait_for cancels the turn at one of its two await points. *)
Cancel ==
    /\ link \in {"invoke", "backoff"}
    /\ End("Cancelled")
    /\ UNCHANGED <<turn, candidates, credentials, key, attempt, wait,
                   reservation, attempts>>

Step ==
    \/ PerimeterAdmits \/ PerimeterRejects
    \/ ResolveCredentials \/ NoCredential
    \/ QuotaGrants \/ QuotaDeniesFallsBack \/ QuotaDeniesHandsOff
    \/ CallSucceeds \/ CallFailsWaits \/ CallFailsMovesOn
    \/ CallFailsTerminally \/ CallRaises
    \/ BackoffElapses

Next == Step \/ Cancel

Spec == Init /\ [][Next]_vars

(* Vendor SDKs give up on their own after their default timeout, and a sleep   *)
(* is bounded; nobody has to cancel.                                           *)
FairSpec == Spec /\ WF_vars(Step)

-------------------------------------------------------------------------------
(* Properties *)

IndexIn(route, provider) == CHOOSE i \in 1..Len(route) : route[i] = provider

Position(provider) == IndexIn(turn.route, provider)

SameSlot(a, b) == a.provider = b.provider /\ a.key = b.key

Attempted(provider) == {n \in 1..MaxKeys : \E i \in 1..Len(attempts) :
                          attempts[i].provider = provider /\ attempts[i].key = n}

(* Every variable holds a value of its kind. *)
TypeOK ==
    /\ turn \in Turn
    /\ candidates \in Seq(Providers)
    /\ link \in Links
    /\ credentials \in 0..MaxKeys
    /\ key \in 1..MaxKeys
    /\ attempt \in 1..MaxAttempts
    /\ wait \in Waits
    /\ reservation \in Providers \union {None}
    /\ attempts \in Seq(Attempt)
    /\ result \in Results

(* The audit trail walks the route and, within a provider, its keys from the   *)
(* front: a turn never goes back to a provider or key it left (the pop(0) and  *)
(* the for loop of handlers.py).                                               *)
AttemptsInOrder ==
    \A i, j \in 1..Len(attempts) : i < j =>
        \/ Position(attempts[i].provider) < Position(attempts[j].provider)
        \/ /\ attempts[i].provider = attempts[j].provider
           /\ attempts[i].key <= attempts[j].key

(* One key of one provider is called at most max_attempts times in a turn,     *)
(* whatever mixture of transient failures and waited-out rate limits it gives. *)
RetryBudget ==
    \A i, j \in 1..Len(attempts) :
        SameSlot(attempts[i], attempts[j]) => j - i < MaxAttempts

(* Only the last attempt can have succeeded or failed for good; after an auth  *)
(* failure nothing but the next pooled key of that provider is tried.          *)
NothingAfterTerminal ==
    \A i \in 1..(Len(attempts) - 1) :
        /\ attempts[i].error \notin {None, "invalid", "content"}
        /\ attempts[i].error = "auth" =>
             /\ attempts[i + 1].provider = attempts[i].provider
             /\ attempts[i + 1].key = attempts[i].key + 1

(* A key that ran out of quota is never called again, and a rate-limited one   *)
(* only when it is the last key of the last provider of the route: with        *)
(* anywhere else to go failover is immediate.                                  *)
FailoverIsImmediate ==
    \A i \in 1..(Len(attempts) - 1) :
        SameSlot(attempts[i], attempts[i + 1]) =>
            \/ attempts[i].error = "transient"
            \/ /\ attempts[i].error = "rate_limit"
               /\ Position(attempts[i].provider) = Len(turn.route)
               /\ attempts[i].key = Resolved(attempts[i].provider)

(* A response is returned exactly when the last call succeeded, and the        *)
(* reservation that is then committed was made for the provider that answered. *)
CommitMatchesWinner ==
    LET answered == attempts # <<>> /\ attempts[Len(attempts)].error = None
    IN  /\ result = "answered" <=> answered
        /\ answered => reservation = attempts[Len(attempts)].provider

(* A candidate's reservation is let go before the next one is made: the quota  *)
(* manager sees at most one open reservation per turn, as QuotaManager assumes.*)
ReserveOnlyWhenFree ==
    [][reservation' # reservation => None \in {reservation, reservation'}]_vars

(* AllProvidersExhausted is raised only when every key of every candidate has  *)
(* been called, except candidates a zero-setup tenant had no quota for while a *)
(* free candidate was still to come.                                           *)
ExhaustionIsThorough ==
    result = "AllProvidersExhausted" =>
        \A i \in 1..Len(turn.route) :
            \/ Attempted(turn.route[i]) = 1..Resolved(turn.route[i])
            \/ /\ Attempted(turn.route[i]) = {}
               /\ turn.zeroSetup
               /\ \E j \in (i + 1)..Len(turn.route) : turn.route[j] \in FreeTier

(* Every turn ends, if calls and sleeps do. *)
Termination == <>(link = "done")

-------------------------------------------------------------------------------
(* Abstract views of the turn *)

(* The walk over provider/key slots (see Failover). *)
Walk == INSTANCE Failover WITH
    keys    <- [i \in 1..Len(turn.route) |-> Resolved(turn.route[i])],
    slot    <- <<Len(turn.route) - Len(candidates) + 1, key>>,
    tried   <- {<<Position(attempts[i].provider), attempts[i].key>> :
                  i \in 1..Len(attempts)},
    outcome <- IF result \in {"pending", "answered"} THEN result
               ELSE IF result = "AllProvidersExhausted" THEN "exhausted"
               ELSE "aborted"

(* A turn walks its slots in order and reports exhaustion only at the end. *)
WalksInOrder == Walk!Spec

===============================================================================
