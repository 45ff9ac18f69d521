------------------------------- MODULE VercelApi -------------------------------
(* The serverless side of the template: instances that run run_dispatch on one  *)
(* request at a time, guards first, over a gateway whose quota counters live in *)
(* the instance's memory.  The turn of a dispatch is what FallbackChain shows:  *)
(* every candidate reserves anew and nothing is given back for one that fails.  *)
(* A window resets at a period, not lazily at its next access: QuotaManager     *)
(* shows that nobody can tell the two apart.                                    *)
(* The demo backend is the same pipeline without the guards, on one instance.   *)
(* The platform is external: it starts instances, and kills them at any time.   *)
EXTENDS Integers, Functions

CONSTANTS
    Requests,      (* the requests that may ever be sent                        *)
    Tenants,       (* who quota is counted for                                  *)
    Instances,     (* the serverless instances                                  *)
    Cap,           (* requests_per_min                                          *)
    MinuteCap,     (* tokens_per_min                                            *)
    DayCap,        (* tokens_per_day                                            *)
    Actuals,       (* what usage.total_tokens may turn out to be                *)
    Candidates,    (* how many providers a dispatch is routed                   *)
    MaxWindows     (* bound: the request windows opened, all instances together *)

VARIABLES
    mode,          (* the environment: the guards' modes, a usable account      *)
    rpm, tpm, tpd, (* _STORE of each instance: the three counters by tenant     *)
    windows,       (* the request windows each instance opened: one with every  *)
                   (* start, one with every minute that passes                  *)
    work           (* what became of each request                               *)

Mode == [appCheck : {"enforce", "disabled"}, auth : {"enforce", "disabled"},
         serviceAccount : BOOLEAN]

(* What the handler reads off the socket: the App Check token, the uid of the   *)
(* bearer token, whether the body parses, the tenant id it declares, and a      *)
(* prompt, by what each candidate estimates it to cost.                         *)
Envelope == [attestation : {"missing", "invalid", "valid"},
             uid : Tenants \union {"missing", "invalid"},
             parses : BOOLEAN, declared : Tenants,
             estimates : [1..Candidates -> Nat]]

(* spent is what the request was charged in tokens, refunds left aside. *)
Idle == [stage |-> "unseen", at |-> "nowhere", tenant |-> "nobody", candidate |-> 0,
         grants |-> 0, spent |-> 0, status |-> 0]

(* http_status of what a dispatch ends in, a breached quota apart.  What the    *)
(* handler does not catch is a 500 of the platform.                             *)
HttpStatus ==
    [AuthenticationError |-> 401, TerminalError |-> 502, AllProvidersExhausted |-> 503]

-------------------------------------------------------------------------------
(* The guards of run_dispatch, in their order *)

(* Verifying needs the default Firebase app: a bad service account raises       *)
(* something no guard catches, but a missing token is refused before.           *)
AppCheckFails(e) ==
    /\ mode.appCheck = "enforce"
    /\ \/ e.attestation = "missing"
       \/ mode.serviceAccount /\ e.attestation = "invalid"

AppCheckCrashes(e) ==
    mode.appCheck = "enforce" /\ e.attestation # "missing" /\ ~mode.serviceAccount

AuthFails(e) ==
    /\ mode.auth = "enforce"
    /\ e.uid = "missing" \/ (mode.serviceAccount /\ e.uid = "invalid")

AuthCrashes(e) ==
    mode.auth = "enforce" /\ e.uid # "missing" /\ ~mode.serviceAccount

(* The verdict of the guards: a status, or 0 to go on. *)
Guarded(e) ==
    CASE AppCheckFails(e)   -> 403
      [] AppCheckCrashes(e) -> 500
      [] OTHER ->
           CASE AuthFails(e)   -> 401
             [] AuthCrashes(e) -> 500
             [] OTHER          -> IF e.parses THEN 0 ELSE 400

(* Mutant: what the body declares is believed first. *)
DeclaredTenant(e) == e.declared

(* claims.uid or declared_tenant_id: only the no-op verifier claims nothing.    *)
TenantOf(e) == IF mode.auth = "enforce" THEN e.uid ELSE e.declared

-------------------------------------------------------------------------------
NoCounts == [i \in Instances |-> [t \in Tenants |-> 0]]

ApiInit ==
    /\ mode \in Mode
    /\ rpm = NoCounts /\ tpm = NoCounts /\ tpd = NoCounts
    /\ windows = [i \in Instances |-> 1]
    /\ work = [r \in Requests |-> Idle]

Busy(i) == \E r \in Requests : work[r].at = i /\ work[r].stage \in {"running", "calling"}

Receive(r, e, i) ==
    /\ work[r].stage = "unseen" /\ ~Busy(i)
    /\ work' = [work EXCEPT ![r] =
         IF Guarded(e) = 0
         THEN [Idle EXCEPT !.stage = "running", !.at = i, !.tenant = TenantOf(e),
                           !.candidate = 1]
         ELSE [Idle EXCEPT !.stage = "answered", !.at = i, !.status = Guarded(e)]]
    /\ UNCHANGED <<mode, rpm, tpm, tpd, windows>>

Answered(r, status) ==
    work' = [work EXCEPT ![r].stage = "answered", ![r].status = status]

-------------------------------------------------------------------------------
(* A reservation: three windows, read in this order, charged when all allow it *)

Estimate(r, e) == e.estimates[work[r].candidate]

Count(counter, r) == counter[work[r].at][work[r].tenant]

RequestsFull(r) == Count(rpm, r) + 1 > Cap

MinuteFull(r, e) == RequestsFull(r) \/ Count(tpm, r) + Estimate(r, e) > MinuteCap

DayFull(r, e) == Count(tpd, r) + Estimate(r, e) > DayCap

Charged(counter, r, amount) ==
    [counter EXCEPT ![work[r].at][work[r].tenant] = @ + amount]

Charges(r, amount) ==
    /\ rpm' = Charged(rpm, r, 1)
    /\ tpm' = Charged(tpm, r, amount)
    /\ tpd' = Charged(tpd, r, amount)
    /\ work' = [work EXCEPT ![r].stage = "calling", ![r].grants = @ + 1,
                            ![r].spent = @ + amount]
    /\ UNCHANGED <<mode, windows>>

(* Mutant: the request is compared before it is added. *)
GrantTooMany(r, e) ==
    /\ work[r].stage = "running"
    /\ Count(rpm, r) <= Cap
    /\ Count(tpm, r) + Estimate(r, e) <= MinuteCap
    /\ ~DayFull(r, e)
    /\ Charges(r, Estimate(r, e))

Grant(r, e) ==
    /\ work[r].stage = "running"
    /\ ~MinuteFull(r, e) /\ ~DayFull(r, e)
    /\ Charges(r, Estimate(r, e))

(* Mutant: rate_window is left at its default. *)
HandoffStatusByDefault(minuteFull) == 402

(* A breach of a window of a minute asks to retry later, one of the day to      *)
(* upgrade.                                                                     *)
HandoffStatus(minuteFull) == IF minuteFull THEN 429 ELSE 402

(* The free tier is routed first: no cheaper candidate is left to fall back to. *)
Deny(r, e) ==
    /\ work[r].stage = "running"
    /\ MinuteFull(r, e) \/ DayFull(r, e)
    /\ Answered(r, HandoffStatus(MinuteFull(r, e)))
    /\ UNCHANGED <<mode, rpm, tpm, tpd, windows>>

-------------------------------------------------------------------------------
(* The call, and the platform *)

(* The commit puts the actual usage in the place of the estimate, in whatever   *)
(* window is open by then; what it gives back is not taken off what was spent.  *)
CallSucceeds(r, e) ==
    /\ work[r].stage = "calling"
    /\ \E actual \in Actuals :
         LET delta == actual - Estimate(r, e)
         IN  /\ tpm' = Charged(tpm, r, delta)
             /\ tpd' = Charged(tpd, r, delta)
             /\ work' = [work EXCEPT ![r].stage = "answered", ![r].status = 200,
                                     ![r].spent = IF delta > 0 THEN @ + delta ELSE @]
    /\ UNCHANGED <<mode, rpm, windows>>

CallFallsBack(r) ==
    /\ work[r].stage = "calling"
    /\ IF work[r].candidate < Candidates
       THEN work' = [work EXCEPT ![r].stage = "running", ![r].candidate = @ + 1]
       ELSE Answered(r, HttpStatus.AllProvidersExhausted)
    /\ UNCHANGED <<mode, rpm, tpm, tpd, windows>>

CallIsTerminal(r) ==
    /\ work[r].stage = "calling"
    /\ \E error \in {"AuthenticationError", "TerminalError"} :
         Answered(r, HttpStatus[error])
    /\ UNCHANGED <<mode, rpm, tpm, tpd, windows>>

Emptied(counter, i) == [counter EXCEPT ![i] = [t \in Tenants |-> 0]]

OpensWindow(i) ==
    /\ SumFunctionOnSet(windows, Instances) < MaxWindows
    /\ windows' = [windows EXCEPT ![i] = @ + 1]
    /\ rpm' = Emptied(rpm, i)
    /\ tpm' = Emptied(tpm, i)
    /\ UNCHANGED mode

(* A minute passes by the clock of an instance, and a day with some of them.    *)
PeriodEnds(i) ==
    /\ OpensWindow(i)
    /\ tpd' \in {tpd, Emptied(tpd, i)}
    /\ UNCHANGED work

(* The platform ends an instance, or a request that ran too long with it; the   *)
(* next one starts with empty counters.                                         *)
Recycle(i) ==
    /\ OpensWindow(i)
    /\ tpd' = Emptied(tpd, i)
    /\ work' = [r \in Requests |->
         IF work[r].at = i /\ work[r].stage \in {"running", "calling"}
         THEN [work[r] EXCEPT !.stage = "answered", !.status = 504] ELSE work[r]]

Serve(r, e) ==
    \/ Grant(r, e) \/ Deny(r, e)
    \/ CallSucceeds(r, e) \/ CallFallsBack(r) \/ CallIsTerminal(r)

===============================================================================
