------------------------------ MODULE Deployment ------------------------------
(* The Vercel template end to end: pages that dispatch through GatewayClient,   *)
(* a network that delays, loses and delivers late, and the instances of         *)
(* VercelApi.  A request whose client gave up is served, and charged, like any  *)
(* other.                                                                       *)
EXTENDS GatewayClient, FiniteSets, Functions

CONSTANTS
    Tenants, Instances, Cap, MinuteCap, DayCap, Actuals, Candidates, MaxWindows,
    Modes,        (* how the deployment is configured                           *)
    Envelopes     (* what a page may put on the wire: headers and body          *)

VARIABLES
    mode, rpm, tpm, tpd, windows, work,
    envelope      (* what each call carries, the same on every retry            *)

Api == INSTANCE VercelApi

serverVars == <<mode, rpm, tpm, tpd, windows, work>>

vars == <<clientVars, serverVars, envelope>>

ASSUME DeploymentAssumption ==
    /\ IsFiniteSet(Calls) /\ IsFiniteSet(Instances)
    /\ MaxRetries \in Nat /\ Candidates \in Nat \ {0}
    /\ Cap \in Nat /\ MinuteCap \in Nat /\ DayCap \in Nat /\ Actuals \subseteq Nat
    /\ MaxWindows \in Nat \ {0}
    /\ Modes \subseteq Api!Mode
    /\ Envelopes \subseteq Api!Envelope

Init ==
    /\ ClientInit
    /\ Api!ApiInit /\ mode \in Modes
    /\ envelope \in [Calls -> Envelopes]

ClientStep(c) ==
    /\ Proceeds(c)
    /\ UNCHANGED <<serverVars, envelope>>

Delivers(r) ==
    /\ r \in sent
    /\ \E i \in Instances : Api!Receive(r, envelope[r[1]], i)
    /\ UNCHANGED <<clientVars, envelope>>

Serves(r) ==
    /\ Api!Serve(r, envelope[r[1]])
    /\ UNCHANGED <<clientVars, envelope>>

(* The headers of an answer reach the page, if it still waits for them. *)
Responds(c) ==
    /\ work[Current(c)].stage = "answered"
    /\ HeadersArrive(c, work[Current(c)].status)
    /\ UNCHANGED <<serverVars, envelope>>

Recycles ==
    /\ \E i \in Instances : Api!Recycle(i)
    /\ UNCHANGED <<clientVars, envelope>>

TimePasses ==
    /\ \E i \in Instances : Api!PeriodEnds(i)
    /\ UNCHANGED <<clientVars, envelope>>

Dismisses == DismissWizard /\ UNCHANGED <<serverVars, envelope>>

Next ==
    \/ \E c \in Calls : ClientStep(c) \/ Responds(c)
    \/ \E r \in Requests : Delivers(r) \/ Serves(r)
    \/ Recycles \/ TimePasses \/ Dismisses

Spec == Init /\ [][Next]_vars

-------------------------------------------------------------------------------
(* Properties *)

InService(r) == work[r].stage \in {"running", "calling"}

(* One click keeps at most one request in service, and every request but the    *)
(* last was answered with a fault worth retrying: timeouts and cancellations    *)
(* are not retried, whatever still runs on the server, and a handoff ends the   *)
(* call.                                                                        *)
OneRequestAtATime ==
    \A c \in Calls :
      /\ Cardinality({r \in Requests : r[1] = c /\ InService(r)}) <= 1
      /\ \A n \in 1..MaxRetries : <<c, n + 1>> \in sent =>
           /\ work[<<c, n>>].stage = "answered"
           /\ work[<<c, n>>].status \in RetryableStatuses

(* What a tenant was ever granted, on whatever instance. *)
Granted(t) ==
    SumFunctionOnSet([r \in Requests |-> IF work[r].tenant = t THEN work[r].grants ELSE 0],
                     Requests)

(* What a tenant is granted, over all instances, is bounded by the cap times    *)
(* the request windows the instances opened, and by nothing less: every cold    *)
(* start and every further instance begins with empty counters.                 *)
GrantsPerWindow ==
    \A t \in Tenants :
      Granted(t) <= Cap * SumFunctionOnSet(windows, Instances)

(* Nobody is charged but the tenant the server can vouch for, for requests that *)
(* passed every guard: with the guards enforced, what a page declares about     *)
(* itself moves no counter.                                                     *)
ChargesAreVouchedFor ==
    \A r \in Requests : work[r].grants > 0 =>
      LET e == envelope[r[1]]
      IN  /\ r \in sent
          /\ mode.appCheck = "enforce" => mode.serviceAccount /\ e.attestation = "valid"
          /\ mode.auth = "enforce" => mode.serviceAccount /\ work[r].tenant = e.uid
          /\ mode.auth = "disabled" => work[r].tenant = e.declared
          /\ e.parses

(* What a tenant was ever charged in tokens, on whatever instance. *)
Spent(t) ==
    SumFunctionOnSet([r \in Requests |-> IF work[r].tenant = t THEN work[r].spent ELSE 0],
                     Requests)

(* What the candidate a request has come to would have cost. *)
Asked(r) == envelope[r[1]].estimates[work[r].candidate]

(* The wizard opens when a call ends in a handoff and for nothing else, with    *)
(* the status that was answered.  A page is told to retry later only if its     *)
(* tenant had the whole request cap somewhere, or what it asked for would have  *)
(* brought its tokens over the minute's budget; it is told to upgrade only if   *)
(* they would have gone over the day's.                                         *)
WizardOpensForHandoff ==
    [][\A c \in Calls : call'[c].outcome # call[c].outcome =>
         /\ wizard' # wizard => call'[c].outcome = "handoff"
         /\ call'[c].outcome = "handoff" =>
              LET r == Current(c)
                  t == work[r].tenant
              IN  /\ wizard' = work[r].status
                  /\ wizard' = 429 => Granted(t) >= Cap \/ Spent(t) + Asked(r) > MinuteCap
                  /\ wizard' = 402 => Spent(t) + Asked(r) > DayCap]_vars

-------------------------------------------------------------------------------
(* What the documentation says and the code does not do *)

(* dispatch "Never rejects: transport failures surface as { kind: "network" }". *)
NeverRejects == \A c \in Calls : call[c].outcome # "rejected"

===============================================================================
