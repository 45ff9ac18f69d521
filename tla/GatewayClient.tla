----------------------------- MODULE GatewayClient -----------------------------
(* GatewayClient.dispatch of the TypeScript client and the wizard of            *)
(* useGateway: App Check -> Auth -> retry -> timeout -> fetch, then the decoder *)
(* outside all of them.  A call is one dispatch; its n-th request is the n-th   *)
(* time the inner layers are driven.                                            *)
EXTENDS Integers

CONSTANTS
    Calls,        (* the dispatches a page makes                                *)
    MaxRetries    (* policy.maxRetries: attempts after the first                *)

Requests == Calls \X (1..(MaxRetries + 1))

RetryableStatuses == {500, 502, 503, 504}

VARIABLES
    call,     (* each dispatch: where it is, how often it was sent, how it ended *)
    sent,     (* the requests that left the browser                             *)
    wizard    (* the status the key wizard is open for, 0 when it is closed     *)

clientVars == <<call, sent, wizard>>

Fresh == [phase |-> "tokens", attempt |-> 1, status |-> 0, outcome |-> "none"]

(* outcome.kind, or "rejected" when the promise itself is. *)
Outcomes == {"ok", "handoff", "error", "network", "rejected"}

Current(c) == <<c, call[c].attempt>>

ClientInit ==
    /\ call = [c \in Calls |-> Fresh]
    /\ sent = {}
    /\ wizard = 0

Moves(c, phase) == call' = [call EXCEPT ![c].phase = phase]

Settles(c, outcome) ==
    call' = [call EXCEPT ![c].phase = "settled", ![c].outcome = outcome]

(* next(config) of the retry layer; with a signal that was aborted while the    *)
(* call slept or asked for tokens, fetch throws and nothing is sent.            *)
Sends(c, attempt) ==
    \/ Settles(c, "network") /\ UNCHANGED sent
    \/ /\ call' = [call EXCEPT ![c].phase = "sending", ![c].attempt = attempt]
       /\ sent' = sent \union {<<c, attempt>>}

(* The token interceptors, once per call: a token provider that rejects is a    *)
(* transport failure like any other.                                            *)
TokensReady(c) ==
    /\ call[c].phase = "tokens"
    /\ Sends(c, 1)
    /\ UNCHANGED wizard

(* Mutant: a request that timed out is sent again. *)
SendFailsRetried(c) ==
    /\ call[c].phase = "sending"
    /\ IF call[c].attempt <= MaxRetries THEN Moves(c, "backoff")
       ELSE Settles(c, "network")
    /\ UNCHANGED <<sent, wizard>>

(* The timer fires, the connection breaks or the signal is aborted before the   *)
(* headers are in: thrown through the retry layer, caught by dispatch.  The     *)
(* request itself may be on its way, or being served.                           *)
SendFails(c) ==
    /\ call[c].phase = "sending"
    /\ Settles(c, "network")
    /\ UNCHANGED <<sent, wizard>>

(* The while condition of the retry layer; the attempt counts from 1 here.      *)
Retries(c, status) ==
    status \in RetryableStatuses /\ call[c].attempt <= MaxRetries

(* Headers: the timer is disarmed, and only then does the status count. *)
HeadersArrive(c, status) ==
    /\ call[c].phase = "sending"
    /\ call' = [call EXCEPT
         ![c].status = status,
         ![c].phase = IF Retries(c, status) THEN "backoff" ELSE "reading"]
    /\ UNCHANGED <<sent, wizard>>

(* The sleep does not look at the signal; the next send does. *)
BackoffElapses(c) ==
    /\ call[c].phase = "backoff"
    /\ Sends(c, call[c].attempt + 1)
    /\ UNCHANGED wizard

(* decodeOutcome; a handoff is published on the bus, and the wizard opens,      *)
(* before the outcome is returned.                                              *)
BodyRead(c) ==
    /\ call[c].phase = "reading"
    /\ LET status == call[c].status
       IN  CASE status = 200 -> Settles(c, "ok") /\ UNCHANGED wizard
             [] status \in {402, 429} -> Settles(c, "handoff") /\ wizard' = status
             [] OTHER -> Settles(c, "error") /\ UNCHANGED wizard
    /\ UNCHANGED sent

(* The connection breaks, or the signal is aborted, under response.text():      *)
(* nothing catches it.                                                          *)
BodyFails(c) ==
    /\ call[c].phase = "reading"
    /\ Settles(c, "rejected")
    /\ UNCHANGED <<sent, wizard>>

DismissWizard ==
    /\ wizard # 0
    /\ wizard' = 0
    /\ UNCHANGED <<call, sent>>

(* What happens to a call once it is started, besides headers.  Only a request  *)
(* on its way and a sleep have a timer: nothing makes a body that stalls end.   *)
Proceeds(c) ==
    TokensReady(c) \/ SendFails(c) \/ BackoffElapses(c) \/ BodyRead(c) \/ BodyFails(c)

===============================================================================
