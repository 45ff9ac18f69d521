---------------------------- MODULE DeploymentProofs ----------------------------
(* Proofs about Deployment, for every number of pages, instances and retries.   *)
EXTENDS Deployment, DataLemmas

Phases == {"tokens", "sending", "backoff", "reading", "settled"}

CallRecord == [phase : Phases, attempt : 1..(MaxRetries + 1), status : Nat,
               outcome : Outcomes \union {"none"}]

Work == [stage : {"unseen", "running", "calling", "answered"},
         at : Instances \union {"nowhere"},
         tenant : Tenants \union {"missing", "invalid", "nobody"},
         candidate : Nat, grants : Nat, spent : Nat, status : Nat]

Types ==
    /\ call \in [Calls -> CallRecord]
    /\ sent \subseteq Requests
    /\ work \in [Requests -> Work]
    /\ mode \in Api!Mode
    /\ envelope \in [Calls -> Envelopes]

(* The server only knows what was sent, and answers for good.                   *)
SeenWasSent == \A r \in Requests : work[r].stage # "unseen" => r \in sent

Failed(r) == work[r].stage = "answered" /\ work[r].status \in RetryableStatuses

(* The request a call waits for is the last one it sent; those before it, and   *)
(* that one while the call sleeps, were answered with a fault worth retrying.   *)
ClientWaits ==
    \A c \in Calls, n \in 1..(MaxRetries + 1) :
        /\ <<c, n>> \in sent => n <= call[c].attempt
        /\ <<c, n>> \in sent => call[c].phase # "tokens"
        /\ n < call[c].attempt => Failed(<<c, n>>)
        /\ call[c].phase = "backoff" /\ n = call[c].attempt =>
             n <= MaxRetries /\ Failed(<<c, n>>)

(* A request that got past the guards, and whoever it is charged to; in service *)
(* it is at one of the candidates.                                              *)
Vouched ==
    \A r \in Requests :
        /\ (InService(r) \/ work[r].grants > 0) =>
             /\ r \in sent
             /\ Api!Guarded(envelope[r[1]]) = 0
             /\ work[r].tenant = Api!TenantOf(envelope[r[1]])
        /\ InService(r) => work[r].candidate \in 1..Candidates

IInv == Types /\ SeenWasSent /\ ClientWaits /\ Vouched

-------------------------------------------------------------------------------
(* The client *)

(* A step of one call, which may send its next request.                         *)
CallStep(c) ==
    /\ call' \in [Calls -> CallRecord]
    /\ \A d \in Calls : d # c => call'[d] = call[d]

LEMMA ConstantTypes ==
    /\ MaxRetries \in Nat /\ Candidates \in Nat \ {0}
    /\ Cap \in Nat /\ MinuteCap \in Nat /\ DayCap \in Nat /\ Actuals \subseteq Nat
    /\ Modes \subseteq Api!Mode /\ Envelopes \subseteq Api!Envelope
BY DeploymentAssumption

LEMMA MovesEffect ==
    ASSUME Types, NEW c \in Calls, NEW phase \in Phases, Moves(c, phase)
    PROVE  /\ CallStep(c) /\ call'[c].phase = phase
           /\ call'[c].attempt = call[c].attempt /\ call'[c].outcome = call[c].outcome
<1>1. call[c] \in CallRecord
  BY DEF Types
<1>2. call'[c] = [phase |-> phase, attempt |-> call[c].attempt,
                  status |-> call[c].status, outcome |-> call[c].outcome]
  BY <1>1 DEF Moves, Types, CallRecord
<1>3. call'[c] \in CallRecord
  BY <1>1, <1>2 DEF CallRecord
<1> QED BY <1>2, <1>3 DEF CallStep, Moves, Types

LEMMA SettlesEffect ==
    ASSUME Types, NEW c \in Calls, NEW how \in Outcomes, Settles(c, how)
    PROVE  /\ CallStep(c) /\ call'[c].phase = "settled"
           /\ call'[c].attempt = call[c].attempt /\ call'[c].outcome = how
<1>1. call[c] \in CallRecord
  BY DEF Types
<1>2. call'[c] = [phase |-> "settled", attempt |-> call[c].attempt,
                  status |-> call[c].status, outcome |-> how]
  BY <1>1 DEF Settles, Types, CallRecord
<1>3. call'[c] \in CallRecord
  BY <1>1, <1>2 DEF CallRecord, Phases
<1> QED BY <1>2, <1>3 DEF CallStep, Settles, Types

LEMMA SendsEffect ==
    ASSUME Types, NEW c \in Calls, NEW n \in 1..(MaxRetries + 1), Sends(c, n)
    PROVE  /\ CallStep(c)
           /\ \/ /\ call'[c].phase = "settled" /\ call'[c].attempt = call[c].attempt
                 /\ sent' = sent
              \/ /\ call'[c].phase = "sending" /\ call'[c].attempt = n
                 /\ sent' = sent \union {<<c, n>>}
<1>1. CASE Settles(c, "network") /\ UNCHANGED sent
  BY <1>1, SettlesEffect DEF Outcomes
<1>2. CASE /\ call' = [call EXCEPT ![c].phase = "sending", ![c].attempt = n]
           /\ sent' = sent \union {<<c, n>>}
  <2>1. call[c] \in CallRecord
    BY DEF Types
  <2>2. call'[c] = [phase |-> "sending", attempt |-> n,
                    status |-> call[c].status, outcome |-> call[c].outcome]
    BY <1>2, <2>1 DEF Types, CallRecord
  <2>3. call'[c] \in CallRecord
    BY <2>1, <2>2 DEF CallRecord, Phases
  <2> QED BY <1>2, <2>2, <2>3 DEF CallStep, Types
<1> QED BY <1>1, <1>2 DEF Sends

LEMMA HeadersEffect ==
    ASSUME Types, NEW c \in Calls, NEW status \in Nat, HeadersArrive(c, status)
    PROVE  /\ CallStep(c) /\ call'[c].attempt = call[c].attempt /\ sent' = sent
           /\ call[c].phase = "sending"
           /\ call'[c].phase = IF Retries(c, status) THEN "backoff" ELSE "reading"
<1> DEFINE phase == IF Retries(c, status) THEN "backoff" ELSE "reading"
<1>1. call[c] \in CallRecord /\ phase \in Phases
  BY DEF Types, Phases
<1>2. call'[c] = [phase |-> phase, attempt |-> call[c].attempt,
                  status |-> status, outcome |-> call[c].outcome]
  BY <1>1 DEF HeadersArrive, Types, CallRecord
<1>3. call'[c] \in CallRecord
  BY <1>1, <1>2 DEF CallRecord
<1> QED BY <1>2, <1>3 DEF CallStep, HeadersArrive, Types

(* What a call does without the server's answer.                                *)
LEMMA ProceedsEffect ==
    ASSUME Types, ClientWaits, NEW c \in Calls, Proceeds(c)
    PROVE  /\ CallStep(c)
           /\ \/ /\ call'[c].phase = "settled" /\ call'[c].attempt = call[c].attempt
                 /\ sent' = sent
              \/ /\ call[c].phase = "tokens" /\ call'[c].phase = "sending"
                 /\ call'[c].attempt = 1 /\ sent' = sent \union {<<c, 1>>}
              \/ /\ call[c].phase = "backoff" /\ call'[c].phase = "sending"
                 /\ call'[c].attempt = call[c].attempt + 1
                 /\ sent' = sent \union {<<c, call[c].attempt + 1>>}
<1>1. call[c].attempt \in 1..(MaxRetries + 1) /\ MaxRetries \in Nat
  BY ConstantTypes DEF Types, CallRecord
<1>2. CASE TokensReady(c)
  <2>1. Sends(c, 1) /\ call[c].phase = "tokens" /\ 1 \in 1..(MaxRetries + 1)
    BY <1>1, <1>2 DEF TokensReady
  <2> QED BY <2>1, SendsEffect
<1>3. CASE SendFails(c) \/ BodyFails(c)
  BY <1>3, SettlesEffect DEF SendFails, BodyFails, Outcomes
<1>4. CASE BackoffElapses(c)
  <2>1. call[c].phase = "backoff" /\ Sends(c, call[c].attempt + 1)
    BY <1>4 DEF BackoffElapses
  <2>2. call[c].attempt <= MaxRetries
    BY <1>1, <2>1 DEF ClientWaits
  <2>3. call[c].attempt + 1 \in 1..(MaxRetries + 1)
    BY <1>1, <2>2
  <2> QED BY <2>1, <2>3, SendsEffect
<1>5. CASE BodyRead(c)
  <2>1. (\E how \in Outcomes : Settles(c, how)) /\ sent' = sent
    BY <1>5 DEF BodyRead, Outcomes
  <2> QED BY <2>1, SettlesEffect
<1> QED BY <1>2, <1>3, <1>4, <1>5 DEF Proceeds

LEMMA ProceedsKeeps ==
    ASSUME IInv, NEW c \in Calls, ClientStep(c)
    PROVE  IInv'
<1>1. Proceeds(c) /\ UNCHANGED <<mode, work, envelope>>
  BY DEF ClientStep, serverVars
<1>2. Types /\ ClientWaits
  BY DEF IInv
<1> DEFINE a == call[c].attempt
<1>3. a \in 1..(MaxRetries + 1) /\ MaxRetries \in Nat
  BY <1>2, ConstantTypes DEF Types, CallRecord
<1>4. CallStep(c)
  BY <1>1, <1>2, ProceedsEffect
<1>5. sent \subseteq sent' /\ sent' \subseteq Requests
  <2>1. call[c].phase = "backoff" => a + 1 \in 1..(MaxRetries + 1)
    <3>1. call[c].phase = "backoff" => a <= MaxRetries
      BY <1>2, <1>3 DEF ClientWaits
    <3> QED BY <1>3, <3>1
  <2> QED BY <1>1, <1>2, <1>3, <2>1, ProceedsEffect DEF Types, Requests
<1>6. Types'
  BY <1>1, <1>2, <1>4, <1>5 DEF Types, CallStep
<1>7. SeenWasSent' /\ Vouched'
  BY <1>1, <1>5 DEF IInv, SeenWasSent, Vouched, InService, Api!Guarded, Api!TenantOf,
     Api!AppCheckFails, Api!AppCheckCrashes, Api!AuthFails, Api!AuthCrashes
<1>8. ClientWaits'
  <2> SUFFICES ASSUME NEW d \in Calls, NEW n \in 1..(MaxRetries + 1)
               PROVE  /\ <<d, n>> \in sent' => n <= call'[d].attempt
                      /\ <<d, n>> \in sent' => call'[d].phase # "tokens"
                      /\ n < call'[d].attempt => Failed(<<d, n>>)
                      /\ call'[d].phase = "backoff" /\ n = call'[d].attempt =>
                           n <= MaxRetries /\ Failed(<<d, n>>)
    BY <1>1 DEF ClientWaits, Failed
  <2>1. /\ <<d, n>> \in sent => n <= call[d].attempt
        /\ <<d, n>> \in sent => call[d].phase # "tokens"
        /\ n < call[d].attempt => Failed(<<d, n>>)
        /\ call[d].phase = "backoff" /\ n = call[d].attempt =>
             n <= MaxRetries /\ Failed(<<d, n>>)
    BY <1>2 DEF ClientWaits
  <2>2. CASE d # c
    <3>1. call'[d] = call[d]
      BY <1>4, <2>2 DEF CallStep
    <3>2. <<d, n>> \in sent' => <<d, n>> \in sent
      BY <1>1, <1>2, <2>2, ProceedsEffect
    <3> QED BY <2>1, <3>1, <3>2
  <2>3. CASE d = c
    <3>1. CASE /\ call'[c].phase = "settled" /\ call'[c].attempt = a /\ sent' = sent
      BY <2>1, <2>3, <3>1
    <3>2. CASE /\ call[c].phase = "tokens" /\ call'[c].phase = "sending"
               /\ call'[c].attempt = 1 /\ sent' = sent \union {<<c, 1>>}
      BY <1>3, <2>1, <2>3, <3>2
    <3>3. CASE /\ call[c].phase = "backoff" /\ call'[c].phase = "sending"
               /\ call'[c].attempt = a + 1 /\ sent' = sent \union {<<c, a + 1>>}
      BY <1>3, <2>1, <2>3, <3>3
    <3> QED BY <1>1, <1>2, <3>1, <3>2, <3>3, ProceedsEffect
  <2> QED BY <2>2, <2>3
<1> QED BY <1>6, <1>7, <1>8 DEF IInv

LEMMA RespondsKeeps ==
    ASSUME IInv, NEW c \in Calls, Responds(c)
    PROVE  IInv'
<1> DEFINE r == Current(c)
           status == work[r].status
<1>1. /\ work[r].stage = "answered" /\ HeadersArrive(c, status)
      /\ UNCHANGED <<mode, work, envelope>>
  BY DEF Responds, serverVars
<1>2. Types /\ ClientWaits
  BY DEF IInv
<1>3. /\ call[c].attempt \in 1..(MaxRetries + 1) /\ MaxRetries \in Nat
      /\ r = <<c, call[c].attempt>> /\ r \in Requests
  BY <1>2, ConstantTypes DEF Types, CallRecord, Current, Requests
<1>4. status \in Nat
  BY <1>2, <1>3 DEF Types, Work
<1>5. /\ CallStep(c) /\ call'[c].attempt = call[c].attempt /\ sent' = sent
      /\ call[c].phase = "sending"
      /\ call'[c].phase = IF Retries(c, status) THEN "backoff" ELSE "reading"
  BY <1>1, <1>2, <1>4, HeadersEffect
<1>6. Types'
  BY <1>1, <1>2, <1>5 DEF Types, CallStep
<1>7. SeenWasSent' /\ Vouched'
  BY <1>1, <1>5 DEF IInv, SeenWasSent, Vouched, InService, Api!Guarded, Api!TenantOf,
     Api!AppCheckFails, Api!AppCheckCrashes, Api!AuthFails, Api!AuthCrashes
<1>8. ClientWaits'
  <2> SUFFICES ASSUME NEW d \in Calls, NEW n \in 1..(MaxRetries + 1)
               PROVE  /\ <<d, n>> \in sent => n <= call'[d].attempt
                      /\ <<d, n>> \in sent => call'[d].phase # "tokens"
                      /\ n < call'[d].attempt => Failed(<<d, n>>)
                      /\ call'[d].phase = "backoff" /\ n = call'[d].attempt =>
                           n <= MaxRetries /\ Failed(<<d, n>>)
    BY <1>1, <1>5 DEF ClientWaits, Failed
  <2>1. /\ <<d, n>> \in sent => n <= call[d].attempt
        /\ <<d, n>> \in sent => call[d].phase # "tokens"
        /\ n < call[d].attempt => Failed(<<d, n>>)
        /\ call[d].phase = "backoff" /\ n = call[d].attempt =>
             n <= MaxRetries /\ Failed(<<d, n>>)
    BY <1>2 DEF ClientWaits
  <2>2. CASE d # c
    BY <1>5, <2>1, <2>2 DEF CallStep
  <2>3. CASE d = c
    <3>1. Retries(c, status) /\ n = call[c].attempt => n <= MaxRetries /\ Failed(<<c, n>>)
      BY <1>1, <1>3 DEF Retries, Failed
    <3> QED BY <1>5, <2>1, <2>3, <3>1
  <2> QED BY <2>2, <2>3
<1> QED BY <1>6, <1>7, <1>8 DEF IInv

-------------------------------------------------------------------------------
(* The server *)

(* A step of the server moves requests on, and none that was answered.          *)
ServerStep ==
    /\ work' \in [Requests -> Work]
    /\ \A r \in Requests : work[r].stage = "answered" => work'[r] = work[r]
    /\ UNCHANGED <<call, sent, mode, envelope>>

(* A request that is new to the server was sent; one that is charged, or may    *)
(* be, was vouched for.                                                         *)
Vouches(r) ==
    /\ work'[r].stage # "unseen" => r \in sent
    /\ (InService(r) \/ work[r].grants > 0)'
         => /\ r \in sent
            /\ Api!Guarded(envelope[r[1]]) = 0
            /\ work'[r].tenant = Api!TenantOf(envelope[r[1]])
    /\ InService(r)' => work'[r].candidate \in 1..Candidates

LEMMA ServerKeeps ==
    ASSUME IInv, ServerStep, \A r \in Requests : work'[r] # work[r] => Vouches(r)
    PROVE  IInv'
<1>1. Types'
  BY DEF IInv, Types, ServerStep
<1>2. ASSUME NEW r \in Requests PROVE Vouches(r)
  <2>1. CASE work'[r] = work[r]
    BY <2>1 DEF IInv, SeenWasSent, Vouched, Vouches, InService
  <2> QED BY <2>1
<1>3. SeenWasSent'
  BY <1>2 DEF SeenWasSent, Vouches, ServerStep
<1>4. ClientWaits'
  <2>1. \A c \in Calls, n \in 1..(MaxRetries + 1) : Failed(<<c, n>>) => Failed(<<c, n>>)'
    BY DEF Failed, ServerStep, Requests
  <2>2. call' = call /\ sent' = sent
    BY DEF ServerStep
  <2> QED BY <2>1, <2>2 DEF IInv, ClientWaits
<1>5. Vouched'
  <2>1. \A r \in Requests :
          /\ Api!Guarded(envelope[r[1]])' = Api!Guarded(envelope[r[1]])
          /\ Api!TenantOf(envelope[r[1]])' = Api!TenantOf(envelope[r[1]])
    BY DEF ServerStep, Api!Guarded, Api!TenantOf, Api!AppCheckFails, Api!AppCheckCrashes,
       Api!AuthFails, Api!AuthCrashes
  <2> QED BY <1>2, <2>1 DEF Vouched, Vouches, ServerStep
<1> QED BY <1>1, <1>3, <1>4, <1>5 DEF IInv

LEMMA DeliversKeeps ==
    ASSUME IInv, NEW r \in Requests, Delivers(r)
    PROVE  IInv'
<1> DEFINE e == envelope[r[1]]
<1>1. PICK i \in Instances : Api!Receive(r, e, i)
  BY DEF Delivers
<1>2. r \in sent /\ UNCHANGED <<call, sent, mode, envelope>>
  BY <1>1 DEF Delivers, clientVars, Api!Receive
<1>3. /\ r[1] \in Calls /\ e \in Api!Envelope /\ mode \in Api!Mode
      /\ work \in [Requests -> Work] /\ work[r].stage = "unseen"
  BY <1>1, ConstantTypes DEF IInv, Types, Requests, Api!Receive
<1>4. CASE Api!Guarded(e) = 0
  <2>1. Api!TenantOf(e) \in Tenants \union {"missing", "invalid"}
    BY <1>3 DEF Api!TenantOf, Api!Envelope
  <2>2. work' = [work EXCEPT ![r] =
                   [stage |-> "running", at |-> i, tenant |-> Api!TenantOf(e),
                    candidate |-> 1, grants |-> 0, spent |-> 0, status |-> 0]]
    <3>1. PICK w : /\ w = [Api!Idle EXCEPT !.stage = "running", !.at = i,
                                           !.tenant = Api!TenantOf(e), !.candidate = 1]
                   /\ work' = [work EXCEPT ![r] = w]
      BY <1>1, <1>4 DEF Api!Receive
    <3>2. w = [stage |-> "running", at |-> i, tenant |-> Api!TenantOf(e),
               candidate |-> 1, grants |-> 0, spent |-> 0, status |-> 0]
      BY <3>1 DEF Api!Idle
    <3> QED BY <3>1, <3>2
  <2>3. [stage |-> "running", at |-> i, tenant |-> Api!TenantOf(e),
         candidate |-> 1, grants |-> 0, spent |-> 0, status |-> 0] \in Work
    BY <2>1 DEF Work
  <2>4. ServerStep
    BY <1>2, <1>3, <2>2, <2>3 DEF ServerStep
  <2>5. \A q \in Requests : work'[q] # work[q] => Vouches(q)
    <3>1. 1 \in 1..Candidates
      BY ConstantTypes
    <3> QED BY <1>2, <1>3, <1>4, <2>2, <3>1 DEF Vouches
  <2> QED BY <2>4, <2>5, ServerKeeps
<1>5. CASE Api!Guarded(e) # 0
  <2>1. Api!Guarded(e) \in Nat
    BY DEF Api!Guarded
  <2>2. work' = [work EXCEPT ![r] =
                   [stage |-> "answered", at |-> i, tenant |-> "nobody",
                    candidate |-> 0, grants |-> 0, spent |-> 0, status |-> Api!Guarded(e)]]
    <3>1. PICK w : /\ w = [Api!Idle EXCEPT !.stage = "answered", !.at = i,
                                           !.status = Api!Guarded(e)]
                   /\ work' = [work EXCEPT ![r] = w]
      BY <1>1, <1>5 DEF Api!Receive
    <3>2. w = [stage |-> "answered", at |-> i, tenant |-> "nobody",
               candidate |-> 0, grants |-> 0, spent |-> 0, status |-> Api!Guarded(e)]
      BY <3>1 DEF Api!Idle
    <3> QED BY <3>1, <3>2
  <2>3. [stage |-> "answered", at |-> i, tenant |-> "nobody",
         candidate |-> 0, grants |-> 0, spent |-> 0, status |-> Api!Guarded(e)] \in Work
    BY <2>1 DEF Work
  <2>4. ServerStep
    BY <1>2, <1>3, <2>2, <2>3 DEF ServerStep
  <2>5. \A q \in Requests : work'[q] # work[q] => Vouches(q)
    BY <1>2, <1>3, <2>2 DEF Vouches, InService
  <2> QED BY <2>4, <2>5, ServerKeeps
<1> QED BY <1>4, <1>5

(* What a request in service is estimated to cost, and whose account it is.     *)
LEMMA ServedFacts ==
    ASSUME IInv, NEW r \in Requests, InService(r)
    PROVE  /\ work[r].tenant \in Tenants
           /\ work[r].candidate \in 1..Candidates
           /\ Asked(r) \in Nat
           /\ Api!Estimate(r, envelope[r[1]]) = Asked(r)
<1> DEFINE e == envelope[r[1]]
<1>1. Api!Guarded(e) = 0 /\ work[r].tenant = Api!TenantOf(e)
      /\ work[r].candidate \in 1..Candidates
  BY DEF IInv, Vouched
<1>2. mode \in Api!Mode /\ e \in Api!Envelope
  BY ConstantTypes DEF IInv, Types, Requests
<1>3. ~Api!AuthFails(e) /\ ~Api!AuthCrashes(e)
  BY <1>1 DEF Api!Guarded
<1>4. mode.auth = "enforce" => e.uid # "missing" /\ e.uid # "invalid"
  BY <1>2, <1>3 DEF Api!AuthFails, Api!AuthCrashes, Api!Mode
<1>5. work[r].tenant \in Tenants
  BY <1>1, <1>2, <1>4 DEF Api!TenantOf, Api!Envelope
<1>6. e.estimates \in [1..Candidates -> Nat]
  BY <1>2 DEF Api!Envelope
<1> QED BY <1>1, <1>5, <1>6 DEF Asked, Api!Estimate

(* How the work on a request in service goes on: it is charged a reservation,   *)
(* or its commit, or nothing and answered or moved on.                          *)
WorkGoesOn(w, v) ==
    /\ v \in Work /\ v.tenant = w.tenant /\ v.at = w.at /\ v.stage # "unseen"
    /\ v.grants >= w.grants /\ v.spent >= w.spent

Reserved(w, v, amount) ==
    /\ v.stage = "calling" /\ v.candidate = w.candidate
    /\ v.grants = w.grants + 1 /\ v.spent = w.spent + amount

AnsweredWith(w, v, status) ==
    /\ v.stage = "answered" /\ v.status = status /\ v.candidate = w.candidate
    /\ v.grants = w.grants

LEMMA AnsweredEffect ==
    ASSUME work \in [Requests -> Work], NEW r \in Requests, NEW status \in Nat,
           Api!Answered(r, status)
    PROVE  /\ work' = [work EXCEPT ![r] = work'[r]]
           /\ WorkGoesOn(work[r], work'[r]) /\ AnsweredWith(work[r], work'[r], status)
           /\ work'[r].spent = work[r].spent
<1>1. PICK w \in Work : w = work[r]
  OBVIOUS
<1>2. work'[r] = [stage |-> "answered", at |-> w.at, tenant |-> w.tenant,
                  candidate |-> w.candidate, grants |-> w.grants, spent |-> w.spent,
                  status |-> status]
  BY <1>1 DEF Api!Answered, Work
<1>3. work' = [work EXCEPT ![r] = work'[r]]
  BY DEF Api!Answered
<1>4. PICK v : v = work'[r]
  OBVIOUS
<1>5. WorkGoesOn(w, v) /\ AnsweredWith(w, v, status) /\ v.spent = w.spent
  BY <1>1, <1>2, <1>4 DEF Work, WorkGoesOn, AnsweredWith
<1> QED BY <1>1, <1>3, <1>4, <1>5

LEMMA GrantEffect ==
    ASSUME IInv, NEW r \in Requests, Api!Grant(r, envelope[r[1]])
    PROVE  /\ work' = [work EXCEPT ![r] = work'[r]]
           /\ WorkGoesOn(work[r], work'[r]) /\ Reserved(work[r], work'[r], Asked(r))
<1>1. InService(r) /\ work \in [Requests -> Work]
  BY DEF Api!Grant, InService, IInv, Types
<1>2. PICK n \in Nat : n = Asked(r) /\ n = Api!Estimate(r, envelope[r[1]])
  BY <1>1, ServedFacts
<1>3. PICK w \in Work : w = work[r]
  BY <1>1
<1>4. work' = [work EXCEPT ![r].stage = "calling", ![r].grants = @ + 1, ![r].spent = @ + n]
  BY <1>2 DEF Api!Grant, Api!Charges
<1>5. work'[r] = [stage |-> "calling", at |-> w.at, tenant |-> w.tenant,
                  candidate |-> w.candidate, grants |-> w.grants + 1,
                  spent |-> w.spent + n, status |-> w.status]
  BY <1>1, <1>3, <1>4 DEF Work
<1>6. work' = [work EXCEPT ![r] = work'[r]]
  BY <1>1, <1>4
<1>7. PICK v : v = work'[r]
  OBVIOUS
<1>8. WorkGoesOn(w, v) /\ Reserved(w, v, n)
  BY <1>3, <1>5, <1>7 DEF Work, WorkGoesOn, Reserved
<1> QED BY <1>2, <1>3, <1>6, <1>7, <1>8

(* The commit raises what was spent by an overrun and by nothing else.          *)
LEMMA SucceedsEffect ==
    ASSUME IInv, NEW r \in Requests, Api!CallSucceeds(r, envelope[r[1]])
    PROVE  \E delta \in Int, over \in Nat :
             /\ delta <= over
             /\ tpm' = Api!Charged(tpm, r, delta) /\ tpd' = Api!Charged(tpd, r, delta)
             /\ work' = [work EXCEPT ![r] = work'[r]]
             /\ WorkGoesOn(work[r], work'[r]) /\ AnsweredWith(work[r], work'[r], 200)
             /\ work'[r].spent = work[r].spent + over
<1>1. InService(r) /\ work \in [Requests -> Work]
  BY DEF Api!CallSucceeds, InService, IInv, Types
<1>2. PICK n \in Nat : n = Api!Estimate(r, envelope[r[1]])
  BY <1>1, ServedFacts
<1>3. PICK actual \in Actuals :
        /\ tpm' = Api!Charged(tpm, r, actual - n) /\ tpd' = Api!Charged(tpd, r, actual - n)
        /\ work' = [work EXCEPT ![r].stage = "answered", ![r].status = 200,
                       ![r].spent = IF actual - n > 0 THEN @ + (actual - n) ELSE @]
  BY <1>2 DEF Api!CallSucceeds
<1>4. actual \in Nat
  BY ConstantTypes
<1>5. PICK delta \in Int : delta = actual - n
  BY <1>2, <1>4
<1>6. PICK over \in Nat : over = IF delta > 0 THEN delta ELSE 0
  BY <1>5
<1>7. PICK w \in Work : w = work[r]
  BY <1>1
<1>8. work'[r] = [stage |-> "answered", at |-> w.at, tenant |-> w.tenant,
                  candidate |-> w.candidate, grants |-> w.grants,
                  spent |-> w.spent + over, status |-> 200]
  <2>1. (IF delta > 0 THEN w.spent + delta ELSE w.spent) = w.spent + over
        /\ w.spent + over \in Nat
    BY <1>6, <1>7 DEF Work
  <2>2. PICK sum \in Nat : sum = w.spent + over
    BY <2>1
  <2>3. work' = [work EXCEPT ![r].stage = "answered", ![r].status = 200,
                             ![r].spent = IF delta > 0 THEN w.spent + delta ELSE w.spent]
    BY <1>3, <1>5, <1>7
  <2>4. work' = [work EXCEPT ![r].stage = "answered", ![r].status = 200, ![r].spent = sum]
    BY <2>1, <2>2, <2>3
  <2>5. work'[r] = [stage |-> "answered", at |-> w.at, tenant |-> w.tenant,
                    candidate |-> w.candidate, grants |-> w.grants,
                    spent |-> sum, status |-> 200]
    <3>1. w \in Work /\ work \in [Requests -> Work] /\ work[r] = w
      BY <1>1, <1>7
    <3>2. work'[r] = [w EXCEPT !.stage = "answered", !.status = 200, !.spent = sum]
      BY <2>4, <3>1
    <3>3. PICK v : v = work'[r]
      OBVIOUS
    <3>4. PICK st, at, te, ca, gr, sp, co : w = [stage |-> st, at |-> at, tenant |-> te,
              candidate |-> ca, grants |-> gr, spent |-> sp, status |-> co]
      BY DEF Work
    <3>5. v = [w EXCEPT !.stage = "answered", !.status = 200, !.spent = sum]
      BY <3>2, <3>3
    <3>6. v = [stage |-> "answered", at |-> at, tenant |-> te, candidate |-> ca,
               grants |-> gr, spent |-> sum, status |-> 200]
      BY <3>4, <3>5
    <3>7. w.at = at /\ w.tenant = te /\ w.candidate = ca /\ w.grants = gr
      BY <3>4
    <3> QED BY <3>3, <3>6, <3>7, Zenon
  <2> QED BY <2>2, <2>5
<1>9. work' = [work EXCEPT ![r] = work'[r]]
  BY <1>1, <1>3
<1>10. PICK v : v = work'[r]
  OBVIOUS
<1>11. WorkGoesOn(w, v) /\ AnsweredWith(w, v, 200) /\ v.spent = w.spent + over
  BY <1>7, <1>8, <1>10 DEF Work, WorkGoesOn, AnsweredWith
<1>12. delta <= over
  BY <1>6
<1> QED BY <1>3, <1>5, <1>7, <1>9, <1>10, <1>11, <1>12

LEMMA FallsBackEffect ==
    ASSUME IInv, NEW r \in Requests, Api!CallFallsBack(r)
    PROVE  /\ work' = [work EXCEPT ![r] = work'[r]]
           /\ WorkGoesOn(work[r], work'[r])
           /\ work'[r].grants = work[r].grants /\ work'[r].spent = work[r].spent
           /\ \/ work'[r].stage = "running" /\ work'[r].candidate \in 1..Candidates
              \/ AnsweredWith(work[r], work'[r], 503)
<1>1. InService(r) /\ work \in [Requests -> Work]
  BY DEF Api!CallFallsBack, InService, IInv, Types
<1>2. PICK w \in Work : w = work[r]
  BY <1>1
<1>3. PICK v : v = work'[r]
  OBVIOUS
<1>4. CASE work[r].candidate < Candidates
  <2>1. work' = [work EXCEPT ![r].stage = "running", ![r].candidate = @ + 1]
    BY <1>4 DEF Api!CallFallsBack
  <2>2. v = [stage |-> "running", at |-> w.at, tenant |-> w.tenant,
             candidate |-> w.candidate + 1, grants |-> w.grants, spent |-> w.spent,
             status |-> w.status]
    BY <1>1, <1>2, <1>3, <2>1 DEF Work
  <2>3. WorkGoesOn(w, v) /\ v.grants = w.grants /\ v.spent = w.spent /\ v.stage = "running"
        /\ v.candidate = w.candidate + 1
    BY <1>2, <2>2 DEF Work, WorkGoesOn
  <2>4. w.candidate \in 1..Candidates /\ Candidates \in Nat
    BY <1>1, <1>2, ServedFacts, ConstantTypes
  <2>5. w.candidate + 1 \in 1..Candidates
    BY <1>2, <1>4, <2>4
  <2>6. work' = [work EXCEPT ![r] = work'[r]]
    BY <1>1, <2>1
  <2> QED BY <1>2, <1>3, <2>3, <2>5, <2>6
<1>5. CASE ~(work[r].candidate < Candidates)
  <2>1. Api!Answered(r, 503)
    BY <1>5 DEF Api!CallFallsBack, Api!HttpStatus
  <2>2. AnsweredWith(work[r], work'[r], 503) /\ WorkGoesOn(work[r], work'[r])
        /\ work' = [work EXCEPT ![r] = work'[r]] /\ work'[r].spent = work[r].spent
    BY <1>1, <2>1, AnsweredEffect
  <2> QED BY <2>2 DEF AnsweredWith
<1> QED BY <1>4, <1>5

(* Whatever happens to a request in service, it stays vouched for.              *)
LEMMA ServesKeeps ==
    ASSUME IInv, NEW r \in Requests, Serves(r)
    PROVE  IInv'
<1> DEFINE e == envelope[r[1]]
<1>1. /\ UNCHANGED <<call, sent, mode, envelope>> /\ InService(r)
      /\ work \in [Requests -> Work] /\ work[r] \in Work
      /\ work[r].candidate \in 1..Candidates
  <2>1. UNCHANGED <<call, sent, mode, envelope>> /\ InService(r)
    BY DEF Serves, clientVars, Api!Serve, Api!Grant, Api!Charges, Api!Deny, Api!CallSucceeds,
       Api!CallFallsBack, Api!CallIsTerminal, InService
  <2> QED BY <2>1, ServedFacts DEF IInv, Types
<1>2. ASSUME work' = [work EXCEPT ![r] = work'[r]], WorkGoesOn(work[r], work'[r]),
             work'[r].stage \in {"running", "calling"} => work'[r].candidate \in 1..Candidates
      PROVE  IInv'
  <2>1. ServerStep
    BY <1>1, <1>2 DEF ServerStep, InService, WorkGoesOn
  <2>2. \A q \in Requests : q # r => work'[q] = work[q]
    BY <1>1, <1>2
  <2>3. r \in sent /\ Api!Guarded(e) = 0 /\ work[r].tenant = Api!TenantOf(e)
    BY <1>1 DEF IInv, Vouched
  <2>4. Vouches(r)
    BY <1>2, <2>3 DEF Vouches, InService, WorkGoesOn
  <2> QED BY <2>1, <2>2, <2>4, ServerKeeps
<1>3. ASSUME NEW status \in Nat, Api!Answered(r, status) PROVE IInv'
  BY <1>1, <1>2, <1>3, AnsweredEffect DEF AnsweredWith
<1>4. CASE Api!Grant(r, e)
  BY <1>1, <1>2, <1>4, GrantEffect DEF Reserved
<1>5. CASE Api!Deny(r, e)
  BY <1>3, <1>5 DEF Api!Deny, Api!HandoffStatus
<1>6. CASE Api!CallSucceeds(r, e)
  BY <1>1, <1>2, <1>6, SucceedsEffect DEF AnsweredWith
<1>7. CASE Api!CallIsTerminal(r)
  BY <1>3, <1>7 DEF Api!CallIsTerminal, Api!HttpStatus
<1>8. CASE Api!CallFallsBack(r)
  BY <1>1, <1>2, <1>8, FallsBackEffect DEF AnsweredWith
<1> QED BY <1>4, <1>5, <1>6, <1>7, <1>8 DEF Serves, Api!Serve

(* The request a recycled instance leaves behind: answered with a 504, the rest  *)
(* of its work as it was.                                                       *)
LEMMA KilledRequest ==
    ASSUME NEW w \in Work
    PROVE  [w EXCEPT !.stage = "answered", !.status = 504]
             = [stage |-> "answered", at |-> w.at, tenant |-> w.tenant,
                candidate |-> w.candidate, grants |-> w.grants, spent |-> w.spent,
                status |-> 504]
<1>1. PICK st, at, te, ca, gr, sp, co : w = [stage |-> st, at |-> at, tenant |-> te,
          candidate |-> ca, grants |-> gr, spent |-> sp, status |-> co]
  BY DEF Work
<1>2. PICK u : u = [w EXCEPT !.stage = "answered"]
  OBVIOUS
<1>3. u = [stage |-> "answered", at |-> at, tenant |-> te, candidate |-> ca, grants |-> gr,
           spent |-> sp, status |-> co]
  BY <1>1, <1>2
<1>4. PICK v : v = [u EXCEPT !.status = 504]
  OBVIOUS
<1>5. v = [stage |-> "answered", at |-> at, tenant |-> te, candidate |-> ca, grants |-> gr,
           spent |-> sp, status |-> 504]
  BY <1>3, <1>4
<1>6. [w EXCEPT !.stage = "answered", !.status = 504] = v
  BY <1>2, <1>4, Zenon
<1>7. w.at = at /\ w.tenant = te /\ w.candidate = ca /\ w.grants = gr /\ w.spent = sp
  BY <1>1
<1> QED BY <1>5, <1>6, <1>7, Zenon

LEMMA RecyclesKeeps ==
    ASSUME IInv, Recycles
    PROVE  IInv'
<1>1. PICK i \in Instances :
        /\ work' = [r \in Requests |->
             IF work[r].at = i /\ work[r].stage \in {"running", "calling"}
             THEN [work[r] EXCEPT !.stage = "answered", !.status = 504] ELSE work[r]]
        /\ UNCHANGED <<call, sent, mode, envelope>>
  BY DEF Recycles, clientVars, Api!Recycle, Api!OpensWindow
<1>2. work \in [Requests -> Work]
  BY DEF IInv, Types
<1>3. ASSUME NEW r \in Requests
      PROVE  /\ work'[r] \in Work
             /\ work[r].stage = "answered" => work'[r] = work[r]
             /\ work'[r] # work[r] => Vouches(r)
  <2>1. CASE work[r].at = i /\ work[r].stage \in {"running", "calling"}
    <3>1. work'[r] = [stage |-> "answered", at |-> work[r].at, tenant |-> work[r].tenant,
                      candidate |-> work[r].candidate, grants |-> work[r].grants,
                      spent |-> work[r].spent, status |-> 504]
      <4>1. PICK w \in Work : w = work[r]
        BY <1>2
      <4>2. PICK v : v = work'[r]
        OBVIOUS
      <4>3. v = [w EXCEPT !.stage = "answered", !.status = 504]
        BY <1>1, <2>1, <4>1, <4>2
      <4>4. v = [stage |-> "answered", at |-> w.at, tenant |-> w.tenant,
                 candidate |-> w.candidate, grants |-> w.grants, spent |-> w.spent,
                 status |-> 504]
        BY <4>3, KilledRequest
      <4> QED BY <4>1, <4>2, <4>4
    <3>2. work'[r] \in Work
      BY <1>2, <3>1 DEF Work
    <3>3. r \in sent /\ Api!Guarded(envelope[r[1]]) = 0
          /\ work[r].tenant = Api!TenantOf(envelope[r[1]])
      BY <2>1 DEF IInv, Vouched, InService
    <3> QED BY <2>1, <3>1, <3>2, <3>3 DEF Vouches, InService
  <2>2. CASE ~(work[r].at = i /\ work[r].stage \in {"running", "calling"})
    <3>1. work'[r] = work[r]
      BY <1>1, <2>2
    <3> QED BY <1>2, <3>1
  <2> QED BY <2>1, <2>2
<1>4. ServerStep
  BY <1>1, <1>3 DEF ServerStep
<1> QED BY <1>3, <1>4, ServerKeeps

LEMMA IInvInit == Init => IInv
<1> SUFFICES ASSUME Init PROVE IInv
  OBVIOUS
<1>1. Fresh \in CallRecord
  BY ConstantTypes DEF Fresh, CallRecord, Phases
<1>2. Api!Idle \in Work
  BY DEF Api!Idle, Work
<1>3. Types
  BY <1>1, <1>2 DEF Init, ClientInit, Api!ApiInit, Types
<1>4. SeenWasSent /\ Vouched
  BY DEF Init, ClientInit, Api!ApiInit, Api!Idle, SeenWasSent, Vouched, InService
<1>5. ClientWaits
  BY ConstantTypes DEF Init, ClientInit, Fresh, ClientWaits
<1> QED BY <1>3, <1>4, <1>5 DEF IInv

LEMMA IInvStep == IInv /\ [Next]_vars => IInv'
<1> SUFFICES ASSUME IInv, [Next]_vars PROVE IInv'
  OBVIOUS
<1>1. CASE UNCHANGED vars \/ Dismisses \/ TimePasses
  <2>1. UNCHANGED <<call, sent, mode, envelope, work>>
    BY <1>1 DEF vars, clientVars, serverVars, Dismisses, DismissWizard, TimePasses,
       Api!PeriodEnds, Api!OpensWindow
  <2>2. ServerStep
    BY <2>1 DEF ServerStep, IInv, Types
  <2> QED BY <2>1, <2>2, ServerKeeps
<1> QED
  BY <1>1, ProceedsKeeps, RespondsKeeps, DeliversKeeps, ServesKeeps, RecyclesKeeps DEF Next

LEMMA Invariance == Spec => []IInv
BY IInvInit, IInvStep, PTL DEF Spec

(* Whatever the network loses, delays or delivers late, a call has at most one  *)
(* request in service, and sent every other one after a fault worth retrying.   *)
THEOREM OneAtATime == Spec => []OneRequestAtATime
<1>1. IInv => OneRequestAtATime
  <2> SUFFICES ASSUME IInv, NEW c \in Calls
               PROVE  /\ Cardinality({r \in Requests : r[1] = c /\ InService(r)}) <= 1
                      /\ \A n \in 1..MaxRetries : <<c, n + 1>> \in sent =>
                           Failed(<<c, n>>)
    BY DEF OneRequestAtATime, Failed
  <2> DEFINE S == {r \in Requests : r[1] = c /\ InService(r)}
             last == <<c, call[c].attempt>>
  <2>1. call[c].attempt \in 1..(MaxRetries + 1) /\ MaxRetries \in Nat
    BY ConstantTypes DEF IInv, Types, CallRecord
  <2>2. ASSUME NEW r \in S PROVE r = last
    <3>1. PICK n \in 1..(MaxRetries + 1) : r = <<c, n>>
      BY DEF Requests
    <3>2. r \in sent /\ ~Failed(r)
      BY DEF IInv, SeenWasSent, InService, Failed
    <3>3. ~(n < call[c].attempt) /\ n <= call[c].attempt
      BY <3>1, <3>2 DEF IInv, ClientWaits
    <3>4. n = call[c].attempt
      BY <2>1, <3>3
    <3> QED BY <3>1, <3>4
  <2>3. Cardinality(S) <= 1
    <3>1. S \in SUBSET {last}
      BY <2>2
    <3>2. IsFiniteSet({last}) /\ Cardinality({last}) = 1
      BY FS_Singleton
    <3> QED BY <3>1, <3>2, FS_Subset, FS_CardinalityType
  <2>4. ASSUME NEW n \in 1..MaxRetries, <<c, n + 1>> \in sent PROVE Failed(<<c, n>>)
    <3>1. n \in 1..(MaxRetries + 1) /\ n + 1 \in 1..(MaxRetries + 1)
      BY <2>1
    <3>2. n + 1 <= call[c].attempt
      BY <2>4, <3>1 DEF IInv, ClientWaits
    <3>3. n < call[c].attempt
      BY <2>1, <3>1, <3>2
    <3> QED BY <3>1, <3>3 DEF IInv, ClientWaits
  <2> QED BY <2>3, <2>4
<1> QED BY <1>1, Invariance, PTL

(* Nobody is charged but the tenant the server can vouch for, however requests  *)
(* are delayed, instances recycled and turns fall back.                         *)
THEOREM ChargesVouched == Spec => []ChargesAreVouchedFor
<1>1. IInv => ChargesAreVouchedFor
  <2> SUFFICES ASSUME IInv, NEW r \in Requests, work[r].grants > 0
               PROVE  LET e == envelope[r[1]]
                      IN  /\ r \in sent
                          /\ mode.appCheck = "enforce"
                               => mode.serviceAccount /\ e.attestation = "valid"
                          /\ mode.auth = "enforce"
                               => mode.serviceAccount /\ work[r].tenant = e.uid
                          /\ mode.auth = "disabled" => work[r].tenant = e.declared
                          /\ e.parses
    BY DEF ChargesAreVouchedFor
  <2> DEFINE e == envelope[r[1]]
  <2>1. r \in sent /\ Api!Guarded(e) = 0 /\ work[r].tenant = Api!TenantOf(e)
    BY DEF IInv, Vouched
  <2>2. mode \in Api!Mode /\ e \in Api!Envelope
    BY ConstantTypes DEF IInv, Types, Requests
  <2>3. /\ ~Api!AppCheckFails(e) /\ ~Api!AppCheckCrashes(e)
        /\ ~Api!AuthFails(e) /\ ~Api!AuthCrashes(e) /\ e.parses
    BY <2>1 DEF Api!Guarded
  <2>4. mode.appCheck = "enforce" => mode.serviceAccount /\ e.attestation = "valid"
    BY <2>2, <2>3 DEF Api!AppCheckFails, Api!AppCheckCrashes, Api!Mode, Api!Envelope
  <2>5. mode.auth = "enforce" => mode.serviceAccount
    BY <2>3 DEF Api!AuthFails, Api!AuthCrashes
  <2> QED BY <2>1, <2>3, <2>4, <2>5 DEF Api!TenantOf
<1> QED BY <1>1, Invariance, PTL

-------------------------------------------------------------------------------
(* The books *)

GrantsTo(t) ==
    [r \in Requests |-> IF work[r].tenant = t THEN work[r].grants ELSE 0]

SpentBy(t) ==
    [r \in Requests |-> IF work[r].tenant = t THEN work[r].spent ELSE 0]

(* What an instance has granted a tenant at most: the whole cap in every window *)
(* but the last, and in that one what its store counts.                         *)
Room(t) == [i \in Instances |-> Cap * (windows[i] - 1) + rpm[i][t]]

Stored ==
    /\ windows \in [Instances -> Nat \ {0}]
    /\ rpm \in [Instances -> [Tenants -> 0..Cap]]

(* A request is charged where it runs, and not before it does.                  *)
Placed ==
    \A r \in Requests : /\ InService(r) => work[r].at \in Instances
                        /\ work[r].stage = "unseen" => work[r].grants = 0 /\ work[r].spent = 0

(* The grants of a tenant are at least what any one store counts, and at most   *)
(* what the stores have room for.                                               *)
Booked ==
    \A t \in Tenants :
        /\ Granted(t) <= SumFunctionOnSet(Room(t), Instances)
        /\ \A i \in Instances : rpm[i][t] <= Granted(t)

(* No counter of any instance exceeds an account.                               *)
Within(counter, account) ==
    /\ counter \in [Instances -> [Tenants -> Int]]
    /\ \A i \in Instances, t \in Tenants : counter[i][t] <= account[t]

SpentOf == [t \in Tenants |-> Spent(t)]

(* A token counter never shows more than the tenant was charged.                *)
TokensBooked == Within(tpm, SpentOf) /\ Within(tpd, SpentOf)

HandsOff(w) == w.stage = "answered" /\ w.status \in {402, 429}

(* What a tenant that is told to bring a key must have used up.                 *)
Refused(r, status) ==
    /\ work[r].tenant \in Tenants /\ work[r].candidate \in 1..Candidates
    /\ status = 429 =>
         Granted(work[r].tenant) >= Cap \/ Spent(work[r].tenant) + Asked(r) > MinuteCap
    /\ status = 402 => Spent(work[r].tenant) + Asked(r) > DayCap

Refusals == \A r \in Requests : HandsOff(work[r]) => Refused(r, work[r].status)

(* A page reads the answer to the request it sent last.                         *)
ReadsItsAnswer ==
    \A c \in Calls : call[c].phase = "reading" =>
        /\ work[Current(c)].stage = "answered"
        /\ call[c].status = work[Current(c)].status

Books == Stored /\ Placed /\ Booked /\ TokensBooked /\ Refusals /\ ReadsItsAnswer

BInv == IInv /\ Books

LEMMA FiniteSets ==
    /\ IsFiniteSet(Requests) /\ IsFiniteSet(Instances)
    /\ Cap \in Nat /\ MaxRetries \in Nat
<1>1. IsFiniteSet(Calls) /\ IsFiniteSet(Instances) /\ Cap \in Nat /\ MaxRetries \in Nat
  BY DeploymentAssumption
<1>2. IsFiniteSet(1..(MaxRetries + 1))
  BY <1>1, FS_Interval
<1> QED BY <1>1, <1>2, FS_Product DEF Requests

LEMMA GrantsFacts ==
    Types => /\ \A t : /\ Granted(t) = SumFunctionOnSet(GrantsTo(t), Requests)
                       /\ Granted(t) \in Int
             /\ \A t : \A r \in Requests : GrantsTo(t)[r] \in Nat
<1> SUFFICES ASSUME Types
             PROVE  /\ \A t : /\ Granted(t) = SumFunctionOnSet(GrantsTo(t), Requests)
                              /\ Granted(t) \in Int
                    /\ \A t : \A r \in Requests : GrantsTo(t)[r] \in Nat
  OBVIOUS
<1>1. \A r \in Requests : work[r].grants \in Nat
  BY DEF Types, Work
<1>2. \A t : \A r \in Requests : GrantsTo(t)[r] \in Nat
  BY <1>1 DEF GrantsTo
<1>3. \A t : Granted(t) = SumFunctionOnSet(GrantsTo(t), Requests)
  BY DEF Granted, GrantsTo
<1>4. ASSUME NEW t PROVE Granted(t) \in Int
  <2>1. \A r \in Requests : GrantsTo(t)[r] \in Int
    BY <1>2
  <2>2. SumFunctionOnSet(GrantsTo(t), Requests) \in Int
    BY <2>1, FiniteSets, SumType
  <2> QED BY <1>3, <2>2
<1> QED BY <1>2, <1>3, <1>4

(* What a tenant spent is an account that is never in debt.                     *)
LEMMA SpentFacts ==
    Types => \A t : /\ Spent(t) = SumFunctionOnSet(SpentBy(t), Requests)
                    /\ Spent(t) \in Int /\ Spent(t) >= 0
<1> SUFFICES ASSUME Types, NEW t
             PROVE  /\ Spent(t) = SumFunctionOnSet(SpentBy(t), Requests)
                    /\ Spent(t) \in Int /\ Spent(t) >= 0
  OBVIOUS
<1> DEFINE f == SpentBy(t)
           none == [r \in Requests |-> 0]
<1>1. \A r \in Requests : work[r].spent \in Nat
  BY DEF Types, Work
<1>2. \A r \in Requests : f[r] \in Int /\ none[r] \in Int /\ none[r] <= f[r]
  BY <1>1 DEF SpentBy
<1>3. Spent(t) = SumFunctionOnSet(f, Requests)
  BY DEF Spent, SpentBy
<1>4. \A r \in Requests : none[r] = 0 * none[r]
  OBVIOUS
<1> HIDE DEF f, none
<1>5. SumFunctionOnSet(f, Requests) \in Int /\ SumFunctionOnSet(none, Requests) \in Int
  BY <1>2, FiniteSets, SumType
<1>6. SumFunctionOnSet(none, Requests) <= SumFunctionOnSet(f, Requests)
  BY <1>2, FiniteSets, SumMonotone
<1>7. SumFunctionOnSet(none, Requests) = 0 * SumFunctionOnSet(none, Requests)
  BY <1>2, <1>4, FiniteSets, SumTimes
<1>8. SumFunctionOnSet(f, Requests) >= 0
  BY <1>5, <1>6, <1>7
<1> QED BY <1>3, <1>5, <1>8 DEF f

(* A step that charges nobody leaves what everybody was granted.                *)
LEMMA GrantsUnmoved ==
    ASSUME Types, Types',
           \A r \in Requests : /\ work'[r].grants = work[r].grants
                               /\ work'[r].tenant = work[r].tenant \/ work[r].grants = 0
    PROVE  \A t : Granted(t)' = Granted(t)
<1> SUFFICES ASSUME NEW t PROVE Granted(t)' = Granted(t)
  OBVIOUS
<1>1. Granted(t) = SumFunctionOnSet(GrantsTo(t), Requests)
  BY DEF Granted, GrantsTo
<1>2. Granted(t)' = SumFunctionOnSet(GrantsTo(t)', Requests)
  BY DEF Granted, GrantsTo
<1>3. \A r \in Requests : GrantsTo(t)[r] = GrantsTo(t)'[r]
  BY DEF GrantsTo
<1>4. SumFunctionOnSet(GrantsTo(t), Requests) = SumFunctionOnSet(GrantsTo(t)', Requests)
  BY <1>3, FiniteSets, SumEqual
<1> QED BY <1>1, <1>2, <1>4

LEMMA SpentUnmoved ==
    ASSUME Types, Types',
           \A r \in Requests : /\ work'[r].spent = work[r].spent
                               /\ work'[r].tenant = work[r].tenant \/ work[r].spent = 0
    PROVE  \A t : Spent(t)' = Spent(t)
<1> SUFFICES ASSUME NEW t PROVE Spent(t)' = Spent(t)
  OBVIOUS
<1>1. Spent(t) = SumFunctionOnSet(SpentBy(t), Requests)
  BY DEF Spent, SpentBy
<1>2. Spent(t)' = SumFunctionOnSet(SpentBy(t)', Requests)
  BY DEF Spent, SpentBy
<1>3. \A r \in Requests : SpentBy(t)[r] = SpentBy(t)'[r]
  BY DEF SpentBy
<1>4. SumFunctionOnSet(SpentBy(t), Requests) = SumFunctionOnSet(SpentBy(t)', Requests)
  BY <1>3, FiniteSets, SumEqual
<1> QED BY <1>1, <1>2, <1>4

(* A grant is one more for its tenant and nothing for anybody else.             *)
LEMMA GrantsMove ==
    ASSUME Types, Types', NEW r \in Requests,
           work' = [work EXCEPT ![r] = work'[r]],
           work'[r].tenant = work[r].tenant, work'[r].grants = work[r].grants + 1
    PROVE  \A t : Granted(t)' = IF t = work[r].tenant THEN Granted(t) + 1 ELSE Granted(t)
<1> SUFFICES ASSUME NEW t
             PROVE  Granted(t)' = IF t = work[r].tenant THEN Granted(t) + 1 ELSE Granted(t)
  OBVIOUS
<1> DEFINE f == GrantsTo(t)
           g == GrantsTo(t)'
<1>1. Granted(t) = SumFunctionOnSet(f, Requests) /\ Granted(t) \in Int
  BY GrantsFacts
<1>2. Granted(t)' = SumFunctionOnSet(g, Requests)
  BY DEF Granted, GrantsTo
<1>3. \A q \in Requests : f[q] \in Int /\ g[q] \in Int
  <2>1. \A q \in Requests : work[q].grants \in Nat /\ work'[q].grants \in Nat
    BY DEF Types, Work
  <2> QED BY <2>1 DEF GrantsTo
<1>4. \A q \in Requests : q # r => g[q] = f[q]
  <2>1. \A q \in Requests : q # r => work'[q] = work[q]
    BY DEF Types
  <2> QED BY <2>1 DEF GrantsTo
<1>5. g[r] = IF t = work[r].tenant THEN f[r] + 1 ELSE f[r]
  BY DEF GrantsTo
<1> HIDE DEF f, g
<1>6. SumFunctionOnSet(g, Requests) = SumFunctionOnSet(f, Requests) - f[r] + g[r]
  BY <1>3, <1>4, FiniteSets, SumUpdate
<1> QED BY <1>1, <1>2, <1>3, <1>5, <1>6

LEMMA SpentMove ==
    ASSUME Types, Types', NEW r \in Requests, NEW amount \in Nat,
           work' = [work EXCEPT ![r] = work'[r]],
           work'[r].tenant = work[r].tenant, work'[r].spent = work[r].spent + amount
    PROVE  \A t : Spent(t)' = IF t = work[r].tenant THEN Spent(t) + amount ELSE Spent(t)
<1> SUFFICES ASSUME NEW t
             PROVE  Spent(t)' = IF t = work[r].tenant THEN Spent(t) + amount ELSE Spent(t)
  OBVIOUS
<1> DEFINE f == SpentBy(t)
           g == SpentBy(t)'
<1>1. Spent(t) = SumFunctionOnSet(f, Requests) /\ Spent(t) \in Int
  BY SpentFacts
<1>2. Spent(t)' = SumFunctionOnSet(g, Requests)
  BY DEF Spent, SpentBy
<1>3. \A q \in Requests : f[q] \in Int /\ g[q] \in Int
  <2>1. \A q \in Requests : work[q].spent \in Nat /\ work'[q].spent \in Nat
    BY DEF Types, Work
  <2> QED BY <2>1 DEF SpentBy
<1>4. \A q \in Requests : q # r => g[q] = f[q]
  <2>1. \A q \in Requests : q # r => work'[q] = work[q]
    BY DEF Types
  <2> QED BY <2>1 DEF SpentBy
<1>5. g[r] = IF t = work[r].tenant THEN f[r] + amount ELSE f[r]
  BY DEF SpentBy
<1> HIDE DEF f, g
<1>6. SumFunctionOnSet(g, Requests) = SumFunctionOnSet(f, Requests) - f[r] + g[r]
  BY <1>3, <1>4, FiniteSets, SumUpdate
<1> QED BY <1>1, <1>2, <1>3, <1>5, <1>6

(* A counter follows a charge that is no more than what the account takes.      *)
LEMMA WithinCharged ==
    ASSUME NEW f, NEW g, NEW a, NEW b, Within(f, a), NEW r \in Requests,
           work[r].at \in Instances, work[r].tenant \in Tenants,
           NEW delta \in Int, NEW over \in Nat, delta <= over,
           g = Api!Charged(f, r, delta),
           \A t \in Tenants : /\ a[t] \in Int
                              /\ b[t] = IF t = work[r].tenant THEN a[t] + over ELSE a[t]
    PROVE  Within(g, b)
<1>1. PICK i \in Instances, u \in Tenants : i = work[r].at /\ u = work[r].tenant
  OBVIOUS
<1>2. g = [f EXCEPT ![i][u] = @ + delta] /\ f \in [Instances -> [Tenants -> Int]]
  BY <1>1 DEF Api!Charged, Within
<1>3. \A x \in Instances, t \in Tenants :
        /\ f[x][t] \in Int
        /\ g[x][t] = IF x = i /\ t = u THEN f[x][t] + delta ELSE f[x][t]
  BY <1>2
<1>4. g \in [Instances -> [Tenants -> Int]]
  <2>1. f[i][u] + delta \in Int
    BY <1>3
  <2> QED BY <1>2, <2>1
<1>5. \A x \in Instances, t \in Tenants : f[x][t] <= a[t]
  BY DEF Within
<1>6. \A x \in Instances, t \in Tenants : g[x][t] <= b[t]
  BY <1>1, <1>3, <1>5
<1> QED BY <1>4, <1>6 DEF Within

LEMMA WithinEmptied ==
    ASSUME NEW f, NEW g, NEW a, Within(f, a), NEW i \in Instances,
           g = Api!Emptied(f, i), \A t \in Tenants : a[t] \in Int /\ a[t] >= 0
    PROVE  Within(g, a)
<1>1. f \in [Instances -> [Tenants -> Int]] /\ g = [f EXCEPT ![i] = [t \in Tenants |-> 0]]
  BY DEF Within, Api!Emptied
<1>2. g \in [Instances -> [Tenants -> Int]]
  BY <1>1
<1>3. \A x \in Instances, t \in Tenants : g[x][t] = IF x = i THEN 0 ELSE f[x][t]
  BY <1>1
<1>4. \A x \in Instances, t \in Tenants : f[x][t] <= a[t]
  BY DEF Within
<1>5. \A x \in Instances, t \in Tenants : g[x][t] <= a[t]
  BY <1>3, <1>4
<1> QED BY <1>2, <1>5 DEF Within

LEMMA AccountFacts ==
    Types => \A t \in Tenants : /\ SpentOf[t] = Spent(t)
                                /\ SpentOf[t] \in Int /\ SpentOf[t] >= 0
BY SpentFacts DEF SpentOf

(* Who was refused stays so while accounts only grow.                           *)
LEMMA RefusedForGood ==
    ASSUME Types, Types', NEW r \in Requests, NEW status, Refused(r, status),
           work'[r].tenant = work[r].tenant, work'[r].candidate = work[r].candidate,
           \A t : Granted(t)' \in Int /\ Granted(t)' >= Granted(t),
           \A t : Spent(t)' \in Int /\ Spent(t)' >= Spent(t),
           envelope' = envelope
    PROVE  Refused(r, status)'
<1>1. PICK t \in Tenants : t = work[r].tenant
  BY DEF Refused
<1>2. work[r].candidate \in 1..Candidates
  BY DEF Refused
<1>3. Asked(r)' = Asked(r)
  BY DEF Asked
<1>4. Asked(r) \in Nat
  <2>1. r[1] \in Calls
    BY DEF Requests
  <2>2. envelope[r[1]] \in Api!Envelope
    BY <2>1, ConstantTypes DEF Types
  <2>3. envelope[r[1]].estimates \in [1..Candidates -> Nat]
    BY <2>2 DEF Api!Envelope
  <2> QED BY <1>2, <2>3 DEF Asked
<1>5. Granted(t) \in Int /\ Spent(t) \in Int /\ Granted(t)' \in Int /\ Spent(t)' \in Int
  BY GrantsFacts, SpentFacts
<1>6. Cap \in Nat /\ MinuteCap \in Nat /\ DayCap \in Nat
  BY ConstantTypes
<1>7. /\ status = 429 => Granted(t) >= Cap \/ Spent(t) + Asked(r) > MinuteCap
      /\ status = 402 => Spent(t) + Asked(r) > DayCap
  BY <1>1 DEF Refused
<1>8. Granted(t)' >= Granted(t) /\ Spent(t)' >= Spent(t)
  OBVIOUS
<1>9. /\ status = 429 => Granted(t)' >= Cap \/ Spent(t)' + Asked(r) > MinuteCap
      /\ status = 402 => Spent(t)' + Asked(r) > DayCap
  BY <1>4, <1>5, <1>6, <1>7, <1>8
<1> QED BY <1>1, <1>2, <1>3, <1>9 DEF Refused

(* So every refusal stands, if the new ones do.                                 *)
LEMMA RefusalsKept ==
    ASSUME Types, Types', Refusals, envelope' = envelope,
           \A t : Granted(t)' \in Int /\ Granted(t)' >= Granted(t),
           \A t : Spent(t)' \in Int /\ Spent(t)' >= Spent(t),
           \A r \in Requests : HandsOff(work'[r]) /\ work'[r] # work[r] =>
              /\ Refused(r, work'[r].status)
              /\ work'[r].tenant = work[r].tenant /\ work'[r].candidate = work[r].candidate
    PROVE  Refusals'
<1> SUFFICES ASSUME NEW r \in Requests, HandsOff(work'[r])
             PROVE  Refused(r, work[r].status)'
  BY DEF Refusals, HandsOff, Refused
<1>1. PICK status : status = work'[r].status
  OBVIOUS
<1>2. /\ Refused(r, status)
      /\ work'[r].tenant = work[r].tenant /\ work'[r].candidate = work[r].candidate
  BY <1>1 DEF Refusals
<1>3. Refused(r, status)'
  BY <1>2, RefusedForGood
<1> QED BY <1>1, <1>3 DEF Refused

(* The server changes nothing about a request it has answered.                  *)
LEMMA AnsweredForGood ==
    ASSUME IInv, Next
    PROVE  \A r \in Requests : work[r].stage = "answered" => work'[r] = work[r]
<1>1. work \in [Requests -> Work]
  BY DEF IInv, Types
<1>2. ASSUME NEW c \in Calls, ClientStep(c) \/ Responds(c) PROVE work' = work
  BY <1>2 DEF ClientStep, Responds, serverVars
<1>3. ASSUME NEW q \in Requests, Delivers(q)
      PROVE  /\ \A r \in Requests : r # q => work'[r] = work[r]
             /\ work[q].stage # "answered"
  BY <1>1, <1>3 DEF Delivers, Api!Receive
<1>4. ASSUME NEW q \in Requests, Serves(q)
      PROVE  /\ \A r \in Requests : r # q => work'[r] = work[r]
             /\ work[q].stage # "answered"
  BY <1>1, <1>4 DEF Serves, Api!Serve, Api!Grant, Api!Charges, Api!Deny, Api!CallSucceeds,
     Api!CallFallsBack, Api!CallIsTerminal, Api!Answered
<1>5. ASSUME Recycles
      PROVE  \A r \in Requests : work[r].stage = "answered" => work'[r] = work[r]
  BY <1>5 DEF Recycles, Api!Recycle
<1>6. Dismisses \/ TimePasses => work' = work
  BY DEF Dismisses, TimePasses, Api!PeriodEnds, serverVars
<1> QED BY <1>2, <1>3, <1>4, <1>5, <1>6 DEF Next

(* Which answer a page reads does not change under it.                          *)
LEMMA ReadingKept ==
    ASSUME IInv, IInv', ReadsItsAnswer, Next
    PROVE  ReadsItsAnswer'
<1>1. \A c \in Calls : Current(c) \in Requests /\ Current(c)' \in Requests
  <2>1. \A c \in Calls : /\ call[c].attempt \in 1..(MaxRetries + 1)
                         /\ call'[c].attempt \in 1..(MaxRetries + 1)
    BY DEF IInv, Types, CallRecord
  <2> QED BY <2>1 DEF Current, Requests
<1>2. \A r \in Requests : work[r].stage = "answered" => work'[r] = work[r]
  BY AnsweredForGood
<1>3. ASSUME NEW c \in Calls, call'[c] = call[c], call'[c].phase = "reading"
      PROVE  /\ work'[Current(c)'].stage = "answered"
             /\ call'[c].status = work'[Current(c)'].status
  <2>1. Current(c)' = Current(c)
    BY <1>3 DEF Current
  <2> QED BY <1>1, <1>2, <1>3, <2>1 DEF ReadsItsAnswer
<1>4. ASSUME NEW c \in Calls, ClientStep(c)
      PROVE  \A d \in Calls : call'[d] = call[d] \/ call'[d].phase # "reading"
  BY <1>4, ProceedsEffect DEF ClientStep, IInv, CallStep
<1>5. ASSUME NEW c \in Calls, Responds(c)
      PROVE  ReadsItsAnswer'
  <2>1. /\ work' = work /\ work[Current(c)].stage = "answered"
        /\ HeadersArrive(c, work[Current(c)].status)
    BY <1>5 DEF Responds, serverVars
  <2>2. work[Current(c)].status \in Nat
    BY <1>1 DEF IInv, Types, Work
  <2>3. CallStep(c) /\ call'[c].attempt = call[c].attempt
    BY <2>1, <2>2, HeadersEffect DEF IInv
  <2>4. call'[c].status = work[Current(c)].status
    <3>1. call[c] \in CallRecord /\ call \in [Calls -> CallRecord]
      BY DEF IInv, Types
    <3> QED BY <2>1, <3>1 DEF HeadersArrive, CallRecord
  <2>5. Current(c)' = Current(c)
    BY <2>3 DEF Current
  <2> QED BY <1>3, <2>1, <2>3, <2>4, <2>5 DEF ReadsItsAnswer, CallStep
<1>6. ASSUME NEW r \in Requests, Delivers(r) \/ Serves(r) PROVE call' = call
  BY <1>6 DEF Delivers, Serves, clientVars
<1>7. Recycles \/ TimePasses \/ Dismisses => call' = call
  BY DEF Recycles, TimePasses, Dismisses, DismissWizard, clientVars
<1> QED BY <1>3, <1>4, <1>5, <1>6, <1>7 DEF Next, ReadsItsAnswer

(* A step that charges nobody and opens no window keeps the books, if it        *)
(* refuses only tenants that have used up what they are refused for.            *)
LEMMA QuietKeeps ==
    ASSUME BInv, IInv', ReadsItsAnswer', UNCHANGED <<rpm, tpm, tpd, windows, envelope>>,
           \A r \in Requests :
              /\ work'[r].grants = work[r].grants /\ work'[r].spent = work[r].spent
              /\ work'[r].tenant = work[r].tenant
                   \/ (work[r].grants = 0 /\ work[r].spent = 0)
              /\ InService(r)' => work'[r].at \in Instances
              /\ work'[r].stage # "unseen" \/ work'[r] = work[r]
              /\ HandsOff(work'[r]) /\ work'[r] # work[r] =>
                   /\ Refused(r, work'[r].status)
                   /\ work'[r].tenant = work[r].tenant
                   /\ work'[r].candidate = work[r].candidate
    PROVE  Books'
<1>1. Types /\ Types'
  BY DEF BInv, IInv
<1>2. \A t : Granted(t)' = Granted(t) /\ Granted(t) \in Int
  BY <1>1, GrantsUnmoved, GrantsFacts
<1>3. \A t : Spent(t)' = Spent(t) /\ Spent(t) \in Int
  BY <1>1, SpentUnmoved, SpentFacts
<1>4. Stored'
  BY DEF BInv, Books, Stored
<1>5. Placed'
  BY DEF BInv, Books, Placed
<1>6. Booked'
  <2>1. \A t : Room(t)' = Room(t)
    BY DEF Room
  <2> QED BY <1>2, <2>1 DEF BInv, Books, Booked
<1>7. TokensBooked'
  <2>1. SpentOf' = SpentOf
    BY <1>3 DEF SpentOf
  <2> QED BY <2>1 DEF BInv, Books, TokensBooked, Within
<1>8. Refusals'
  <2>1. \A t : Granted(t)' \in Int /\ Granted(t)' >= Granted(t)
    BY <1>2
  <2>2. \A t : Spent(t)' \in Int /\ Spent(t)' >= Spent(t)
    BY <1>3
  <2> QED BY <1>1, <2>1, <2>2, RefusalsKept DEF BInv, Books
<1> QED BY <1>4, <1>5, <1>6, <1>7, <1>8 DEF Books

LEMMA DeliversBooked ==
    ASSUME BInv, IInv', ReadsItsAnswer', NEW r \in Requests, Delivers(r)
    PROVE  Books'
<1> DEFINE e == envelope[r[1]]
<1>1. PICK i \in Instances : Api!Receive(r, e, i)
  BY DEF Delivers
<1>2. /\ UNCHANGED <<rpm, tpm, tpd, windows, envelope>>
      /\ work \in [Requests -> Work] /\ work[r].stage = "unseen"
  BY <1>1 DEF Delivers, Api!Receive, BInv, IInv, Types
<1>3. \A q \in Requests : q # r => work'[q] = work[q]
  BY <1>1, <1>2 DEF Api!Receive
<1>4. PICK w : w = work'[r]
  OBVIOUS
<1>5. /\ w.grants = 0 /\ w.spent = 0 /\ w.at = i /\ w.stage \in {"running", "answered"}
      /\ w.stage = "answered" => w.status = Api!Guarded(e)
  BY <1>1, <1>2, <1>4 DEF Api!Receive, Api!Idle
<1>6. Api!Guarded(e) \notin {402, 429}
  BY DEF Api!Guarded
<1>7. work[r].grants = 0 /\ work[r].spent = 0
  BY <1>2 DEF BInv, Books, Placed
<1>8. ~HandsOff(work'[r])
  BY <1>4, <1>5, <1>6 DEF HandsOff
<1>9. \A q \in Requests :
        /\ work'[q].grants = work[q].grants /\ work'[q].spent = work[q].spent
        /\ work'[q].tenant = work[q].tenant
             \/ (work[q].grants = 0 /\ work[q].spent = 0)
        /\ InService(q)' => work'[q].at \in Instances
        /\ work'[q].stage # "unseen" \/ work'[q] = work[q]
        /\ HandsOff(work'[q]) /\ work'[q] # work[q] =>
             /\ Refused(q, work'[q].status)
             /\ work'[q].tenant = work[q].tenant
             /\ work'[q].candidate = work[q].candidate
  <2> TAKE q \in Requests
  <2>1. CASE q # r
    BY <1>3, <2>1 DEF BInv, Books, Placed, InService
  <2>2. CASE q = r
    BY <1>4, <1>5, <1>7, <1>8, <2>2
  <2> QED BY <2>1, <2>2
<1> QED BY <1>2, <1>9, QuietKeeps

(* What is counted for a request in service, on its instance, for its tenant.   *)
LEMMA CountFacts ==
    ASSUME BInv, NEW r \in Requests, InService(r)
    PROVE  /\ work[r].at \in Instances /\ work[r].tenant \in Tenants
           /\ Api!Count(rpm, r) \in 0..Cap
           /\ Api!Count(rpm, r) <= Granted(work[r].tenant)
           /\ Api!Count(tpm, r) \in Int /\ Api!Count(tpd, r) \in Int
           /\ Api!Count(tpm, r) <= Spent(work[r].tenant)
           /\ Api!Count(tpd, r) <= Spent(work[r].tenant)
<1>1. work[r].at \in Instances /\ work[r].tenant \in Tenants
  BY ServedFacts DEF BInv, Books, Placed
<1>2. PICK i \in Instances, t \in Tenants : i = work[r].at /\ t = work[r].tenant
  BY <1>1
<1>3. rpm[i][t] \in 0..Cap /\ rpm[i][t] <= Granted(t)
  BY DEF BInv, Books, Stored, Booked
<1>4. SpentOf[t] = Spent(t)
  BY DEF SpentOf
<1>5. tpm[i][t] \in Int /\ tpm[i][t] <= Spent(t) /\ tpd[i][t] \in Int /\ tpd[i][t] <= Spent(t)
  BY <1>4 DEF BInv, Books, TokensBooked, Within
<1> QED BY <1>2, <1>3, <1>5 DEF Api!Count

(* A denied request is one whose tenant has used up what it is refused for.     *)
LEMMA DenyRefuses ==
    ASSUME BInv, NEW r \in Requests, Api!Deny(r, envelope[r[1]])
    PROVE  \E status \in {402, 429} : Api!Answered(r, status) /\ Refused(r, status)
<1> DEFINE e == envelope[r[1]]
           t == work[r].tenant
<1>1. InService(r)
  BY DEF Api!Deny, InService
<1>2. /\ t \in Tenants /\ work[r].candidate \in 1..Candidates
      /\ Asked(r) \in Nat /\ Api!Estimate(r, e) = Asked(r)
  BY <1>1, ServedFacts DEF BInv
<1>3. /\ Granted(t) \in Int /\ Spent(t) \in Int
      /\ Cap \in Nat /\ MinuteCap \in Nat /\ DayCap \in Nat
  BY GrantsFacts, SpentFacts, ConstantTypes DEF BInv, IInv
<1>4. /\ Api!Count(rpm, r) \in 0..Cap /\ Api!Count(rpm, r) <= Granted(t)
      /\ Api!Count(tpm, r) \in Int /\ Api!Count(tpm, r) <= Spent(t)
      /\ Api!Count(tpd, r) \in Int /\ Api!Count(tpd, r) <= Spent(t)
  BY <1>1, CountFacts
<1>5. CASE Api!MinuteFull(r, e)
  <2>1. Api!Answered(r, 429)
    BY <1>5 DEF Api!Deny, Api!HandoffStatus
  <2>2. Api!Count(rpm, r) + 1 > Cap \/ Api!Count(tpm, r) + Asked(r) > MinuteCap
    BY <1>2, <1>5 DEF Api!MinuteFull, Api!RequestsFull
  <2>3. Granted(t) >= Cap \/ Spent(t) + Asked(r) > MinuteCap
    BY <1>2, <1>3, <1>4, <2>2
  <2> QED BY <1>2, <2>1, <2>3 DEF Refused
<1>6. CASE ~Api!MinuteFull(r, e)
  <2>1. Api!Answered(r, 402) /\ Api!DayFull(r, e)
    BY <1>6 DEF Api!Deny, Api!HandoffStatus
  <2>2. Api!Count(tpd, r) + Asked(r) > DayCap
    BY <1>2, <2>1 DEF Api!DayFull
  <2>3. Spent(t) + Asked(r) > DayCap
    BY <1>2, <1>3, <1>4, <2>2
  <2> QED BY <1>2, <2>1, <2>3 DEF Refused
<1> QED BY <1>5, <1>6

(* What happens to a request in service and charges nobody.                     *)
LEMMA ServesBooked ==
    ASSUME BInv, IInv', ReadsItsAnswer', NEW r \in Requests, Serves(r),
           ~Api!Grant(r, envelope[r[1]]), ~Api!CallSucceeds(r, envelope[r[1]])
    PROVE  Books'
<1> DEFINE e == envelope[r[1]]
<1>1. /\ InService(r) /\ work \in [Requests -> Work] /\ IInv
      /\ Api!Deny(r, e) \/ Api!CallFallsBack(r) \/ Api!CallIsTerminal(r)
  BY DEF Serves, Api!Serve, Api!Deny, Api!CallFallsBack, Api!CallIsTerminal,
     InService, BInv, IInv, Types
<1>2. UNCHANGED <<rpm, tpm, tpd, windows, envelope>>
  BY <1>1 DEF Serves, Api!Deny, Api!CallFallsBack, Api!CallIsTerminal
<1>3. work[r].at \in Instances
  BY <1>1, CountFacts
<1>4. /\ work' = [work EXCEPT ![r] = work'[r]] /\ WorkGoesOn(work[r], work'[r])
      /\ work'[r].grants = work[r].grants /\ work'[r].spent = work[r].spent
      /\ HandsOff(work'[r]) => /\ Refused(r, work'[r].status)
                               /\ work'[r].candidate = work[r].candidate
  <2>1. CASE Api!Deny(r, e)
    <3>1. PICK status \in {402, 429} : Api!Answered(r, status) /\ Refused(r, status)
      BY <2>1, DenyRefuses
    <3>2. /\ work' = [work EXCEPT ![r] = work'[r]] /\ WorkGoesOn(work[r], work'[r])
          /\ AnsweredWith(work[r], work'[r], status) /\ work'[r].spent = work[r].spent
      BY <1>1, <3>1, AnsweredEffect
    <3> QED BY <3>1, <3>2 DEF AnsweredWith
  <2>2. CASE Api!CallIsTerminal(r)
    <3>1. PICK status \in {401, 502} : Api!Answered(r, status)
      BY <2>2 DEF Api!CallIsTerminal, Api!HttpStatus
    <3>2. /\ work' = [work EXCEPT ![r] = work'[r]] /\ WorkGoesOn(work[r], work'[r])
          /\ AnsweredWith(work[r], work'[r], status) /\ work'[r].spent = work[r].spent
      BY <1>1, <3>1, AnsweredEffect
    <3> QED BY <3>2 DEF AnsweredWith, HandsOff
  <2>3. CASE Api!CallFallsBack(r)
    BY <1>1, <2>3, FallsBackEffect DEF AnsweredWith, HandsOff
  <2> QED BY <1>1, <2>1, <2>2, <2>3
<1>5. \A q \in Requests : q # r => work'[q] = work[q]
  BY <1>1, <1>4
<1>6. \A q \in Requests :
        /\ work'[q].grants = work[q].grants /\ work'[q].spent = work[q].spent
        /\ work'[q].tenant = work[q].tenant
             \/ (work[q].grants = 0 /\ work[q].spent = 0)
        /\ InService(q)' => work'[q].at \in Instances
        /\ work'[q].stage # "unseen" \/ work'[q] = work[q]
        /\ HandsOff(work'[q]) /\ work'[q] # work[q] =>
             /\ Refused(q, work'[q].status)
             /\ work'[q].tenant = work[q].tenant
             /\ work'[q].candidate = work[q].candidate
  <2> TAKE q \in Requests
  <2>1. CASE q # r
    BY <1>5, <2>1 DEF BInv, Books, Placed, InService
  <2>2. CASE q = r
    BY <1>3, <1>4, <2>2 DEF WorkGoesOn
  <2> QED BY <2>1, <2>2
<1> QED BY <1>2, <1>6, QuietKeeps

(* The accounts of everybody when a request is charged amount more.             *)
LEMMA AccountsMove ==
    ASSUME Types, Types', NEW r \in Requests, NEW amount \in Nat, work[r].tenant \in Tenants,
           work' = [work EXCEPT ![r] = work'[r]],
           work'[r].tenant = work[r].tenant, work'[r].spent = work[r].spent + amount
    PROVE  /\ \A t : Spent(t)' \in Int /\ Spent(t)' >= Spent(t)
           /\ \A t \in Tenants :
                /\ SpentOf[t] \in Int
                /\ SpentOf'[t] = IF t = work[r].tenant THEN SpentOf[t] + amount ELSE SpentOf[t]
<1>1. \A t : Spent(t)' = IF t = work[r].tenant THEN Spent(t) + amount ELSE Spent(t)
  BY SpentMove
<1>2. \A t : Spent(t) \in Int
  BY SpentFacts
<1>3. \A t \in Tenants : SpentOf[t] = Spent(t) /\ SpentOf'[t] = Spent(t)'
  BY DEF SpentOf
<1>4. \A t : Spent(t)' \in Int /\ Spent(t)' >= Spent(t)
  BY <1>1, <1>2
<1> QED BY <1>1, <1>2, <1>3, <1>4

(* A commit may give tokens back to the counters, and raises the account by     *)
(* what the estimate fell short.                                                *)
LEMMA SucceedsBooked ==
    ASSUME BInv, IInv', ReadsItsAnswer', NEW r \in Requests, Serves(r),
           Api!CallSucceeds(r, envelope[r[1]])
    PROVE  Books'
<1>1. /\ InService(r) /\ work \in [Requests -> Work]
      /\ Types /\ Types' /\ IInv
      /\ UNCHANGED <<rpm, windows, envelope>>
  BY DEF Serves, Api!CallSucceeds, InService, BInv, IInv, Types
<1>2. PICK delta \in Int, over \in Nat :
        /\ delta <= over
        /\ tpm' = Api!Charged(tpm, r, delta) /\ tpd' = Api!Charged(tpd, r, delta)
        /\ work' = [work EXCEPT ![r] = work'[r]]
        /\ WorkGoesOn(work[r], work'[r]) /\ AnsweredWith(work[r], work'[r], 200)
        /\ work'[r].spent = work[r].spent + over
  BY <1>1, SucceedsEffect
<1>3. work[r].at \in Instances /\ work[r].tenant \in Tenants
  BY <1>1, CountFacts
<1>4. work'[r].tenant = work[r].tenant /\ work'[r].grants = work[r].grants
  BY <1>2 DEF WorkGoesOn, AnsweredWith
<1>5. /\ \A t : Spent(t)' \in Int /\ Spent(t)' >= Spent(t)
      /\ \A t \in Tenants :
           /\ SpentOf[t] \in Int
           /\ SpentOf'[t] = IF t = work[r].tenant THEN SpentOf[t] + over ELSE SpentOf[t]
  BY <1>1, <1>2, <1>3, <1>4, AccountsMove
<1>6. \A q \in Requests : q # r => work'[q] = work[q]
  BY <1>1, <1>2
<1>7. \A t : Granted(t)' = Granted(t) /\ Granted(t) \in Int
  <2>1. \A q \in Requests : work'[q].grants = work[q].grants /\ work'[q].tenant = work[q].tenant
    BY <1>4, <1>6
  <2> QED BY <1>1, <2>1, GrantsUnmoved, GrantsFacts
<1>8. Stored'
  BY <1>1 DEF BInv, Books, Stored
<1>9. Placed'
  BY <1>2, <1>6 DEF BInv, Books, Placed, InService, AnsweredWith
<1>10. Booked'
  <2>1. \A t : Room(t)' = Room(t)
    BY <1>1 DEF Room
  <2> QED BY <1>1, <1>7, <2>1 DEF BInv, Books, Booked
<1>11. TokensBooked'
  <2>1. Within(tpm, SpentOf) /\ Within(tpd, SpentOf)
    BY DEF BInv, Books, TokensBooked
  <2>2. Within(tpm', SpentOf')
    BY <1>2, <1>3, <1>5, <2>1, WithinCharged
  <2>3. Within(tpd', SpentOf')
    BY <1>2, <1>3, <1>5, <2>1, WithinCharged
  <2> QED BY <2>2, <2>3 DEF TokensBooked, Within
<1>12. Refusals'
  <2>1. ~HandsOff(work'[r])
    BY <1>2 DEF HandsOff, AnsweredWith
  <2>2. \A t : Granted(t)' \in Int /\ Granted(t)' >= Granted(t)
    BY <1>7
  <2>3. Refusals
    BY DEF BInv, Books
  <2> QED BY <1>1, <1>5, <1>6, <2>1, <2>2, <2>3, RefusalsKept
<1> QED BY <1>8, <1>9, <1>10, <1>11, <1>12 DEF Books

LEMMA RoomFacts ==
    ASSUME Stored, NEW t \in Tenants, NEW i \in Instances
    PROVE  /\ Room(t)[i] \in Int
           /\ Room(t)[i] <= Cap * windows[i]
           /\ Room(t)[i] = Cap * (windows[i] - 1) + rpm[i][t]
           /\ Cap * windows[i] = Cap * (windows[i] - 1) + Cap
           /\ Cap * (windows[i] - 1) \in Nat
           /\ rpm[i][t] \in 0..Cap
<1>1. PICK n \in Nat \ {0} : n = windows[i]
  BY DEF Stored
<1>2. rpm[i][t] \in 0..Cap /\ Cap \in Nat
  BY FiniteSets DEF Stored
<1>3. Cap * n = Cap * (n - 1) + Cap /\ Cap * (n - 1) \in Nat
  BY <1>2
<1>4. Room(t)[i] = Cap * (n - 1) + rpm[i][t]
  BY <1>1 DEF Room
<1> QED BY <1>1, <1>2, <1>3, <1>4

(* A grant takes one of the room its instance has for the tenant, and charges   *)
(* its estimate.                                                                *)
LEMMA GrantBooked ==
    ASSUME BInv, IInv', ReadsItsAnswer', NEW r \in Requests, Serves(r),
           Api!Grant(r, envelope[r[1]])
    PROVE  Books'
<1> DEFINE i == work[r].at
           u == work[r].tenant
<1>1. /\ InService(r) /\ work \in [Requests -> Work]
      /\ Types /\ Types' /\ IInv /\ Stored
      /\ UNCHANGED <<windows, envelope>>
  BY DEF Serves, Api!Grant, Api!Charges, InService, BInv, IInv, Types, Books
<1>2. i \in Instances /\ u \in Tenants
  BY <1>1, CountFacts
<1>3. /\ work' = [work EXCEPT ![r] = work'[r]]
      /\ WorkGoesOn(work[r], work'[r]) /\ Reserved(work[r], work'[r], Asked(r))
  BY <1>1, GrantEffect
<1>4. PICK n \in Nat : n = Asked(r) /\ n = Api!Estimate(r, envelope[r[1]])
  BY <1>1, ServedFacts
<1>5. /\ rpm' = Api!Charged(rpm, r, 1)
      /\ tpm' = Api!Charged(tpm, r, n) /\ tpd' = Api!Charged(tpd, r, n)
  BY <1>4 DEF Api!Grant, Api!Charges
<1>6. rpm[i][u] + 1 <= Cap
  <2>1. ~(Api!Count(rpm, r) + 1 > Cap)
    BY DEF Api!Grant, Api!MinuteFull, Api!RequestsFull
  <2>2. rpm[i][u] \in 0..Cap /\ Cap \in Nat
    BY <1>1, <1>2, FiniteSets DEF Stored
  <2> QED BY <2>1, <2>2 DEF Api!Count
<1>7. /\ work'[r].tenant = u /\ work'[r].at = i /\ work'[r].stage = "calling"
      /\ work'[r].grants = work[r].grants + 1 /\ work'[r].spent = work[r].spent + n
  BY <1>3, <1>4 DEF WorkGoesOn, Reserved
<1>8. \A t : Granted(t)' = IF t = u THEN Granted(t) + 1 ELSE Granted(t)
  BY <1>1, <1>3, <1>7, GrantsMove
<1>9. \A t : Granted(t) \in Int
  BY <1>1, GrantsFacts
<1>10. /\ \A t : Spent(t)' \in Int /\ Spent(t)' >= Spent(t)
       /\ \A t \in Tenants :
            /\ SpentOf[t] \in Int
            /\ SpentOf'[t] = IF t = u THEN SpentOf[t] + n ELSE SpentOf[t]
  BY <1>1, <1>2, <1>3, <1>7, AccountsMove
<1>11. \A x \in Instances, t \in Tenants :
        /\ rpm[x][t] \in 0..Cap /\ Cap \in Nat
        /\ rpm'[x][t] = IF x = i /\ t = u THEN rpm[x][t] + 1 ELSE rpm[x][t]
  <2>1. rpm' = [rpm EXCEPT ![i][u] = @ + 1]
    BY <1>5 DEF Api!Charged
  <2> QED BY <1>1, <1>2, <2>1, FiniteSets DEF Stored
<1>12. Stored'
  <2>1. rpm[i][u] + 1 \in 0..Cap
    BY <1>2, <1>6, <1>11
  <2>2. rpm' = [rpm EXCEPT ![i][u] = @ + 1]
    BY <1>5 DEF Api!Charged
  <2>3. rpm' \in [Instances -> [Tenants -> 0..Cap]]
    BY <1>1, <1>2, <2>1, <2>2 DEF Stored
  <2> QED BY <1>1, <2>3 DEF Stored
<1>13. \A q \in Requests : q # r => work'[q] = work[q]
  BY <1>1, <1>3
<1>14. Placed'
  BY <1>2, <1>7, <1>13 DEF BInv, Books, Placed, InService
<1>15. Booked'
  <2> SUFFICES ASSUME NEW t \in Tenants
               PROVE  /\ Granted(t)' <= SumFunctionOnSet(Room(t)', Instances)
                      /\ \A x \in Instances : rpm'[x][t] <= Granted(t)'
    BY DEF Booked
  <2>1. /\ Granted(t) <= SumFunctionOnSet(Room(t), Instances)
        /\ \A x \in Instances : rpm[x][t] <= Granted(t)
    BY DEF BInv, Books, Booked
  <2>2. \A x \in Instances : rpm'[x][t] <= Granted(t)'
    BY <1>8, <1>9, <1>11, <2>1
  <2> DEFINE f == Room(t)
             g == Room(t)'
  <2>3. \A x \in Instances :
          /\ f[x] \in Int /\ g[x] \in Int
          /\ f[x] = Cap * (windows[x] - 1) + rpm[x][t]
          /\ g[x] = Cap * (windows[x] - 1) + rpm'[x][t]
          /\ Cap * (windows[x] - 1) \in Nat
    <3> TAKE x \in Instances
    <3>1. /\ f[x] \in Int /\ f[x] = Cap * (windows[x] - 1) + rpm[x][t]
          /\ Cap * (windows[x] - 1) \in Nat
      BY <1>1, RoomFacts
    <3>2. g[x] = Cap * (windows[x] - 1) + rpm'[x][t]
      BY <1>1 DEF Room
    <3>3. rpm'[x][t] \in Int
      BY <1>12 DEF Stored
    <3> QED BY <3>1, <3>2, <3>3
  <2> HIDE DEF f, g
  <2>4. \A x \in Instances : x # i => g[x] = f[x]
    BY <1>11, <2>3
  <2>5. g[i] = IF t = u THEN f[i] + 1 ELSE f[i]
    BY <1>2, <1>11, <2>3
  <2>6. SumFunctionOnSet(g, Instances) = SumFunctionOnSet(f, Instances) - f[i] + g[i]
    BY <1>2, <2>3, <2>4, FiniteSets, SumUpdate
  <2>7. SumFunctionOnSet(f, Instances) \in Int /\ f[i] \in Int
    <3>1. \A x \in Instances : f[x] \in Int
      BY <2>3
    <3> QED BY <1>2, <3>1, FiniteSets, SumType
  <2>8. Granted(t)' <= SumFunctionOnSet(g, Instances)
    <3>1. Granted(t) <= SumFunctionOnSet(f, Instances)
      BY <2>1 DEF f
    <3> QED BY <1>8, <1>9, <2>5, <2>6, <2>7, <3>1
  <2> QED BY <2>2, <2>8 DEF g
<1>16. TokensBooked'
  <2>1. Within(tpm, SpentOf) /\ Within(tpd, SpentOf) /\ n \in Int /\ n <= n
    BY DEF BInv, Books, TokensBooked
  <2>2. Within(tpm', SpentOf')
    BY <1>2, <1>5, <1>10, <2>1, WithinCharged
  <2>3. Within(tpd', SpentOf')
    BY <1>2, <1>5, <1>10, <2>1, WithinCharged
  <2> QED BY <2>2, <2>3 DEF TokensBooked, Within
<1>17. Refusals'
  <2>1. ~HandsOff(work'[r])
    BY <1>7 DEF HandsOff
  <2>2. \A t : Granted(t)' \in Int /\ Granted(t)' >= Granted(t)
    BY <1>8, <1>9
  <2>3. Refusals
    BY DEF BInv, Books
  <2> QED BY <1>1, <1>10, <1>13, <2>1, <2>2, <2>3, RefusalsKept
<1> QED BY <1>12, <1>14, <1>15, <1>16, <1>17 DEF Books

(* A new window, with the instance or without, forgets what was counted.        *)
LEMMA WindowBooked ==
    ASSUME BInv, IInv', ReadsItsAnswer', NEW i \in Instances, Api!OpensWindow(i),
           tpd' \in {tpd, Api!Emptied(tpd, i)}, envelope' = envelope,
           \A r \in Requests :
             /\ work'[r].grants = work[r].grants /\ work'[r].spent = work[r].spent
             /\ work'[r].tenant = work[r].tenant /\ work'[r].at = work[r].at
             /\ work'[r] = work[r]
                  \/ (InService(r) /\ work'[r].stage = "answered" /\ work'[r].status = 504)
    PROVE  Books'
<1>1. /\ windows' = [windows EXCEPT ![i] = @ + 1]
      /\ rpm' = [rpm EXCEPT ![i] = [t \in Tenants |-> 0]]
      /\ Types /\ Types' /\ Stored
  BY DEF Api!OpensWindow, Api!Emptied, BInv, IInv, Books
<1>2. \A t : Granted(t)' = Granted(t) /\ Granted(t) \in Int
  BY <1>1, GrantsUnmoved, GrantsFacts
<1>3. \A t : Spent(t)' = Spent(t) /\ Spent(t) \in Int
  BY <1>1, SpentUnmoved, SpentFacts
<1>4. Stored'
  BY <1>1, FiniteSets DEF Stored
<1>5. Placed'
  BY DEF BInv, Books, Placed, InService
<1>6. TokensBooked'
  <2>1. Within(tpm, SpentOf) /\ Within(tpd, SpentOf)
    BY DEF BInv, Books, TokensBooked
  <2>2. \A t \in Tenants : SpentOf[t] \in Int /\ SpentOf[t] >= 0
    BY <1>1, AccountFacts
  <2>3. Within(tpm', SpentOf)
    BY <2>1, <2>2, WithinEmptied DEF Api!OpensWindow
  <2>4. Within(tpd', SpentOf)
    BY <2>1, <2>2, WithinEmptied
  <2>5. SpentOf' = SpentOf
    BY <1>3 DEF SpentOf
  <2> QED BY <2>3, <2>4, <2>5 DEF TokensBooked, Within
<1>7. Refusals'
  <2>1. \A r \in Requests : HandsOff(work'[r]) => work'[r] = work[r]
    BY DEF HandsOff
  <2>2. \A t : Granted(t)' \in Int /\ Granted(t)' >= Granted(t)
    BY <1>2
  <2>3. \A t : Spent(t)' \in Int /\ Spent(t)' >= Spent(t)
    BY <1>3
  <2>4. Refusals
    BY DEF BInv, Books
  <2> QED BY <1>1, <2>1, <2>2, <2>3, <2>4, RefusalsKept
<1>8. Booked'
  <2> SUFFICES ASSUME NEW t \in Tenants
               PROVE  /\ Granted(t) <= SumFunctionOnSet(Room(t)', Instances)
                      /\ \A x \in Instances : rpm'[x][t] <= Granted(t)
    BY <1>2 DEF Booked
  <2>1. /\ Granted(t) <= SumFunctionOnSet(Room(t), Instances)
        /\ \A x \in Instances : rpm[x][t] <= Granted(t)
    BY DEF BInv, Books, Booked
  <2>2. \A x \in Instances : rpm'[x][t] \in 0..Cap /\ rpm[x][t] \in 0..Cap
    BY <1>1, <1>4 DEF Stored
  <2>3. \A x \in Instances : rpm'[x][t] = IF x = i THEN 0 ELSE rpm[x][t]
    BY <1>1 DEF Stored
  <2>4. \A x \in Instances : rpm'[x][t] <= Granted(t)
    BY <1>2, <2>1, <2>2, <2>3, FiniteSets
  <2> DEFINE f == Room(t)
             g == Room(t)'
  <2>5. ASSUME NEW x \in Instances
        PROVE  f[x] \in Int /\ g[x] \in Int /\ f[x] <= g[x]
    <3>1. /\ f[x] \in Int /\ f[x] <= Cap * windows[x]
          /\ f[x] = Cap * (windows[x] - 1) + rpm[x][t]
      BY <1>1, RoomFacts
    <3>2. g[x] = Cap * (windows'[x] - 1) + rpm'[x][t]
      BY DEF Room
    <3>3. CASE x = i
      <4>1. windows'[x] - 1 = windows[x] /\ rpm'[x][t] = 0
        BY <1>1, <2>3, <3>3 DEF Stored
      <4>2. Cap * windows[x] \in Int
        BY <1>1, FiniteSets DEF Stored
      <4>3. g[x] = Cap * windows[x] + 0
        BY <3>2, <4>1
      <4>4. g[x] = Cap * windows[x]
        BY <4>2, <4>3
      <4> QED BY <3>1, <4>2, <4>4
    <3>4. CASE x # i
      <4>1. windows'[x] = windows[x] /\ rpm'[x][t] = rpm[x][t]
        BY <1>1, <2>3, <3>4 DEF Stored
      <4>2. g[x] = f[x]
        BY <3>1, <3>2, <4>1
      <4> QED BY <3>1, <4>2
    <3> QED BY <3>3, <3>4
  <2> HIDE DEF f, g
  <2>6. SumFunctionOnSet(f, Instances) <= SumFunctionOnSet(g, Instances)
    BY <2>5, FiniteSets, SumMonotone
  <2>7. SumFunctionOnSet(f, Instances) \in Int /\ SumFunctionOnSet(g, Instances) \in Int
    BY <2>5, FiniteSets, SumType
  <2>8. Granted(t) <= SumFunctionOnSet(f, Instances)
    BY <2>1 DEF f
  <2>9. Granted(t) <= SumFunctionOnSet(g, Instances)
    BY <1>2, <2>6, <2>7, <2>8
  <2> QED BY <2>4, <2>9 DEF g
<1> QED BY <1>4, <1>5, <1>6, <1>7, <1>8 DEF Books

LEMMA RecycleBooked ==
    ASSUME BInv, IInv', ReadsItsAnswer', NEW i \in Instances, Api!Recycle(i),
           envelope' = envelope
    PROVE  Books'
<1>1. work \in [Requests -> Work]
  BY DEF BInv, IInv, Types
<1>2. ASSUME NEW r \in Requests
      PROVE  /\ work'[r].grants = work[r].grants /\ work'[r].spent = work[r].spent
             /\ work'[r].tenant = work[r].tenant /\ work'[r].at = work[r].at
             /\ work'[r] = work[r]
                  \/ (InService(r) /\ work'[r].stage = "answered" /\ work'[r].status = 504)
  <2>1. PICK w \in Work : w = work[r]
    BY <1>1
  <2>2. CASE work'[r] = work[r]
    BY <2>2
  <2>3. CASE work'[r] # work[r]
    <3>1. InService(r)
          /\ work'[r] = [w EXCEPT !.stage = "answered", !.status = 504]
      BY <2>1, <2>3 DEF Api!Recycle, InService
    <3>2. work'[r] = [stage |-> "answered", at |-> w.at, tenant |-> w.tenant,
                      candidate |-> w.candidate, grants |-> w.grants, spent |-> w.spent,
                      status |-> 504]
      <4>1. PICK v : v = work'[r]
        OBVIOUS
      <4>2. v = [w EXCEPT !.stage = "answered", !.status = 504]
        BY <3>1, <4>1
      <4>3. v = [stage |-> "answered", at |-> w.at, tenant |-> w.tenant,
                 candidate |-> w.candidate, grants |-> w.grants, spent |-> w.spent,
                 status |-> 504]
        BY <4>2, KilledRequest
      <4> QED BY <4>1, <4>3
    <3> QED BY <2>1, <3>1, <3>2
  <2> QED BY <2>2, <2>3
<1>3. Api!OpensWindow(i) /\ tpd' = Api!Emptied(tpd, i)
  BY DEF Api!Recycle
<1> QED BY <1>2, <1>3, WindowBooked

LEMMA BooksInit == Init => Books
<1> SUFFICES ASSUME Init PROVE Books
  OBVIOUS
<1>1. /\ rpm = [i \in Instances |-> [t \in Tenants |-> 0]] /\ tpm = rpm /\ tpd = rpm
      /\ windows = [i \in Instances |-> 1]
      /\ work = [r \in Requests |-> Api!Idle]
  BY DEF Init, Api!ApiInit, Api!NoCounts
<1>2. Stored
  BY <1>1, FiniteSets DEF Stored
<1>3. Placed /\ Refusals
  BY <1>1 DEF Placed, InService, Refusals, HandsOff, Api!Idle
<1>4. ReadsItsAnswer
  BY DEF Init, ClientInit, Fresh, ReadsItsAnswer
<1>5. Types
  BY IInvInit DEF IInv
<1>6. ASSUME NEW t \in Tenants
      PROVE  /\ Granted(t) <= SumFunctionOnSet(Room(t), Instances)
             /\ \A i \in Instances : rpm[i][t] <= Granted(t)
  <2> DEFINE none == [r \in Requests |-> 0]
             nowhere == [i \in Instances |-> 0]
  <2>1. \A r \in Requests : GrantsTo(t)[r] = 0 * none[r] /\ none[r] \in Int
    BY <1>1 DEF GrantsTo, Api!Idle
  <2>2. \A i \in Instances : Room(t)[i] = 0 * nowhere[i] /\ nowhere[i] \in Int
    BY <1>1, FiniteSets DEF Room
  <2>3. SumFunctionOnSet(none, Requests) \in Int /\ SumFunctionOnSet(nowhere, Instances) \in Int
    BY FiniteSets, SumType
  <2> HIDE DEF none, nowhere
  <2>4. SumFunctionOnSet(GrantsTo(t), Requests) = 0 * SumFunctionOnSet(none, Requests)
    BY <2>1, FiniteSets, SumTimes
  <2>5. SumFunctionOnSet(Room(t), Instances) = 0 * SumFunctionOnSet(nowhere, Instances)
    BY <2>2, FiniteSets, SumTimes
  <2>6. Granted(t) = 0 /\ SumFunctionOnSet(Room(t), Instances) = 0
    BY <1>5, <2>3, <2>4, <2>5, GrantsFacts
  <2> QED BY <1>1, <2>6
<1>7. TokensBooked
  <2>1. \A t \in Tenants : SpentOf[t] \in Int /\ SpentOf[t] >= 0
    BY <1>5, AccountFacts
  <2>2. \A i \in Instances, t \in Tenants : rpm[i][t] = 0
    BY <1>1
  <2>3. rpm \in [Instances -> [Tenants -> Int]]
    BY <1>1
  <2>4. Within(rpm, SpentOf)
    BY <2>1, <2>2, <2>3 DEF Within
  <2> QED BY <1>1, <2>4 DEF TokensBooked
<1> QED BY <1>2, <1>3, <1>4, <1>6, <1>7 DEF Books, Booked

LEMMA BooksStep == BInv /\ [Next]_vars => BInv'
<1> SUFFICES ASSUME BInv, [Next]_vars PROVE BInv'
  OBVIOUS
<1>1. IInv'
  BY IInvStep DEF BInv
<1>2. ReadsItsAnswer'
  <2>1. CASE Next
    BY <1>1, <2>1, ReadingKept DEF BInv, Books
  <2>2. CASE UNCHANGED vars
    BY <2>2 DEF vars, clientVars, serverVars, BInv, Books, ReadsItsAnswer, Current
  <2> QED BY <2>1, <2>2
<1>3. ASSUME UNCHANGED <<work, rpm, tpm, tpd, windows, envelope>> PROVE Books'
  <2>1. \A r \in Requests : InService(r)' => work'[r].at \in Instances
    BY <1>3 DEF BInv, Books, Placed, InService
  <2> QED BY <1>1, <1>2, <1>3, <2>1, QuietKeeps
<1>4. ASSUME NEW c \in Calls, ClientStep(c) \/ Responds(c) PROVE Books'
  BY <1>3, <1>4 DEF ClientStep, Responds, serverVars
<1>5. ASSUME NEW r \in Requests, Delivers(r) PROVE Books'
  BY <1>1, <1>2, <1>5, DeliversBooked
<1>6. ASSUME NEW r \in Requests, Serves(r) PROVE Books'
  BY <1>1, <1>2, <1>6, GrantBooked, SucceedsBooked, ServesBooked
<1>7. ASSUME Recycles PROVE Books'
  BY <1>1, <1>2, <1>7, RecycleBooked DEF Recycles
<1>8. ASSUME TimePasses PROVE Books'
  <2>1. PICK i \in Instances : Api!PeriodEnds(i)
    BY <1>8 DEF TimePasses
  <2>2. /\ Api!OpensWindow(i) /\ tpd' \in {tpd, Api!Emptied(tpd, i)}
        /\ work' = work /\ envelope' = envelope
    BY <1>8, <2>1 DEF TimePasses, Api!PeriodEnds
  <2> QED BY <1>1, <1>2, <2>2, WindowBooked
<1>9. ASSUME Dismisses \/ UNCHANGED vars PROVE Books'
  BY <1>3, <1>9 DEF Dismisses, vars, serverVars
<1> QED BY <1>1, <1>4, <1>5, <1>6, <1>7, <1>8, <1>9 DEF Next, BInv

LEMMA BooksInvariance == Spec => []BInv
<1>1. Init => BInv
  BY IInvInit, BooksInit DEF BInv
<1> QED BY <1>1, BooksStep, PTL DEF Spec

(* Over all instances a tenant is granted at most the cap for every request     *)
(* window an instance opened: cold starts and scaling out multiply              *)
(* requests_per_min.                                                            *)
THEOREM GrantsBounded == Spec => []GrantsPerWindow
<1>1. BInv => GrantsPerWindow
  <2> SUFFICES ASSUME BInv, NEW t \in Tenants
               PROVE  Granted(t) <= Cap * SumFunctionOnSet(windows, Instances)
    BY DEF GrantsPerWindow
  <2> DEFINE f == Room(t)
             g == [i \in Instances |-> Cap * windows[i]]
  <2>1. Stored /\ Granted(t) <= SumFunctionOnSet(f, Instances) /\ Granted(t) \in Int
    BY GrantsFacts DEF BInv, IInv, Books, Booked
  <2>2. \A i \in Instances : windows[i] \in Int
    BY <2>1 DEF Stored
  <2>3. \A i \in Instances : g[i] = Cap * windows[i] /\ g[i] \in Int
    BY <2>2, FiniteSets
  <2>4. \A i \in Instances : f[i] \in Int /\ f[i] <= g[i]
    BY <2>1, <2>3, RoomFacts
  <2> HIDE DEF f, g
  <2>5. SumFunctionOnSet(f, Instances) <= SumFunctionOnSet(g, Instances)
    BY <2>3, <2>4, FiniteSets, SumMonotone
  <2>6. SumFunctionOnSet(g, Instances) = Cap * SumFunctionOnSet(windows, Instances)
    BY <2>2, <2>3, FiniteSets, SumTimes
  <2>7. SumFunctionOnSet(f, Instances) \in Int /\ SumFunctionOnSet(g, Instances) \in Int
    BY <2>3, <2>4, FiniteSets, SumType
  <2> QED BY <2>1, <2>5, <2>6, <2>7
<1> QED BY <1>1, BooksInvariance, PTL

-------------------------------------------------------------------------------
(* The wizard *)

(* How a call that ends as it does leaves the wizard.                           *)
WizardFits(c) ==
    /\ wizard' # wizard => call'[c].outcome = "handoff"
    /\ call'[c].outcome = "handoff" =>
         LET r == Current(c)
             t == work[r].tenant
         IN  /\ wizard' = work[r].status
             /\ wizard' = 429 => Granted(t) >= Cap \/ Spent(t) + Asked(r) > MinuteCap
             /\ wizard' = 402 => Spent(t) + Asked(r) > DayCap

WizardStep == \A c \in Calls : call'[c].outcome # call[c].outcome => WizardFits(c)

(* Only a call that goes on by itself ends, and no other with it.               *)
LEMMA OutcomeOfClient ==
    ASSUME IInv, Next, NEW c \in Calls, call'[c].outcome # call[c].outcome
    PROVE  Proceeds(c)
<1>1. Types /\ ClientWaits
  BY DEF IInv
<1>2. ASSUME NEW d \in Calls, ClientStep(d) PROVE Proceeds(c)
  <2>1. Proceeds(d) /\ CallStep(d)
    BY <1>1, <1>2, ProceedsEffect DEF ClientStep
  <2>2. d = c
    BY <2>1 DEF CallStep
  <2> QED BY <2>1, <2>2
<1>3. ASSUME NEW d \in Calls, Responds(d) PROVE FALSE
  <2>1. call[d] \in CallRecord /\ call \in [Calls -> CallRecord]
    BY <1>1 DEF Types
  <2>2. call'[c].outcome = call[c].outcome
    BY <1>3, <2>1 DEF Responds, HeadersArrive, CallRecord
  <2> QED BY <2>2
<1>4. ASSUME NEW r \in Requests, Delivers(r) \/ Serves(r) PROVE FALSE
  BY <1>4 DEF Delivers, Serves, clientVars
<1>5. ~Recycles /\ ~TimePasses /\ ~Dismisses
  BY DEF Recycles, TimePasses, Dismisses, DismissWizard, clientVars
<1> QED BY <1>2, <1>3, <1>4, <1>5 DEF Next

LEMMA OutcomeOfSends ==
    ASSUME Types, NEW c \in Calls, NEW n, Sends(c, n), wizard' = wizard
    PROVE  call'[c].outcome \in {"network", call[c].outcome}
<1>1. call[c] \in CallRecord /\ call \in [Calls -> CallRecord]
  BY DEF Types
<1> QED BY <1>1 DEF Sends, Settles, CallRecord

LEMMA OutcomeOfSettles ==
    ASSUME Types, NEW c \in Calls, NEW how \in Outcomes, Settles(c, how)
    PROVE  call'[c].outcome = how
BY SettlesEffect

LEMMA WizardSteps == BInv /\ [Next]_vars => [WizardStep]_vars
<1> SUFFICES ASSUME BInv, Next, NEW c \in Calls, call'[c].outcome # call[c].outcome
             PROVE  WizardFits(c)
  BY DEF WizardStep
<1>1. Proceeds(c) /\ Types
  BY OutcomeOfClient DEF BInv, IInv
<1>2. CASE TokensReady(c) \/ BackoffElapses(c)
  <2>1. (\E n : Sends(c, n)) /\ wizard' = wizard
    BY <1>2 DEF TokensReady, BackoffElapses
  <2>2. call'[c].outcome = "network"
    BY <1>1, <2>1, OutcomeOfSends
  <2> QED BY <2>1, <2>2 DEF WizardFits
<1>3. CASE SendFails(c) \/ BodyFails(c)
  <2>1. wizard' = wizard /\ call'[c].outcome \in {"network", "rejected"}
    BY <1>1, <1>3, OutcomeOfSettles DEF SendFails, BodyFails, Outcomes
  <2> QED BY <2>1 DEF WizardFits
<1>4. CASE BodyRead(c)
  <2>1. CASE call[c].status \in {402, 429}
    <3>1. call'[c].outcome = "handoff" /\ wizard' = call[c].status
      BY <1>1, <1>4, <2>1, OutcomeOfSettles DEF BodyRead, Outcomes
    <3>2. /\ work[Current(c)].stage = "answered"
          /\ call[c].status = work[Current(c)].status
      BY <1>4 DEF BInv, Books, ReadsItsAnswer, BodyRead
    <3>3. Current(c) \in Requests
      BY <1>1 DEF Types, CallRecord, Current, Requests
    <3>4. Refused(Current(c), work[Current(c)].status)
      BY <2>1, <3>2, <3>3 DEF BInv, Books, Refusals, HandsOff
    <3> QED BY <3>1, <3>2, <3>4 DEF Refused, WizardFits
  <2>2. CASE call[c].status \notin {402, 429}
    <3>1. wizard' = wizard /\ call'[c].outcome \in {"ok", "error"}
      BY <1>1, <1>4, <2>2, OutcomeOfSettles DEF BodyRead, Outcomes
    <3> QED BY <3>1 DEF WizardFits
  <2> QED BY <2>1, <2>2
<1> QED BY <1>1, <1>2, <1>3, <1>4 DEF Proceeds

(* Whatever retries, timeouts and restarts come between, the key wizard opens   *)
(* for a refusal over quota and for nothing else, and with the status of a      *)
(* window that what was asked for would have overrun.                           *)
THEOREM HandoffsCorrect == Spec => WizardOpensForHandoff
BY BooksInvariance, WizardSteps, PTL DEF Spec, WizardOpensForHandoff, WizardStep, WizardFits

===============================================================================
