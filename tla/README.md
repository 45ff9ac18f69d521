# Verification of ModelDispatcher

This directory is a formal model of ModelDispatcher, the resilient AI model
gateway in `src/`: TLA+ modules, the TLC configurations that check them on small
instances, and theorems that TLAPS proves for every value of the constants.
Paths below are relative to the repository; `src/src/model_dispatcher/` is
shortened to `md/`.

## 1. Inventory

### The system

An application builds one `ModelGateway` and calls `dispatch`/`adispatch` for
every request. A dispatch validates the request at the perimeter, triages it,
routes it to a cheapest-first list of providers and hands it to the agent loop.
The loop runs model turns, executes the tool calls a turn asks for and iterates.
Every turn goes through the fallback chain, four links run in order by an
executor: perimeter, credential, quota, invocation. The invocation link calls
the provider; a failure is retried with the same key, rotated to the next pooled
key, failed over to the next provider, or ends the turn. The quota manager
pre-charges an estimate before the call and corrects it after. Applications that
bound a dispatch in time run it on a worker thread (`byok/dispatch.py`). Clients
in TypeScript call a server, or the providers directly from the browser.

### Components

| Component | State it keeps | Operations | Interacts with | What is hard | What makes it correct |
|---|---|---|---|---|---|
| Fallback chain (`md/fallback/`) | per turn: `InvocationContext` (candidates, credentials, reservation, attempts), the loop variables of `ModelInvocationHandler.handle`/`ahandle` | `execute`, `aexecute`; the four handlers | credentials, quota, onboarding, adapters | three nested loops, the outer one in `chain.py`, the inner two in `handle`/`ahandle` with their verdicts in `_on_error`, two retry budgets, cancellation, scratch state that outlives a candidate | the walk visits keys in route order, within budget, never after a terminal error; the reservation committed is the winner's; every turn ends |
| Quota manager and store (`md/quota/`) | counters `(tenant, window) -> (count, period)`, reservations held by callers | manager: `reserve`, `commit`; store: `read`, `incr`, `reset_expired` | the quota and invocation links; worker threads | check-then-act over three counters without a lock, an `incr` that loses updates; lazy resets; commits that arrive in a later period; abandoned reservations | caps hold up to a stated overshoot; a counter is off by exactly what is explained |
| Agent loop, tools (`md/orchestration/`) | `ConversationState` (messages, usage, iterations), steps | `run`, `arun`; `execute`, `aexecute` | the chain, once per turn; application tools | a turn may raise after others were paid for; the last assistant message may be the caller's | at most `max_iterations` turns; every tool call is answered in order |
| Gateway (`md/gateway.py`) | its collaborators, no run state | `dispatch`, `adispatch`, `_prepare` | everything above | request fields lost when the request is rebuilt each turn | checks happen before any charge |
| Router, triage (`md/routing/`) | none | `route`, `classify` | registry | tier floor, capability fit, escalation, cut, tie-breaks | the list is sorted, complete and free of unfit providers |
| Provider registry (`md/providers/registry.py`) | name -> provider | `register`, `get`, iteration | router | replacement of a name keeps its place | names are unique |
| Adapters (`md/providers/`) | SDK clients | `complete`, `acomplete`, `classify_error`, `retry_after_seconds` | vendors | ids that one vendor minted and another is sent, results paired by id or by name | a tool result reaches the call it answers at whichever vendor serves the next turn |
| Credentials, perimeter, redaction (`md/security/`) | settings | `resolve_candidates`, `validate`, `scrub` | chain, gateway | precedence of user, tenant and server keys; what raises and what falls back | the visitor's keys pay first, and no usable key goes to waste |
| Onboarding (`md/onboarding/`) | none | `stage`, `escalate` | quota link | which status a handoff carries | 429 for minute windows, 402 for the day |
| Timeout dispatch (`md/byok/dispatch.py`) | a thread pool | `dispatch_with_timeout` | gateway, quota store | a caller that gives up while the worker goes on; dispatches queued behind hung ones | every caller is answered, every dispatch runs exactly once |
| BYOK builder (`md/byok/registry.py`) | none | `build_registry`, `credential_metadata` | registry, credentials | who is registered and who resolves to a key are decided apart | a registered vendor has a usable key, or it is known when it has not |
| Async bridge (`md/_async_bridge.py`) | none | `run_sync` | nobody | - | - |
| Observability (`md/observability/`) | log and metric sinks | - | - | - | - |
| TypeScript client (`clients/typescript/`) | per call: attempt and timer; per page: the wizard of `useGateway` | `dispatch` through App Check, auth, retry, timeout, `fetch`; decoder; event bus | a server | a retry of what the server still serves, a body that breaks off or never ends, two calls sharing one wizard | one request in service per click, the wizard opens for a handoff only, with the status that was answered |
| Browser agent (`clients/browser-agent/`) | configuration | `complete`, `streamComplete`, `buildMessages`, `candidatesOf` | vendor HTTP APIs | abort during failover, a stream that fails half-way | nobody is asked after text was shown or after an abort |
| React UI (`clients/react-ui/`) | the edited configuration | add, remove, reorder providers | browser agent | - | - |
| Vercel template (`templates/vercel-app/`) | quota counters in each instance's memory (`_STORE`) | `run_dispatch` behind the App Check and auth guards | gateway, TypeScript client | three quota windows of which any may refuse, instances that start cold and are killed, requests served after their client gave up | only a tenant the server can vouch for is charged; a refusal names the window it is for |
| Demo, examples | - | - | - | - | - |

`PROJECT.json` lists the same components with their status, and under `hazards`
every place of this code that is hard to test, with the properties that watch it.

## 2. Modules

| Module | What it models | Code |
|---|---|---|
| `Conditions` | error classes and the two predicates on them | `md/types.py`, `md/fallback/conditions.py` |
| `FallbackChain` | one turn: the executor and its four links, with key rotation, retry, rate-limit waits and cancellation | `md/fallback/chain.py`, `md/fallback/handlers.py`; what the links ask of `credentials.py` and `flow.py` |
| `Failover` | abstract: what a walk over provider/key slots promises | - |
| `QuotaManager` | reserve, commit and housekeeping over the in-memory store, many dispatches on one event loop, a clock | `md/quota/manager.py`, `store.py`, `tenant.py` |
| `WindowMeter` | abstract: counters that are zeroed eagerly | - |
| `QuotaThreads` | the same methods called from worker threads, at the grain of dict accesses | `md/quota/manager.py`, `store.py` |
| `Adapters` | pure: a conversation on its way to a vendor, an answer on its way back, keys and failure classes | `md/providers/*_provider.py` |
| `AgentLoop` | one run: model turns (through `Failover`), tool calls as the adapters carry them, ceiling, deadline, cancellation | `md/orchestration/`; the perimeter's checks that a run can change |
| `Gateway` | registering providers, and a dispatch up to its first turn: perimeter, triage, route, effective tools | `md/gateway.py`, `md/providers/registry.py`, `md/routing/router.py` |
| `Byok` | a request's registry and credentials out of server, visitor and organisation keys, the route it gets, and the turn (`FallbackChain`) that spends them | `md/byok/registry.py`, `md/security/credentials.py`, `md/routing/router.py` |
| `DispatchPool` | `dispatch_with_timeout` over a thread pool | `md/byok/dispatch.py` |
| `GatewayClient` | `dispatch` of the TypeScript client and the wizard of `useGateway` | `clients/typescript/src/` |
| `VercelApi` | guards, charging over three windows and status of a request, on instances that are recycled | `templates/vercel-app/api/`, `demo/backend/app.py`; `md/quota/manager.py`, `md/onboarding/handoff.py` |
| `Deployment` | pages (`GatewayClient`), a network, instances (`VercelApi`) | the template as a whole |
| `BrowserAgent` | `complete` and `streamComplete` | `clients/browser-agent/src/agent.ts`, `http.ts`, `config.ts`, `providers/` |
| `Lists` | `Only`, filtering a list, written so that the prover can look into it | comprehensions and `filter` calls of the modules above |
| `FallbackChainProofs` | theorems about `FallbackChain` and about `Byok`, which extends it | - |
| `DispatchProofs` | theorems about `DispatchPool` and `Gateway`: the pool a dispatch runs on, the route it gets | - |
| `QuotaManagerProofs`, `QuotaThreadsProofs`, `AgentLoopProofs`, `DeploymentProofs`, `BrowserAgentProofs` | theorems about the module of that name | - |
| `DataLemmas` | facts about sums, filtered lists and joined lists that the others rest on | - |
| `MC...` | instances for TLC | - |

Who uses whom: `Byok` EXTENDS `FallbackChain` and `Adapters`; `AgentLoop` EXTENDS
`Adapters` and instantiates `Failover`, which `FallbackChain` implements;
`Deployment` EXTENDS `GatewayClient` and instantiates `VercelApi`.

### FallbackChain

State and code: `candidates`, `reservation` and `attempts` are the fields of
`InvocationContext`; `credentials` is the length of its credential list; `key`
is the index of the loop over credentials in `ModelInvocationHandler.handle` (and
`ahandle`), `attempt` the one of the loop inside it; `link` is where the executor is, with `"backoff"` for a
sleep in progress and `"done"` for a turn that returned or raised; `wait` is what
`_backoff_delay` returned. `turn` holds what a turn is given: the route, how many
own keys a tenant pools per provider, whether it is a zero-setup tenant, and
whether the perimeter admits its request.

An action is what runs between two points where the turn can be observed or
cancelled. `PerimeterAdmits`/`PerimeterRejects`, `ResolveCredentials`/
`NoCredential`, `QuotaGrants`/`QuotaDeniesFallsBack`/`QuotaDeniesHandsOff` are
the first three links; a `FALLBACK` is part of the action that returns it
(`FallBack`: pop the candidate, `reset_candidate_state`, restart or raise
`AllProvidersExhausted`). A provider call ends in `CallSucceeds`,
`CallFailsWaits` (the same key is tried again after a sleep), `CallFailsMovesOn`
(rotate or fall back), `CallFailsTerminally` or `CallRaises` (a library
exception, propagated unrecorded). `BackoffElapses` ends the sleep and either
goes on or finds the loop's range used up. `Cancel` is `asyncio.wait_for` at one
of the two await points. `Failover` is the abstract specification; `WalksInOrder`
is the refinement.

Abstractions: the perimeter's verdict is constant within a turn (its inputs are);
`ALLOW` and `SOFT_LIMIT` are one verdict, since the warning is only written; the
quota verdict is free here; a retry hint is absent, within `rate_limit_max_wait`,
or beyond it; an attempt is the triple of provider, key and error class.

### QuotaManager and WindowMeter

`counts` is the store's dict with the period of each entry (an entry that is not
there has period -1); `Read` is `get`, which answers 0 for an entry of a past
period; `Incr` is `incr`. `held` is the `Reservation` each dispatch holds in its
context. `Reserve`, `Commit` and `ResetExpired` are whole methods, one step each
because they contain no `await`; that they may be taken so, even on threads, as
long as no two calls overlap, is what `ExactWithoutOverlap` checks one level
down. `Abandon` is what the fallback chain does with a reservation in all its
ways of not committing. `granted` and `ledger` are history. One tenant is enough:
counters are keyed by tenant and no operation reads another's. A period that
rolls over in the middle of one `reserve` is not split.

### QuotaThreads

`pc` and `frame` are the program counter and the locals of each thread.
`ReadWindow` is one of the three reads of `reserve`, `IncrGet` and `IncrSet` the
two halves of the in-memory `incr`; `IncrAtomic` is an `incr` that keeps the
`QuotaStore` protocol's promise. `store` chooses between them at the start.
`ledger` and `refunded` are history: what every window was charged, corrections
included, and what corrections gave back. The two are what a lost update is
measured by: when two threads overwrite each other, a charge goes missing, or a
refund does, and then a token counter is too high. `CountsWereCharged` says how
far it can be off upwards; downwards nothing limits it. `ExactWithoutOverlap` speaks of all three windows.

### AgentLoop

State and code: `messages` and `usage` are the fields of `ConversationState`,
`steps` the list of `StepResult`s (the position of its message and its usage; the
list of attempts a step copies from its turn is left out), `next` the loop
variable over `message.tool_calls`, `candidates` the list that is copied into
every turn's context. `phase` is where the loop is, `ending` the `StopReason` or
how an exception left the loop, `final` the position of the message handed out.
`run` is what the run is given: sync or async, the caller's history, the tool
registry, and whether there is a deadline. A name in a registry has a
synchronous handler, an asynchronous one, both, neither, or is not there.

The loop's head is four actions, one per way out of it: `StopsAtCeiling`,
`StopsAtDeadline`, `TurnRejected`, `BeginsTurn`. A turn is `Turn!Next`, the next
step of `Failover`, over `slot`, `tried` and `outcome`: that `FallbackChain`
implements `Failover` is the property `WalksInOrder` of `chain_turn`, so the loop
is checked against what a turn promises and not against its three loops again.
It ends in `TurnRaises` or in `Absorb`, which appends the answer, folds its
usage, records the step and goes to the tools or to `_finalize`. `ToolRuns` and
`ToolUnusable` are `execute`/`aexecute`: whatever a tool does comes back as a
result. `Cancel` is `asyncio.wait_for` around `arun` at a provider call or an
awaited handler; `except Exception` does not stop it. `Expire` is the clock.

A message carries its calls with their ids. What an answer's ids can be is
`ReadCalls` of the adapter at the slot that answered: OpenAI and Anthropic mint
them, Gemini may leave them out and `GeminiProvider` then counts `call_0`,
`call_1` anew in every answer. `ResultsReachTheirCalls` puts the whole transcript
through `ToWire` of every vendor that may serve the next turn.

The perimeter runs at the head of every turn. Its checks on tenant and keys
cannot change within a run and are taken as passed; message presence and payload
size can, since tool results make the transcript grow, and are modelled
(`Admits`). `max_payload_bytes` is measured in units of `Sizes`.

### Gateway

`registry` is the insertion-ordered dict as a sequence, `candidates` and
`advertised` are what `_prepare` returns (the route, and whether the state holds
tool specs), `request` is what it was given together with triage's verdict, which
may be anything: the scorer is the application's. `ToRequest` is
`ConversationState.to_request`, the request every provider actually sees.
`GatewaySpec` is the specification. `Register` may happen at any time, before and
after the dispatch, and replaces in place. A dispatch keeps nothing here, so one
is enough; the perimeter's verdict is an input (the request is `admissible` or
not).

### Adapters

Operators only. `ToWire` is the list of messages an adapter builds, an entry
being a role, the calls it holds and what the vendor is told a result answers;
Gemini is told a tool's name, found by the call's id among the calls seen so far
(`NameOf`, the `call_names_by_id` dict). `ReadCalls` are the calls an answer may
hold after the adapter read it. `KeySent` is `api_key or self._api_key`, and
`ClassifyError` each adapter's error classification by status and vendor code.
"openai" stands for its four compatible subclasses, which change name, URL and
model.

### Byok

`visit` is what the operator (`server`), the visitor (`credentials`, a list of
keys per vendor as pasted) and the tenant (`organisation`, `zeroSetup`) bring,
with the tier the request asks for (`floor`: of its complexity, or its hint) and
the operator's policy (`escalates`, `cut`). `Registered` is `build_registry`,
`Route` is `ModelRouter.route` over it: `at_or_above` the floor, the floor's tier
alone without escalation, at most `max_candidates`. Its capability filter drops
nobody, since each of the adapters declares TOOLS. `ResolveCandidates` is the
resolver over what `credential_metadata` made of the lists. `TurnOf` hands route
and key counts to `FallbackChain`, whose actions run unchanged; `ByokNext` only restricts how a
call may fail to what the vendor's adapter makes of it. Keys are followed to the
vendor: `SpentAt(i)` is the key of the i-th call. What exhaustion promises is
promised of the vendors the router keeps (`Fitting`, and `Cheaper` for the cut),
not of all that are registered: a visitor whose only key is for a cheap vendor
and whose request is complex is told `AllProvidersExhausted` by an empty route
(`chain.py:85-89`), the key untried.

### DispatchPool

`queue`, `running` and `future` are the executor's (external, the standard
library's), `caller` is what each caller of `dispatch_with_timeout` does or got,
`expired` the callers whose time is up, `charges` the provider calls made for
each dispatch. `Answers` is `future.result(timeout=...)`: a caller whose time is
up may still find the dispatch done. Giving up touches nothing of the pool.

### GatewayClient, VercelApi, Deployment

`call` holds where each dispatch is (`tokens`, `sending`, `backoff`, `reading`,
`settled`), which attempt it is at, the last status and the outcome. One action
per point at which the code awaits: `TokensReady` (App Check and auth, once per
call), `HeadersArrive` (the timer is disarmed, then the retry layer looks at the
status), `SendFails` (timer, network or abort), `BackoffElapses`, `BodyRead`
(`decodeOutcome`, which publishes a handoff before it returns) and `BodyFails`.
An abort of the caller's signal is not a variable of its own: it is one of the
reasons for which a request, or a body, fails, and `Sends` may find it before
anything is sent.

`work` is what became of each request the client sent: unseen, running, calling
a provider, answered. `Receive` is `run_dispatch` up to the gateway: the guards
in their order, with the two ways a bad service account has of crashing instead
of refusing, and the tenant that is charged. `Grant`, `Deny`, `CallSucceeds`,
`CallFallsBack`, `CallIsTerminal` are a turn by what it charges and what status
it ends in; what a turn is in detail is `FallbackChain`. `rpm`, `tpm` and `tpd`
are the three counters of each instance's `_STORE`; a request carries what each
candidate's `estimate_tokens` makes of its prompt, and its answer any of
`Actuals`. `MinuteFull` and `DayFull` are the checks of `reserve` in their order: a
breach of either window of a minute is a 429, one of the day's tokens a 402, and a
prompt that is larger than the budget is refused before anything was granted.
`PeriodEnds` lets a minute, and maybe a day, pass on one instance; that the code
resets a counter at its next access instead is the difference `ResetsAtRollover`
of `quota_windows` shows nobody can see. `Recycle` is the platform's: an instance
loses its counters and the request it was serving. `windows` counts the request
windows an instance has opened by either.

`Deployment` puts a network between them: a request is delivered to any instance
at any time after it was sent, or never, also when its client has long given up,
and an answer is seen only by a call still waiting for that request.

### BrowserAgent

`candidates` is `candidatesOf(cfg)`, `at` the candidate of the loop, `attempt`
that of `fetchWithRetry`; `heard` is the set of candidates whose text reached
`onChunk`, `requests` what left the browser. `Fetch` includes the two ways of not
sending: a refused Ollama URL, and a signal that was aborted. `FetchThrows` is
the catch of `fetchWithRetry`, `Fails` the catch of the candidate loop. An abort
may come at any time.

## 3. Runs

| Run | Shows | Bounds |
|---|---|---|
| `chain_turn` | ten properties of a turn, among them that it implements `Failover` and that it ends | routes of 0, 1 and 2 providers, free and paid; up to 2 pooled keys; 2 attempts, rate-limit budget 3 |
| `quota_windows` | caps, the account of what a counter is off by, lazy against eager resets | 2 dispatches, 2 days of 2 minutes, caps 3/4/6, estimates 1-2, actuals 0, 1, 3 |
| `threads_pool` | overshoot per thread, nothing but charges in the counters, all three windows exact without overlap | 2 threads, either store, caps 2/3/4, estimates 1-2, actuals 0-1, 4 grants |
| `loop_run` | a run's transcript is well formed, results reach their calls at every vendor, its steps and usage account for it, its stop reason explains its final message, and it ends | no route, or Gemini then OpenAI with a key each; 2 iterations; answers with 0, 1 or 2 calls to one registered and one missing tool; 3 histories; payload limit 2 |
| `gateway_route` | the route is exactly the fitting providers, cheapest first; replacing keeps places | 4 providers under 3 names, at most 2 candidates, both escalation policies |
| `gateway_cap` | violated: the caller's output cap is lost | as above |
| `byok_keys` | whose key is spent, that exhaustion leaves no usable key of a vendor in reach untried, which dispatches are stranded | 2 vendors of different tiers, listed the other way round; every floor, with and without escalation, a cut of 1 and of 4; five pasted lists (none, a blank, a key, a blank and a key, two keys); 2 attempts, rate-limit budget 1 |
| `byok_either` | violated: a server key alone does not serve a caller that is not zero-setup | as above |
| `pool` | each dispatch runs once; time-outs are explained; callers are always answered; given-up dispatches finish | 3 callers, 2 workers, 1 provider call per dispatch |
| `pages` | one request in service per call; grants bounded per request window; who is charged; when and with which status the wizard opens | 2 calls with 1 retry, 2 tenants, 2 instances and 1 restart or rollover, 2 requests and 4 tokens a minute, 5 tokens a day, 2 candidates, estimates 2 then 1 or 5 then 1, actuals 1 and 3, 4 configurations, 3 kinds of page |
| `client_rejects` | violated: a body that breaks off rejects the promise | as above, 1 call |
| `browser` | nobody asked too late; exhaustion is honest; every call settles | none, one or two of six credential entries: no key, an empty one, one, two, an empty and one, keyless Ollama |

Why the bounds are enough. A route of two providers has a first, a last and a
next one, and two keys have the same; a retry budget of 2 with a rate-limit
budget of 3 is the pair of settings where the two budgets collide, and the
default pair (3 and 3) is the easier case. Four minutes in two days pass one
minute boundary that is not midnight on either side of one that is. Two
dispatches are what it takes for one to reserve while the other is open; two
threads what it takes for two to read before either writes. Three threads hold
the same properties but take 9 million states.

Two iterations give a run a first turn, a turn after tools and a ceiling that is
hit with calls just answered; two calls give an answer a first and a last one,
with a failing name in the last place; a history that holds a call, and a first
turn, give a transcript ids that repeat, and the route has the vendor that invents
ids before one that does not. A payload limit of 2 admits one answer or one tool
result too few. Two of the four catalogue providers share a name with different
tiers and capabilities, so a replacement changes what fits; three candidates for a
cap of two show the cut. In `byok_keys` neither vendor is of the free tier, as
none is unless the operator says so; the free tier is exercised in `chain_turn`.

Three callers on two workers leave one queued behind two hung ones. In `pages` a
cap of two requests with two candidates lets one dispatch fill the window, and
the other meet it at its own first or second candidate; an estimate of 2 that
turns out 3 brings a minute of 4 tokens to its limit before two requests are
counted, a day of 5 outlives a minute that has passed, and an estimate of 5 is
over the minute's budget with nothing granted. Each of these refusals, the 402
among them, occurs in the run. `MaxWindows` counts the windows of both
instances, three let one of them lose its counters once, by a restart or by the
clock, and one retry is enough for a request to be served beside or after its
successor. The pages differ in the ways the guards tell apart: one that declares
somebody else's tenant, one whose body does not parse, one without usable tokens.
Calls differ in nothing but their name, instances neither: `Alike` takes states
that are a renaming of each other as one, in `pages` only; no liveness is checked
there. `client_rejects` needs one call.

Deadlock checking is off where the system stops: a turn ends, the clock and the
grants are bounded, a run ends, every call is settled. `Gateway` never stops, an
application may always register again.

Fairness. `FairSpec` of `FallbackChain` is weak fairness of `Step`, everything but
`Cancel`: the vendor SDKs give up on a call after their own default timeout (the
premise of `md/byok/dispatch.py:3-6`), and a sleep is at most
`rate_limit_max_wait` or the backoff cap. Nobody has to cancel. `FairSpec` of
`AgentLoop` is weak fairness of everything but `Cancel` and `Expire`: a turn ends
because `Termination` holds of it, and that a tool returns is an assumption on the
application. `FairSpec` of `DispatchPool` is weak fairness of each caller only,
whose wait has a timeout; that vendor calls return is not assumed but written as
the premise of `EveryDispatchFinishes`. `Deployment` assumes no fairness and
states no liveness: the client's timer is cleared when the headers are in
(`timeout.ts:44`), so nothing makes a body that stalls end, and that every
dispatch settles is not true of the code. `FairSpec` of `BrowserAgent` is weak
fairness of what the call does without its user: the signal of a request carries a
timeout that covers the body too. The other specifications need no fairness.

## 4. Findings

Places where a run shows the code doing something a comment or docstring says
otherwise; `PROJECT.json` quotes the lines.

- `gateway_cap` (a defect): `to_request` rebuilds the request from messages,
  tenant and tools, so `max_tokens` never reaches a provider; `temperature`,
  `tier_hint` and `metadata` are lost the same way.
- `client_rejects` (a defect): `dispatch` decodes the answer outside its `try`
  (`client.ts:141`), and `readJson` guards only the parsing, so a body that breaks
  off, or is aborted, after its headers rejects a promise documented never to be
  rejected (`client.ts:8`, `client.ts:118`).
- `byok_either` (documentation and code disagree): a vendor is registered for the
  server's key or for a list of blank keys, but credentials are looked up in the
  tenant's metadata alone, so a caller that is not zero-setup ends with
  `AuthenticationError` at such a vendor although the next one has a usable key.

Noted while reading, without a run:

- Two budgets share the inner loop of `ModelInvocationHandler.handle`, so a turn may sleep up
  to `rate_limit_max_wait` after its last attempt and then give up
  (`handlers.py:454`); the retry hint is consulted for every retry, not only for a
  rate limit with nowhere to go (`handlers.py:485`); a rate limit without a hint
  takes the exponential backoff (`handlers.py:488`), where `docs/LLD.md:411-414`
  says `rate_limit_max_wait`; the class docstring at `handlers.py:284-289` does
  not know the key rotation on `AUTH` of lines 462-463.
- Fallback, error and cancellation do not give a reservation back
  (`handlers.py:125`), and a commit corrects the period it runs in, not the one
  charged (`quota/manager.py:138`): `DriftExplained` is the exact account.
- `QuotaStore` demands an `incr` that is atomic within a process for the in-memory
  store (`md/quota/store.py:36-38`); `InMemoryQuotaStore.incr` gets an entry and sets
  it later (`store.py:82-85`), and is called from the threads of a pool. The
  in-memory store of `QuotaThreads` is the one of the code, and `CountsWereCharged`
  says what its counters are still good for.
- The timeout interceptor "enforces a per-attempt deadline" so that a slow server
  "cannot hang the UI" (`timeout.ts:5-6`, `timeout.ts:21`), but its timer is cleared
  when the headers are in and the body is read after that (`client.ts:141`,
  `handoff.ts:43`): a server that stalls in the middle of one holds the dispatch.
- A visitor's key can go unused by routing: `build_registry` makes sure somebody
  has a key, the router may then keep none of the registered vendors, and the
  empty route is reported as `AllProvidersExhausted` (`chain.py:85-89`).
- The router looks at `request.tools`, the turns carry the specs of the registry
  passed to `dispatch` (`gateway.py:159`): a provider without the TOOLS capability
  may be offered tools.
- `GatewaySettings` has no way to set the `rate_limit_*` parameters; `dispatch`
  never passes a `deadline`, so `StopReason.DEADLINE` cannot occur through the
  gateway; `StopReason.ERROR` is returned by nothing, a failed turn raises;
  `TenantContext.max_tier` (`md/quota/tenant.py:56`) and `OnboardingResolver.stage`
  (`md/onboarding/flow.py:41`) are read by nobody.
- `isConfigReady` says it mirrors `candidatesOf` (`clients/browser-agent/src/config.ts:106-111`)
  but accepts a blank key that `candidatesOf` drops; `buildMessages` promises
  user-first ordering, which `forceTrailingFiller` does not keep for a history
  that begins with an assistant (`messages.ts:45`).

## 5. Proofs

Every safety invariant, every action property and every refinement that a passing
run checks is proved for all values of the constants; only liveness is left to
TLC (see the end of this section).

Assumptions on the constants, all evaluated by TLC: `RouteAssumption` (a route
never repeats a provider: the registry is keyed by name), `BudgetAssumption` (at
least one key and one attempt), `QuotaAssumption` (finitely many dispatches;
`MaxOverrun` bounds how far an actual exceeds its estimate), `ClockAssumption` (a
day has a minute; no reservation is the mark for none), `ThreadsAssumption`
(finitely many threads and at least one), `PoolAssumption` (a worker that runs
nothing is told from one that runs a dispatch), `LoopAssumption` (routes name
known vendors, histories are sequences of messages) and `DeploymentAssumption`
(finitely many pages and instances; the configurations and envelopes are of the
kinds the guards tell apart), `GatewayAssumption` (the catalogue's providers have
a tier of `CapabilityTier`, every complexity has a floor), `ConfigsAssumption`
(configurations are lists of a provider and its keys) and `ByokAssumption`: the
vendors of a build are listed once each and registered with their adapters' own
tiers, none of which is `FREE`, and nobody pastes one of the three marks by which
the model tells a missing, the server's and the organisation's key from a pasted
one; a cut is a natural number.

One theorem has a premise besides. `ResultsArrive` assumes `HistoriesPaired`: in
the conversation a caller begins with, every tool result already stands behind
the call it answers. Neither the perimeter nor the loop checks this of a caller,
and with a history that breaks it a result may reach no call, or another one,
from the first turn on; what the theorem says is that a run adds no such result,
at any vendor. The histories of
`loop_run` satisfy it, one of them with a call and its result in it.

`FallbackChainProofs`, for every registry, route, key pool and budget:
`TypeCorrect`, `OrderCorrect`, `BudgetCorrect`, `TerminalCorrect`,
`FailoverCorrect`, `CommitCorrect`, `ReservationsDisjoint`, `ExhaustionCorrect`
and `Refinement`. None of the properties about the trail is inductive: they speak
of the past only. `IInv` adds where the turn is now: `SuffixLeft` (the candidates
left are a suffix of the route), `TrailBehind` (no attempt lies ahead of the
current slot), `BudgetLeft` (the current key was called exactly as often as
`attempt` says), `LastAllowsMore` (a turn under way did not end with a success or
a terminal failure), `ReuseIsJustified` (why the current key may be called
again), `ScratchIsCurrent` (credentials and reservation belong to the current
candidate) and `PendingUntilDone`. There is one lemma per way the position can
change (stay, retry, next key, fall back) and one proof step per action.
Exhaustion needs `Covered` on top: every provider before the current one is
settled (all its keys called, or skipped for a reason), every key before the
current one called. `Refinement` maps a step to the step of `Failover` that moves
its slot, and to a stutter where only the executor's position moves.

The same module proves `VisitorsPayFirst`, `ExhaustionSpends` and
`StrandedOnlyThere` of `ByokSpec`, for every list of vendors and every mixture of
keys. A step of `ByokNext` is a step of `FallbackChain` for a turn that does not
change (`Served`: the turn is the one the visit comes to), so `IInv` and `Covered`
carry over and only keys have to be added. `KInv` says that an attempt was made
with a key its provider resolved to (`KeysResolved`), that a provider the turn
left had one (`LeftWithKeys`), and why a turn ended for want of a key
(`RefusalExplained`). From there the theorems are about data: which vendors
`build_registry` lists, that dropping blank entries keeps every usable key and
adds none, what a vendor resolves to in each case of the lookup, and what the
router keeps: filtering by tier and cutting off a list that climbs from tier to
tier leaves exactly the fitting vendors with fewer than `cut` cheaper ones
(`Climbs`, `RouteFacts`).

`QuotaManagerProofs`, for every quota, clock and set of dispatches:
`TypeCorrect`, `RequestsCorrect`, `OvershootCorrect`, `DriftCorrect` and
`Refinement`. `QInv` adds `PeriodsPast` (no counter belongs to a future period),
`RequestsCounted` (the counter is the number of grants) and `Headroom`, which
makes the overshoot inductive: a window is within its cap plus one overrun per
dispatch that holds no reservation, so a grant uses up an allowance and a commit
gives it back. The account of a counter is inductive once reservations are known
not to come from the future (`HeldPast`): when a period ends, every open
reservation straddles its end and leaves the sum `Pending`, and no later tick
brings it back. For `Refinement`, lemmas say what each operation does to what
`Read` answers: a reservation grants, a commit corrects, abandoning and
housekeeping change nothing, a tick zeroes exactly the windows whose period ends,
which for a day is that `(n + 1) \div d` and `n \div d` differ exactly when `d`
divides `n + 1` (`RolloverExactly`).

`QuotaThreadsProofs`, for every number of threads and every cap:
`CountsComeFromCharges`, `OvershootIsBounded` and `SequentialCallsAreExact`. For
the first, `CountsFit`: a counter plus what is still on its way to it never
exceeds what the window was charged with refunds left aside, and neither does any
value a thread read and has not yet written back (`WindowFits`, `Outstanding`,
`Raised`); a refund that is lost therefore leaves at most itself behind. For the
second, a window has room for all the threads that may still charge it at once:
`Exposed(w)` are the threads that have passed, or will pass, the test of the
window on what they saw, and `RoomForAll` says that the counter with all their
charges stays within the bound; a thread that comes to be exposed saw a counter
below its cap, one that charges leaves the set. For the third, `Exact`: while
nothing overlapped at most one thread is inside a call, what it saw is what the
store holds, and every window is behind its account by exactly what that thread
has still to add there (`ExactAt`, `AtRest`, `Balanced`).

`AgentLoopProofs`, for every route, registry, history and ceiling:
`TranscriptWellFormed`, `StepsCorrect`, `StopReasonCorrect` and `ResultsArrive`. A
transcript grows at its end only, so what makes it well formed is what its last
answer still waits for: `Waiting` (while tools run exactly one answer, the latest,
lacks results, `next` says how many; otherwise none does, unless cancelled),
`Paired` and `Answering` (results behind an answer are its own, in order).
`Marked` ties the steps to the answers, `Continues` the phase to the last message,
`Summed` the usage to the steps. For `ResultsArrive` a transcript is `WellPaired`
when every result stands in the unbroken row of results behind an answer that
asked for it, at the place of its call, and that answer uses no id twice; `Tidy`
says of the messages a run adds what that needs (no two calls of an answer share
an id, whether minted or counted). Dropping the system messages, as two adapters
do, leaves a transcript well paired because nothing inside such a row is dropped
(`SpokenPaired`), and Gemini's lookup by id finds the right name although ids
repeat, because the last call under an id is the one of the latest answer
(`NameFound`). What remains is that each adapter's list translates the transcript
(`Translates`), message by message.

`DispatchProofs` has two parts. Of the pool, for every number of callers, workers
and provider calls: `RunsOnce` and `TimeoutCorrect`. That a dispatch is in one
place is not inductive as it stands, it speaks of one dispatch at a time: `PInv`
relates the three structures, `Queued` (the queue is injective and holds exactly
the queued ones), `Run` (no two workers run one dispatch, and exactly the running
ones are run) and `Unsubmitted`. A finished dispatch therefore is nowhere and
keeps its end, which is what `TimeoutExplained` needs. Of routing, for every
catalogue, policy and sequence of registrations: `PlacesStay` and
`RoutesCheapestFirst`. `Sorted(L, W)` says that the list L holds the providers at
the places W of the registry, one of each, tier by tier and in the order of
registration within a tier. One tier of the registry is sorted, joining tiers in
ascending order, filtering by capability and cutting off keep a list sorted, and
in a sorted list the k-th entry has exactly k - 1 fitting providers before it,
which is how `RouteIsCheapestFirst` says what the route must be without
constructing it.

`DeploymentProofs`, for every number of pages, retries, instances and tenants:
`OneAtATime`, `ChargesVouched`, `GrantsBounded` and `HandoffsCorrect`. Client and
server are tied together by `SeenWasSent` (the server knows only what was sent),
`ClientWaits` (every request before the one a call waits for was answered with a
fault worth retrying) and `Vouched` (what runs, or was charged, passed the guards
for its tenant). `Books` adds the money: what a tenant was granted is at least
what any one store counts and at most what the stores have room for, the cap in
every window but the last and the count in that one (`Booked`). A grant moves both
sides by one; a window that ends, by a restart or by the clock, forgets the count
and gains the cap. Tokens have an account of their own, `TokensBooked`: no store
shows more than the tenant was ever charged, since a window that ends only lowers
a counter and a commit moves counter and account together, or the counter alone
downwards. So at a refusal the account vouches for the window that was found
full, and since accounts only grow it goes on to do so until the page reads the
answer (`Refusals`), which is the answer to the request it sent last
(`ReadsItsAnswer`).

`BrowserAgentProofs`, for every configuration: `NoneTooLate` and
`HonestAboutExhaustion`. `Silent` is the invariant of the first: until a body is
read nobody has been heard, and while it is read nobody but the candidate at hand;
a body that breaks fails over only when that candidate was silent too. `HInv`
adds, for the second, that the candidates are those of the configuration
(`Listed`), that each one left behind was asked or could not be (`PassedOver`),
and what the verdict of exhaustion claims (`Exhausted`); that the candidates hold
every usable key of the configuration is a fact about filtered and joined lists.

`DataLemmas` has what these proofs need to know about data. `SumFunctionOnSet` and
`FlattenSeq` of the community modules are folds, recursive functions about which
no library states a fact, and `Only` numbers the places it keeps by counting.
Induction theorems cannot be instantiated here, so a lemma takes a smallest
counterexample instead: strict inclusion is well-founded on finite sets, so a
non-empty family of finite sets has a member none of the others lies in
(`SmallestSet`), and a non-empty set of numbers has a least one
(`SmallestNumber`). The lemmas say when a sum exists, what removing, adding or
changing one element does to it, and that sums are monotone and linear
(`SumAdd`, `SumUpdate`, `SumMonotone`, `SumTimes`); that a filtered list takes its
entries from the places to be kept, front to back, and from each of them
(`OnlyPlaces`), so that places in a row stay in a row when nothing between them
is dropped (`Consecutive`); and that joined lists are a list that ends as its last
non-empty part (`FlattenType`, `FlattenEnds`).

Writing the proofs changed the model in two places. `SelectSeq`, of which the
prover has no definition, gave way to `Only`. And two definitions that were CASE
expressions with overlapping guards, `Byok.ResolveCandidates` and
`Adapters.ToGeminiContent`, were underdetermined where TLC happened to take the
first arm; they are IF chains in the order of the code now.

Model-checked only: liveness (`Termination`, `RunEnds`, `EveryCallerIsAnswered`,
`EveryDispatchFinishes`, `CallSettles`), which is out of the
prover's reach. The three properties that runs expect to be violated are not
theorems, of course.

## 6. Not modelled

- Redaction, observability, the tokenizer's estimate, triage's scorer and the
  parsing of retry hints compute a text or a number from data and keep no state;
  a model uses any value they may return (`Estimates`, the verdict of triage, a
  hint within or beyond the longest wait).
- The async bridge is called by nothing.
- `RateLimitHandler` and `RetryHandler` are links no chain of the repository
  builds.
- Registering and replacing tools: a run is given a finished registry.
- Vendor formats, schemas, token counts and sampling parameters of the adapters;
  texts of the onboarding payloads.
- `buildMessages`, the stored configuration and the external chat links of the
  browser agent rewrite texts.
- The React UI, the template's front end, the demo's page and the examples are
  presentation, or scripts; the wizard they show is `GatewayClient`'s.
- In `VercelApi`: the 405 of other methods, and parsing.

A vendor is external and may end a call in any way; so is the platform that runs
the instances.

## 7. Plan

1. A composed specification whose turns are `FallbackChain`'s own, and the theorem,
   from `Refinement`, that what is proved of `AgentLoop` over `Failover` holds of it.
2. The optional retry and rate-limit links; registration of tools.
3. `buildMessages` and the configuration of the browser agent, as operators
   checked against reference definitions.
