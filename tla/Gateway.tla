-------------------------------- MODULE Gateway --------------------------------
(* What happens to a dispatch before its first turn: ModelGateway._prepare over *)
(* the provider registry, the perimeter, triage and the cost-aware router.  The *)
(* application may register providers at any time; a dispatch keeps the list it *)
(* was routed.  Dispatches leave nothing behind here, so one is enough.         *)
EXTENDS Integers, Sequences, FiniteSets, Lists

CONSTANTS
    Catalog,           (* the providers an application may register             *)
    ComplexityFloor,   (* policy.complexity_floor: complexity -> tier           *)
    MaxCandidates      (* policy.max_candidates                                 *)

Tiers == 0..3   (* FREE, CHEAP, STANDARD, PREMIUM *)

Complexities == {"trivial", "simple", "moderate", "complex"}

NoHint == -1

(* A provider is its name, its tier and whether its capabilities hold TOOLS.    *)
ASSUME GatewayAssumption ==
    /\ \A p \in Catalog : p.tier \in Tiers /\ p.tools \in BOOLEAN
    /\ ComplexityFloor \in [Complexities -> Tiers]
    /\ MaxCandidates \in Nat

VARIABLES
    escalates,    (* policy.allow_escalation                                    *)
    registry,     (* the providers registered, in insertion order               *)
    request,      (* the request of the last dispatch, with its triage verdict  *)
    candidates,   (* the list it was routed                                     *)
    advertised,   (* state.tools: "none" or the specs every turn carries        *)
    outcome       (* "none", "routed" or "PerimeterViolation"                   *)

gatewayVars == <<escalates, registry, request, candidates, advertised, outcome>>

(* A request declares tools or not and caps its output or not, dispatch is      *)
(* passed a tool registry or not; an inadmissible request has no tenant, no     *)
(* messages or too large a payload.                                             *)
Request == [declares : BOOLEAN, registered : {"no_registry", "empty", "tools"},
            hint : Tiers \union {NoHint}, complexity : Complexities,
            capped : BOOLEAN, admissible : BOOLEAN]

-------------------------------------------------------------------------------
(* The registry *)

Names(list) == {list[i].name : i \in 1..Len(list)}

(* Mutant: a replaced provider moves to the end of the dict. *)
RegisteredAtEnd(p) == Append(SelectSeq(registry, LAMBDA q : q.name # p.name), p)

(* A dict keeps the place of a key it already holds. *)
Registered(p) ==
    IF p.name \in Names(registry)
    THEN [i \in 1..Len(registry) |-> IF registry[i].name = p.name THEN p ELSE registry[i]]
    ELSE Append(registry, p)

ByTier(tier) == Only(registry, {p \in Catalog : p.tier = tier})

(* Mutant: the tiers are not sorted. *)
AtOrAboveUnsorted(floor) == SelectSeq(registry, LAMBDA p : p.tier >= floor)

(* sorted() by tier is stable: tier by tier, in insertion order. *)
AtOrAbove(floor) ==
    LET Kept(tier) == IF tier >= floor THEN ByTier(tier) ELSE <<>>
    IN  Kept(0) \o Kept(1) \o Kept(2) \o Kept(3)

-------------------------------------------------------------------------------
(* The router *)

(* A hint raises the floor, never lowers it. *)
Floor(r) ==
    IF r.hint # NoHint /\ r.hint > ComplexityFloor[r.complexity]
    THEN r.hint ELSE ComplexityFloor[r.complexity]

Capable(r, p) == r.declares => p.tools

Route(r) ==
    LET floor == Floor(r)
        fits  == Only(AtOrAbove(floor), {p \in Catalog : Capable(r, p)})
        kept  == IF escalates THEN fits
                 ELSE Only(fits, {p \in Catalog : p.tier = floor})
    IN  SubSeq(kept, 1, IF Len(kept) < MaxCandidates THEN Len(kept) ELSE MaxCandidates)

-------------------------------------------------------------------------------
GatewayInit ==
    /\ escalates \in BOOLEAN
    /\ registry = <<>>
    /\ request = [declares |-> FALSE, registered |-> "no_registry", hint |-> NoHint,
                  complexity |-> "trivial", capped |-> FALSE, admissible |-> TRUE]
    /\ candidates = <<>>
    /\ advertised = FALSE
    /\ outcome = "none"

Register ==
    /\ \E p \in Catalog : registry' = Registered(p)
    /\ UNCHANGED <<escalates, request, candidates, advertised, outcome>>

(* ConversationState.to_request, from which every turn is served: messages,     *)
(* tenant and tools; every other field has its default.                         *)
ToRequest == [tools |-> advertised, hint |-> NoHint, capped |-> FALSE]

(* What the model is offered: the registry's specs, or what the request says    *)
(* when no registry was passed.                                                 *)
EffectiveTools(r) ==
    IF r.registered = "no_registry" THEN r.declares ELSE r.registered = "tools"

Prepare(r) ==
    /\ request' = r
    /\ IF r.admissible
       THEN /\ candidates' = Route(r)
            /\ advertised' = EffectiveTools(r)
            /\ outcome' = "routed"
       ELSE /\ candidates' = <<>>
            /\ advertised' = FALSE
            /\ outcome' = "PerimeterViolation"
    /\ UNCHANGED <<escalates, registry>>

Dispatch ==
    /\ outcome = "none"
    /\ \E r \in Request : Prepare(r)

GatewayNext == Register \/ Dispatch

GatewaySpec == GatewayInit /\ [][GatewayNext]_gatewayVars

-------------------------------------------------------------------------------
(* Properties *)

(* Replacing a provider disturbs nobody's place: the order in which providers   *)
(* of one tier are tried is that of their first registration.                   *)
PlacesKept ==
    [][\A i \in 1..Len(registry) :
         i <= Len(registry') /\ registry'[i].name = registry[i].name]_gatewayVars

Wanted(r) ==
    {i \in 1..Len(registry) :
        /\ registry[i].tier >= ComplexityFloor[r.complexity]
        /\ registry[i].tier >= r.hint
        /\ r.declares => registry[i].tools
        /\ escalates \/ registry[i].tier = ComplexityFloor[r.complexity]
                           \/ registry[i].tier = r.hint}

Before(i, j) ==
    \/ registry[i].tier < registry[j].tier
    \/ registry[i].tier = registry[j].tier /\ i < j

(* A routed dispatch gets the providers that fit, all of them up to the cap,    *)
(* the k-th being the one with k - 1 before it by tier and then registration:   *)
(* cheapest first, never below the floor or the caller's hint, and with         *)
(* escalation off nothing above the higher of the two.                          *)
RouteIsCheapestFirst ==
    [][outcome' = "routed" /\ registry' = registry =>
         LET wanted == Wanted(request')
             count  == Cardinality(wanted)
         IN  /\ Len(candidates') = IF count < MaxCandidates THEN count ELSE MaxCandidates
             /\ \A k \in 1..Len(candidates') : \E i \in wanted :
                  /\ candidates'[k] = registry[i]
                  /\ Cardinality({j \in wanted : Before(j, i)}) = k - 1]_gatewayVars

-------------------------------------------------------------------------------
(* What the documentation says and the code does not do *)

(* CompletionRequest.max_tokens is an "Upper bound on generated tokens, if the  *)
(* caller caps output".                                                         *)
OutputCapIsKept == outcome = "routed" /\ request.capped => ToRequest.capped

===============================================================================
