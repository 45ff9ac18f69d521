--------------------------------- MODULE Byok ---------------------------------
(* A server that pools its own vendor keys with the keys a visitor pastes:      *)
(* build_registry decides who is registered for the request, ModelRouter which  *)
(* of them it may go to, the metadata of credential_metadata carries the        *)
(* visitor's keys to CredentialResolver, and one turn of FallbackChain spends   *)
(* them.  Here a credential is the very key that reaches the vendor, and a      *)
(* failure is classified by that vendor's adapter.                              *)
EXTENDS FallbackChain, Adapters, FiniteSets, Lists

CONSTANTS
    Specs,     (* the operator's provider specs: vendors, in their dict's order *)
    Pasted,    (* the key lists a visitor may send for a vendor                 *)
    Cuts       (* what policy.max_candidates may be                             *)

Blank == "blank"

OrganisationKey == "organisation_key"

(* What is no visitor's key. *)
Marks == {NoKey, ServerKey, OrganisationKey}

(* build_registry leaves every adapter the tier it takes by itself, and none of *)
(* them is FREE.                                                                *)
ASSUME ByokAssumption ==
    /\ Specs \in Seq(Vendors) /\ IsInjective(Specs)
    /\ Providers = ToSet(Specs)
    /\ FreeTier = {p \in Providers : DefaultTier[p] = 0}
    /\ Pasted \subseteq Seq(STRING)
    /\ \A list \in Pasted : ToSet(list) \cap Marks = {}
    /\ Cuts \subseteq Nat

VARIABLE visit   (* what the operator, the visitor and the tenant bring         *)

byokVars == <<visit, vars>>

Tiers == 0..3   (* FREE, CHEAP, STANDARD, PREMIUM *)

(* server: the vendors whose env var holds a key; credentials: what the visitor *)
(* sent; organisation: the vendors with a tenant_key in the metadata; floor:    *)
(* the tier the request's complexity, or its hint, asks for; escalates and cut: *)
(* the operator's policy.                                                       *)
Visit == [server : SUBSET Providers, credentials : [Providers -> Pasted],
          organisation : SUBSET Providers, zeroSetup : BOOLEAN,
          floor : Tiers, escalates : BOOLEAN, cut : Cuts]

-------------------------------------------------------------------------------
(* Who is registered, and whom the router tries in which order *)

(* Mutant: a vendor nobody has a key for is registered all the same. *)
RegisteredAnyway(v) == Specs

Registered(v) ==
    Only(Specs, {p \in Providers : p \in v.server \/ v.credentials[p] # <<>>})

(* Every vendor has a tier of its own, FREE is none of them. *)
AtOrAbove(list, floor) ==
    LET Kept(tier) == IF tier >= floor
                      THEN Only(list, {p \in Providers : DefaultTier[p] = tier})
                      ELSE <<>>
    IN  Kept(1) \o Kept(2) \o Kept(3)

(* The vendors' adapters all have TOOLS, so that filter drops none of them. *)
Route(v) ==
    LET fits == AtOrAbove(Registered(v), v.floor)
        kept == IF v.escalates THEN fits
                ELSE Only(fits, {p \in Providers : DefaultTier[p] = v.floor})
    IN  SubSeq(kept, 1, IF Len(kept) < v.cut THEN Len(kept) ELSE v.cut)

-------------------------------------------------------------------------------
(* Which keys a vendor may be called with *)

(* Mutant: only the first usable key is taken. *)
SplitFirst(list) ==
    LET usable == Only(list, ToSet(list) \ {Blank})
    IN  SubSeq(usable, 1, IF usable = <<>> THEN 0 ELSE 1)

(* credential_metadata joins with commas and _split_keys parts them again, the  *)
(* blank ones dropped: what comes out is what went in, less the blanks.         *)
SplitKeys(list) == Only(list, ToSet(list) \ {Blank})

(* Mutant: the organisation's key wins. *)
ResolveTenantFirst(v, p) ==
    LET users == SplitKeys(v.credentials[p])
    IN  IF p \in v.organisation THEN <<OrganisationKey>>
        ELSE IF users # <<>> THEN users
        ELSE IF p \in FreeTier \/ v.zeroSetup THEN <<NoKey>> ELSE <<>>

(* User keys, else tenant keys, else the keyless call the adapter's own key     *)
(* serves: on a free vendor, or for a zero-setup tenant.  Else it raises.       *)
ResolveCandidates(v, p) ==
    LET users == SplitKeys(v.credentials[p])
    IN  IF users # <<>> THEN users
        ELSE IF p \in v.organisation THEN <<OrganisationKey>>
        ELSE IF p \in FreeTier \/ v.zeroSetup THEN <<NoKey>> ELSE <<>>

OwnKeys(v, p) ==
    IF ResolveCandidates(v, p) = <<NoKey>> THEN 0 ELSE Len(ResolveCandidates(v, p))

(* The key the adapter sends. *)
Sent(v, p, k) ==
    KeySent(ResolveCandidates(v, p)[k], IF p \in v.server THEN ServerKey ELSE NoKey)

-------------------------------------------------------------------------------
(* The turn that comes of it *)

TurnOf(v) == [route |-> Route(v),
              ownKeys |-> [p \in Providers |-> OwnKeys(v, p)],
              zeroSetup |-> v.zeroSetup, admissible |-> TRUE]

ByokInit ==
    /\ visit \in Visit
    /\ turn = TurnOf(visit)
    /\ Init

(* How a call with this key may end: without any key the client cannot even be  *)
(* built, and that is no status error.                                          *)
Outcomes(p, sent) ==
    IF sent = NoKey THEN {ClassifyError(p, [status |-> 0, code |-> "plain"])}
    ELSE {None} \union {ClassifyError(p, f) : f \in Failure}

ByokNext ==
    /\ Next
    /\ Len(attempts') > Len(attempts) =>
         Last(attempts').error \in Outcomes(Current, Sent(visit, Current, key))
    /\ UNCHANGED visit

ByokSpec == ByokInit /\ [][ByokNext]_byokVars

(* What the caller of dispatch is told: an empty registry is refused before.    *)
Told == IF Registered(visit) = <<>> THEN "NoProviderAvailableError" ELSE result

-------------------------------------------------------------------------------
(* Properties *)

SpentAt(i) == Sent(visit, attempts[i].provider, attempts[i].key)

(* Whose keys pay: the visitor's usable keys for a vendor, when there are any,  *)
(* and nobody else's; the server's shared key only serves callers without a key *)
(* for that vendor.                                                             *)
VisitorsKeysPayFirst ==
    \A i \in 1..Len(attempts) :
      LET pasted == ToSet(visit.credentials[attempts[i].provider]) \ {Blank}
      IN  IF pasted # {} THEN SpentAt(i) \in pasted
          ELSE SpentAt(i) = ServerKey => attempts[i].provider \notin visit.organisation

(* The registered vendors the request may go to: dear enough, and of the very   *)
(* tier it asks for where the policy does not escalate.                         *)
Fitting ==
    {p \in Providers :
       /\ p \in visit.server \/ visit.credentials[p] # <<>>
       /\ DefaultTier[p] >= visit.floor
       /\ visit.escalates \/ DefaultTier[p] = visit.floor}

Cheaper(p) == {q \in Fitting : DefaultTier[q] < DefaultTier[p]}

(* No usable key that fits goes to waste: a dispatch that reports exhaustion    *)
(* has called every vendor it may go to, those the policy's cut keeps, with     *)
(* every usable key of the visitor, or with the shared key.  A key for a vendor *)
(* below the floor stays unused, and if it is the only one nobody is called.    *)
ExhaustionSpentEveryKey ==
    Told = "AllProvidersExhausted" =>
      \A p \in Fitting : Cardinality(Cheaper(p)) < visit.cut =>
        LET pasted == ToSet(visit.credentials[p]) \ {Blank}
            spent  == {SpentAt(i) : i \in {j \in 1..Len(attempts) :
                                             attempts[j].provider = p}}
        IN  /\ pasted \subseteq spent
            /\ p \in visit.server => spent # {}

(* A dispatch is stranded when its credential lookup raises although vendors    *)
(* are registered.  Only callers that are not zero-setup are, at a vendor they  *)
(* have no usable key for, which the server's key or a blank entry registered;  *)
(* every other AuthenticationError is a vendor's refusal.                       *)
StrandedExplained ==
    Told = "AuthenticationError" =>
      \/ /\ attempts # <<>>
         /\ Last(attempts).provider = Current /\ Last(attempts).error = "auth"
      \/ /\ ~visit.zeroSetup
         /\ Current \notin visit.organisation
         /\ ToSet(visit.credentials[Current]) \subseteq {Blank}
         /\ Current \in visit.server \/ visit.credentials[Current] # <<>>

-------------------------------------------------------------------------------
(* What the documentation says and the code does not do *)

(* "Either is sufficient on its own" of the server's and the visitor's keys     *)
(* (byok/registry.py): where somebody has a usable key, a dispatch does not end *)
(* for want of one.                                                             *)
EitherKeyIsSufficient ==
    /\ Told = "AuthenticationError"
    /\ \E p \in Providers : \/ p \in visit.server
                            \/ ToSet(visit.credentials[p]) \ {Blank} # {}
    => attempts # <<>> /\ Last(attempts).error = "auth"

===============================================================================
