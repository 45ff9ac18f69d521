----------------------------- MODULE DispatchProofs -----------------------------
(* Proofs about what surrounds the turns of a dispatch: the pool that runs it   *)
(* (DispatchPool), for every number of callers, workers and calls, and the      *)
(* routing it begins with (Gateway), for every catalogue, policy and history of *)
(* registrations.                                                               *)
EXTENDS DispatchPool, Gateway, SequenceTheorems, DataLemmas

--------------------------------------------------------------------------------
(* The pool *)

Stages == {"unsubmitted", "queued", "running"} \union Ends

Told == {"RunResult", "ModelDispatcherError", "DispatchTimeoutError"}

TypeOK ==
    /\ queue \in Seq(Callers)
    /\ running \in [Workers -> Callers \union {Nobody}]
    /\ future \in [Callers -> Stages]
    /\ charges \in [Callers -> Nat]
    /\ caller \in [Callers -> {"arriving", "waiting", "RuntimeError"} \union Told]

(* The queue holds the queued dispatches, each once. *)
Queued ==
    /\ \A i, j \in 1..Len(queue) : queue[i] = queue[j] => i = j
    /\ \A c \in Callers : future[c] = "queued" <=> \E i \in 1..Len(queue) : queue[i] = c

(* The workers run the running dispatches, each on one of them. *)
Run ==
    /\ \A w, v \in Workers : running[w] = running[v] /\ running[w] # Nobody => w = v
    /\ \A c \in Callers : future[c] = "running" <=> \E w \in Workers : running[w] = c

(* Before it is submitted a dispatch costs nothing. *)
Unsubmitted ==
    \A c \in Callers :
      /\ caller[c] = "arriving" => future[c] = "unsubmitted"
      /\ future[c] = "unsubmitted" => charges[c] = 0

PInv == TypeOK /\ Queued /\ Run /\ Unsubmitted /\ TimeoutExplained

LEMMA PInit == Init => PInv
<1> SUFFICES ASSUME Init PROVE PInv
  OBVIOUS
<1>1. TypeOK /\ Queued /\ Unsubmitted /\ TimeoutExplained
  BY DEF Init, TypeOK, Stages, Queued, Unsubmitted, TimeoutExplained
<1>2. Run
  BY PoolAssumption DEF Init, Run
<1> QED BY <1>1, <1>2 DEF PInv

LEMMA SubmitKeeps ==
    ASSUME PInv, NEW c \in Callers, Submit(c)
    PROVE  PInv'
<1> USE DEF PInv, Submit
<1>1. future[c] = "unsubmitted"
  BY DEF Unsubmitted
<1>2. TypeOK'
  BY DEF TypeOK, Stages
<1>3. /\ Len(queue') = Len(queue) + 1
      /\ \A i \in 1..Len(queue) : queue'[i] = queue[i]
      /\ queue'[Len(queue) + 1] = c
      /\ Len(queue) \in Nat
  BY DEF TypeOK
<1>4. \A i \in 1..Len(queue) : queue[i] # c
  BY <1>1 DEF Queued
<1>5. Queued'
  <2>1. ASSUME NEW i \in 1..Len(queue'), NEW j \in 1..Len(queue'), queue'[i] = queue'[j]
        PROVE  i = j
    BY <1>3, <1>4, <2>1 DEF Queued
  <2>2. ASSUME NEW d \in Callers
        PROVE  future'[d] = "queued" <=> \E i \in 1..Len(queue') : queue'[i] = d
    <3>1. CASE d = c
      BY <1>3, <3>1 DEF TypeOK
    <3>2. CASE d # c
      <4>1. future'[d] = future[d]
        BY <3>2 DEF TypeOK
      <4>2. (\E i \in 1..Len(queue') : queue'[i] = d)
              <=> \E i \in 1..Len(queue) : queue[i] = d
        BY <1>3, <3>2
      <4> QED BY <4>1, <4>2 DEF Queued
    <3> QED BY <3>1, <3>2
  <2> QED BY <2>1, <2>2 DEF Queued
<1>6. Run'
  BY <1>1 DEF Run, TypeOK
<1>7. Unsubmitted' /\ TimeoutExplained'
  BY <1>1 DEF Unsubmitted, TimeoutExplained, TypeOK
<1> QED BY <1>2, <1>5, <1>6, <1>7

LEMMA TakeKeeps ==
    ASSUME PInv, NEW w \in Workers, Take(w)
    PROVE  PInv'
<1> USE DEF PInv, Take
<1> DEFINE c == Head(queue)
<1>1. /\ c \in Callers /\ c = queue[1]
      /\ queue' \in Seq(Callers)
      /\ Len(queue') = Len(queue) - 1
      /\ Len(queue) \in Nat \ {0}
      /\ \A i \in 1..Len(queue') : queue'[i] = queue[i + 1]
  BY HeadTailProperties, EmptySeq DEF TypeOK
<1>2. future[c] = "queued" /\ c # Nobody
  BY <1>1, PoolAssumption DEF Queued
<1>3. \A v \in Workers : running[v] # c
  BY <1>1, <1>2 DEF Run
<1>4. TypeOK'
  BY <1>1 DEF TypeOK, Stages
<1>5. Queued'
  <2>1. ASSUME NEW i \in 1..Len(queue'), NEW j \in 1..Len(queue'), queue'[i] = queue'[j]
        PROVE  i = j
    BY <1>1, <2>1 DEF Queued
  <2>2. ASSUME NEW d \in Callers
        PROVE  future'[d] = "queued" <=> \E i \in 1..Len(queue') : queue'[i] = d
    <3>1. CASE d = c
      <4>1. \A i \in 1..Len(queue') : queue'[i] # c
        BY <1>1 DEF Queued
      <4>2. future'[c] = "running"
        BY <1>1 DEF TypeOK
      <4> QED BY <3>1, <4>1, <4>2
    <3>2. CASE d # c
      <4>1. future'[d] = future[d]
        BY <3>2 DEF TypeOK
      <4>2. ASSUME NEW i \in 1..Len(queue), queue[i] = d
            PROVE  \E j \in 1..Len(queue') : queue'[j] = d
        <5>1. i # 1 /\ i - 1 \in 1..Len(queue')
          BY <1>1, <3>2, <4>2
        <5>2. queue'[i - 1] = d
          BY <1>1, <4>2, <5>1
        <5> QED BY <5>1, <5>2
      <4>3. ASSUME NEW j \in 1..Len(queue'), queue'[j] = d
            PROVE  \E i \in 1..Len(queue) : queue[i] = d
        BY <1>1, <4>3
      <4> QED BY <4>1, <4>2, <4>3 DEF Queued
    <3> QED BY <3>1, <3>2
  <2> QED BY <2>1, <2>2 DEF Queued
<1>6. Run'
  <2>1. ASSUME NEW u \in Workers, NEW v \in Workers,
               running'[u] = running'[v], running'[u] # Nobody
        PROVE  u = v
    BY <1>3, <2>1 DEF Run, TypeOK
  <2>2. ASSUME NEW d \in Callers
        PROVE  future'[d] = "running" <=> \E v \in Workers : running'[v] = d
    <3>1. CASE d = c
      BY <1>1, <3>1 DEF TypeOK
    <3>2. CASE d # c
      <4>1. future'[d] = future[d]
        BY <3>2 DEF TypeOK
      <4>2. (\E v \in Workers : running'[v] = d) <=> \E v \in Workers : running[v] = d
        BY <3>2, PoolAssumption DEF TypeOK
      <4> QED BY <4>1, <4>2 DEF Run
    <3> QED BY <3>1, <3>2
  <2> QED BY <2>1, <2>2 DEF Run
<1>7. Unsubmitted' /\ TimeoutExplained'
  BY <1>1, <1>2 DEF Unsubmitted, TimeoutExplained, TypeOK
<1> QED BY <1>4, <1>5, <1>6, <1>7

LEMMA FinishesKeeps ==
    ASSUME PInv, NEW w \in Workers, Finishes(w)
    PROVE  PInv'
<1> USE DEF PInv
<1> DEFINE c == running[w]
<1>1. PICK end \in Ends : future' = [future EXCEPT ![c] = end]
  BY DEF Finishes
<1>2. /\ c # Nobody /\ running' = [running EXCEPT ![w] = Nobody]
      /\ UNCHANGED <<queue, inCall, charges, caller, expired, closed>>
  BY DEF Finishes
<1>3. c \in Callers /\ future[c] = "running"
  BY <1>2 DEF TypeOK, Run
<1>4. end \notin {"unsubmitted", "queued", "running"}
  BY DEF Ends
<1>5. /\ future'[c] = end
      /\ \A d \in Callers : d # c => future'[d] = future[d]
  BY <1>1, <1>3 DEF TypeOK
<1>6. TypeOK'
  BY <1>1, <1>2, <1>3 DEF TypeOK, Stages
<1>7. Queued'
  BY <1>2, <1>3, <1>4, <1>5 DEF Queued
<1>8. Run'
  <2>1. ASSUME NEW u \in Workers, NEW v \in Workers,
               running'[u] = running'[v], running'[u] # Nobody
        PROVE  u = v
    BY <1>2, <2>1 DEF Run, TypeOK
  <2>2. ASSUME NEW d \in Callers
        PROVE  future'[d] = "running" <=> \E v \in Workers : running'[v] = d
    <3>1. CASE d = c
      <4>1. \A v \in Workers : running'[v] # c
        BY <1>2 DEF Run, TypeOK
      <4> QED BY <1>4, <1>5, <3>1, <4>1
    <3>2. CASE d # c
      <4>1. (\E v \in Workers : running'[v] = d) <=> \E v \in Workers : running[v] = d
        BY <1>2, <3>2, PoolAssumption DEF TypeOK
      <4> QED BY <1>5, <3>2, <4>1 DEF Run
    <3> QED BY <3>1, <3>2
  <2> QED BY <2>1, <2>2 DEF Run
<1>9. Unsubmitted' /\ TimeoutExplained'
  BY <1>2, <1>3, <1>4, <1>5 DEF Unsubmitted, TimeoutExplained
<1> QED BY <1>6, <1>7, <1>8, <1>9

LEMMA AnswersKeeps ==
    ASSUME PInv, NEW c \in Callers, Answers(c)
    PROVE  PInv'
<1> USE DEF PInv, Answers, poolVars
<1>1. AnswerOf(c) \in Told
  BY DEF AnswerOf, Told
<1>2. AnswerOf(c) = "DispatchTimeoutError" => c \in expired \/ future[c] = "TimeoutError"
  <2>1. CASE c \in expired
    BY <2>1
  <2>2. CASE c \notin expired
    <3>1. future[c] \in {"result", "error", "TimeoutError"}
      BY <2>2 DEF Done, Ends
    <3> QED BY <3>1 DEF AnswerOf
  <2> QED BY <2>1, <2>2
<1>3. TypeOK' /\ Queued' /\ Run' /\ Unsubmitted'
  BY <1>1 DEF TypeOK, Queued, Run, Unsubmitted, Told
<1>4. TimeoutExplained'
  BY <1>2 DEF TimeoutExplained, TypeOK
<1> QED BY <1>3, <1>4

LEMMA PStep == PInv /\ [Next]_vars => PInv'
<1> SUFFICES ASSUME PInv, [Next]_vars PROVE PInv'
  OBVIOUS
<1> USE DEF PInv
<1>1. ASSUME NEW c \in Callers, SubmitRefused(c) PROVE PInv'
  BY <1>1 DEF SubmitRefused, poolVars, TypeOK, Queued, Run, Unsubmitted, TimeoutExplained
<1>2. ASSUME NEW c \in Callers, Expire(c) PROVE PInv'
  BY <1>2 DEF Expire, poolVars, TypeOK, Queued, Run, Unsubmitted, TimeoutExplained
<1>3. ASSUME NEW w \in Workers, CallsProvider(w) PROVE PInv'
  <2>1. running[w] \in Callers /\ future[running[w]] = "running"
    BY <1>3 DEF CallsProvider, TypeOK, Run
  <2>2. TypeOK' /\ Unsubmitted'
    BY <1>3, <2>1 DEF CallsProvider, TypeOK, Unsubmitted
  <2>3. Queued' /\ Run' /\ TimeoutExplained'
    BY <1>3 DEF CallsProvider, Queued, Run, TimeoutExplained
  <2> QED BY <2>2, <2>3
<1>4. ASSUME NEW w \in Workers, CallReturns(w) PROVE PInv'
  BY <1>4 DEF CallReturns, TypeOK, Queued, Run, Unsubmitted, TimeoutExplained
<1>5. CASE Shutdown
  BY <1>5 DEF Shutdown, poolVars, TypeOK, Queued, Run, Unsubmitted, TimeoutExplained
<1>6. CASE UNCHANGED vars
  BY <1>6 DEF vars, poolVars, TypeOK, Queued, Run, Unsubmitted, TimeoutExplained
<1> QED
  BY <1>1, <1>2, <1>3, <1>4, <1>5, <1>6, SubmitKeeps, TakeKeeps, FinishesKeeps,
     AnswersKeeps
  DEF Next, CallerStep, WorkerStep

LEMMA Invariance == Spec => []PInv
BY PInit, PStep, PTL DEF Spec

(* No dispatch is lost, run twice or started without being submitted, whoever   *)
(* gives up on it and whenever.                                                 *)
THEOREM RunsOnce == Spec => []EachRunsOnce
<1>1. PInv => EachRunsOnce
  <2> SUFFICES ASSUME PInv, NEW c \in Callers
               PROVE  LET places ==
                            {<<"queue", i>> : i \in {j \in DOMAIN queue : queue[j] = c}}
                              \union {<<"worker", w>> : w \in {v \in Workers : running[v] = c}}
                      IN  CASE future[c] = "unsubmitted" -> places = {} /\ charges[c] = 0
                            [] future[c] = "queued" ->
                                 \E i \in DOMAIN queue : places = {<<"queue", i>>}
                            [] future[c] = "running" ->
                                 \E w \in Workers : places = {<<"worker", w>>}
                            [] OTHER -> places = {}
    BY DEF EachRunsOnce
  <2> DEFINE Slots == {j \in DOMAIN queue : queue[j] = c}
             Hosts == {v \in Workers : running[v] = c}
             places == {<<"queue", i>> : i \in Slots} \union {<<"worker", w>> : w \in Hosts}
  <2>1. DOMAIN queue = 1..Len(queue) /\ c # Nobody
    BY PoolAssumption DEF PInv, TypeOK
  <2>2. future[c] # "queued" => Slots = {}
    BY <2>1 DEF PInv, Queued
  <2>3. future[c] # "running" => Hosts = {}
    BY DEF PInv, Run
  <2>4. future[c] = "queued" => \E i \in DOMAIN queue : Slots = {i}
    BY <2>1 DEF PInv, Queued
  <2>5. future[c] = "running" => \E w \in Workers : Hosts = {w}
    BY <2>1 DEF PInv, Run
  <2>6. CASE future[c] = "unsubmitted"
    BY <2>2, <2>3, <2>6 DEF PInv, Unsubmitted
  <2>7. CASE future[c] = "queued"
    <3>1. PICK i \in DOMAIN queue : Slots = {i}
      BY <2>4, <2>7
    <3>2. places = {<<"queue", i>>}
      BY <2>3, <2>7, <3>1
    <3> QED BY <2>7, <3>2
  <2>8. CASE future[c] = "running"
    <3>1. PICK w \in Workers : Hosts = {w}
      BY <2>5, <2>8
    <3>2. places = {<<"worker", w>>}
      BY <2>2, <2>8, <3>1
    <3> QED BY <2>8, <3>2
  <2>9. CASE future[c] \notin {"unsubmitted", "queued", "running"}
    <3>1. places = {}
      BY <2>2, <2>3, <2>9
    <3> QED BY <2>9, <3>1
  <2> QED BY <2>6, <2>7, <2>8, <2>9
<1> QED BY <1>1, Invariance, PTL

(* Nobody is told that a dispatch was late when it was neither late nor ended   *)
(* with a TimeoutError of its own.                                              *)
THEOREM TimeoutCorrect == Spec => []TimeoutExplained
BY Invariance, PTL DEF PInv

--------------------------------------------------------------------------------
(* The registry *)

(* The registry holds providers of the catalogue.                               *)
Registry == registry \in Seq(Catalog)

LEMMA RegistryInit == GatewayInit => Registry
BY DEF GatewayInit, Registry

LEMMA RegisterKeeps ==
    ASSUME Registry, Register
    PROVE  /\ Registry'
           /\ \A i \in 1..Len(registry) :
                i <= Len(registry') /\ registry'[i].name = registry[i].name
<1>1. PICK p \in Catalog : registry' = Registered(p)
  BY DEF Register
<1>2. registry \in Seq(Catalog) /\ Len(registry) \in Nat
  BY DEF Registry
<1>3. CASE p.name \in Names(registry)
  <2>1. registry' = [i \in 1..Len(registry) |->
                       IF registry[i].name = p.name THEN p ELSE registry[i]]
    BY <1>1, <1>3 DEF Registered
  <2>2. \A i \in 1..Len(registry) : registry'[i] \in Catalog
    BY <1>2, <2>1
  <2>3. registry' \in Seq(Catalog) /\ Len(registry') = Len(registry)
    BY <1>2, <2>1, <2>2
  <2>4. \A i \in 1..Len(registry) : registry'[i].name = registry[i].name
    BY <2>1
  <2> QED BY <1>2, <2>3, <2>4 DEF Registry
<1>4. CASE p.name \notin Names(registry)
  <2>1. registry' = Append(registry, p)
    BY <1>1, <1>4 DEF Registered
  <2> QED BY <1>2, <2>1 DEF Registry
<1> QED BY <1>3, <1>4

LEMMA RegistryStep ==
    Registry /\ [GatewayNext]_gatewayVars => Registry'
<1> SUFFICES ASSUME Registry, [GatewayNext]_gatewayVars
             PROVE  Registry'
  OBVIOUS
<1>1. CASE Register
  BY <1>1, RegisterKeeps
<1>2. CASE Dispatch
  BY <1>2 DEF Dispatch, Prepare, Registry
<1>3. CASE UNCHANGED gatewayVars
  BY <1>3 DEF gatewayVars, Registry
<1> QED BY <1>1, <1>2, <1>3 DEF GatewayNext

THEOREM PlacesStay == GatewaySpec => PlacesKept
<1>1. ASSUME Registry, [GatewayNext]_gatewayVars
      PROVE  [\A i \in 1..Len(registry) :
                i <= Len(registry') /\ registry'[i].name = registry[i].name]_gatewayVars
  <2>1. CASE Register
    BY <1>1, <2>1, RegisterKeeps
  <2>2. CASE Dispatch
    <3>1. registry' = registry /\ Len(registry) \in Nat
      BY <1>1, <2>2 DEF Dispatch, Prepare, Registry
    <3> QED BY <3>1
  <2> QED BY <1>1, <2>1, <2>2 DEF GatewayNext
<1> QED BY <1>1, RegistryInit, RegistryStep, PTL DEF GatewaySpec, PlacesKept

-------------------------------------------------------------------------------
(* Routing *)

(* The list L holds the providers at the places W of the registry, one of each, *)
(* cheapest first and among equals in the order of registration.                *)
Sorted(L, W) ==
    \E at : /\ Picks(at, L, registry, W)
            /\ \A k, l \in 1..Len(L) : k < l => Before(at[k], at[l])

LEMMA Tiered ==
    ASSUME Registry
    PROVE  \A i \in 1..Len(registry) :
             registry[i] \in Catalog /\ registry[i].tier \in Tiers
BY GatewayAssumption DEF Registry

(* Filtering keeps the order.                                                   *)
LEMMA SortedOnly ==
    ASSUME Registry, NEW S, NEW L \in Seq(Catalog), NEW M, M = Only(L, S),
           NEW W \in SUBSET (1..Len(registry)), Sorted(L, W),
           NEW V, V = {i \in W : registry[i] \in S}
    PROVE  M \in Seq(Catalog) /\ Sorted(M, V)
<1>1. PICK f : /\ Picks(f, L, registry, W)
               /\ \A k, l \in 1..Len(L) : k < l => Before(f[k], f[l])
  BY DEF Sorted
<1>2. PICK P : P = {k \in DOMAIN L : L[k] \in S}
  OBVIOUS
<1>3. M \in Seq(Catalog) /\ DOMAIN L = 1..Len(L)
  <2>1. M \in Seq(Catalog)
    BY <1>2, OnlyPlaces
  <2> QED BY <2>1
<1>4. PICK g : Picks(g, M, L, P) /\ Ascends(g, Len(M))
  BY <1>2, OnlyPlaces
<1>5. PICK at : at = [m \in 1..Len(M) |-> f[g[m]]]
  OBVIOUS
<1>6. ASSUME NEW m \in 1..Len(M)
      PROVE  /\ g[m] \in 1..Len(L) /\ at[m] \in V
             /\ M[m] = registry[at[m]]
  <2>1. g[m] \in P /\ M[m] = L[g[m]]
    BY <1>4 DEF Picks
  <2>2. g[m] \in 1..Len(L) /\ L[g[m]] \in S
    BY <1>2, <1>3, <2>1
  <2>3. f[g[m]] \in W /\ L[g[m]] = registry[f[g[m]]]
    BY <1>1, <2>2 DEF Picks
  <2> QED BY <1>5, <2>1, <2>2, <2>3
<1>7. ASSUME NEW i \in V
      PROVE  \E m \in 1..Len(M) : at[m] = i
  <2>1. PICK k \in 1..Len(L) : f[k] = i
    BY <1>1 DEF Picks
  <2>2. k \in P
    BY <1>1, <1>2, <1>3, <2>1 DEF Picks
  <2>3. PICK m \in 1..Len(M) : g[m] = k
    BY <1>4, <2>2 DEF Picks
  <2> QED BY <1>5, <2>1, <2>3
<1>8. ASSUME NEW k \in 1..Len(M), NEW l \in 1..Len(M), k < l
      PROVE  Before(at[k], at[l])
  <2>1. PICK x, y : x = g[k] /\ y = g[l]
    OBVIOUS
  <2>2. x \in 1..Len(L) /\ y \in 1..Len(L) /\ x < y
    BY <1>4, <1>6, <1>8, <2>1 DEF Ascends
  <2>3. at[k] = f[x] /\ at[l] = f[y]
    BY <1>5, <2>1
  <2> QED BY <1>1, <2>2, <2>3
<1>9. at \in [1..Len(M) -> V]
  BY <1>5, <1>6
<1>10. Picks(at, M, registry, V)
  BY <1>6, <1>7, <1>9 DEF Picks
<1> QED BY <1>3, <1>8, <1>10 DEF Sorted

(* One list continues another, and so do the places they take.                  *)
Extends(LM, L, M, VW, V, W) == LM = L \o M /\ VW = V \union W

(* So does joining, when everything in the one list is ahead of the other.      *)
LEMMA SortedJoin ==
    ASSUME NEW L \in Seq(Catalog), NEW M \in Seq(Catalog), NEW LM,
           NEW V, NEW W, NEW VW, Extends(LM, L, M, VW, V, W), Sorted(L, V), Sorted(M, W),
           \A i \in V, j \in W : Before(i, j)
    PROVE  LM \in Seq(Catalog) /\ Sorted(LM, VW)
<1>1. PICK f : /\ Picks(f, L, registry, V)
               /\ \A k, l \in 1..Len(L) : k < l => Before(f[k], f[l])
  BY DEF Sorted
<1>2. PICK g : /\ Picks(g, M, registry, W)
               /\ \A k, l \in 1..Len(M) : k < l => Before(g[k], g[l])
  BY DEF Sorted
<1>3. PICK a \in Nat, b \in Nat : a = Len(L) /\ b = Len(M)
  OBVIOUS
<1> VW = V \union W
  BY DEF Extends
<1>4. /\ LM \in Seq(Catalog) /\ Len(LM) = a + b
      /\ \A k \in 1..(a + b) : LM[k] = IF k <= a THEN L[k] ELSE M[k - a]
  BY <1>3 DEF Extends
<1>5. PICK at : at = [k \in 1..(a + b) |-> IF k <= a THEN f[k] ELSE g[k - a]]
  OBVIOUS
<1>6. ASSUME NEW k \in 1..(a + b)
      PROVE  /\ k <= a => k \in 1..a /\ at[k] = f[k] /\ at[k] \in V /\ LM[k] = registry[at[k]]
             /\ ~(k <= a) => /\ k - a \in 1..b /\ at[k] = g[k - a] /\ at[k] \in W
                             /\ LM[k] = registry[at[k]]
  <2>1. CASE k <= a
    <3>1. k \in 1..a
      BY <2>1
    <3>2. f[k] \in V /\ L[k] = registry[f[k]]
      BY <1>1, <1>3, <3>1 DEF Picks
    <3> QED BY <1>4, <1>5, <2>1, <3>1, <3>2
  <2>2. CASE ~(k <= a)
    <3>1. PICK m : m = k - a
      OBVIOUS
    <3>2. m \in 1..b
      BY <2>2, <3>1
    <3>3. g[m] \in W /\ M[m] = registry[g[m]]
      BY <1>2, <1>3, <3>2 DEF Picks
    <3> QED BY <1>4, <1>5, <2>2, <3>1, <3>2, <3>3
  <2> QED BY <2>1, <2>2
<1>7. at \in [1..(a + b) -> VW] /\ \A k \in 1..(a + b) : LM[k] = registry[at[k]]
  <2>1. \A k \in 1..(a + b) : at[k] \in VW /\ LM[k] = registry[at[k]]
    BY <1>6
  <2> QED BY <1>5, <2>1
<1>8. ASSUME NEW i \in VW
      PROVE  \E k \in 1..(a + b) : at[k] = i
  <2>1. CASE i \in V
    <3>1. PICK k \in 1..a : f[k] = i
      BY <1>1, <1>3, <2>1 DEF Picks
    <3>2. k \in 1..(a + b) /\ k <= a
      OBVIOUS
    <3> QED BY <1>6, <3>1, <3>2
  <2>2. CASE i \in W
    <3>1. PICK m \in 1..b : g[m] = i
      BY <1>2, <1>3, <2>2 DEF Picks
    <3>2. PICK k : k = a + m
      OBVIOUS
    <3>3. k \in 1..(a + b) /\ ~(k <= a) /\ k - a = m
      BY <3>2
    <3> QED BY <1>6, <3>1, <3>3
  <2> QED BY <2>1, <2>2
<1>9. ASSUME NEW k \in 1..(a + b), NEW l \in 1..(a + b), k < l
      PROVE  Before(at[k], at[l])
  <2>1. CASE l <= a
    <3>1. k <= a
      BY <1>9, <2>1
    <3>2. /\ k \in 1..a /\ at[k] = f[k]
          /\ l \in 1..a /\ at[l] = f[l]
      BY <1>6, <2>1, <3>1
    <3> QED BY <1>1, <1>3, <1>9, <3>2
  <2>2. CASE k <= a /\ ~(l <= a)
    BY <1>6, <2>2
  <2>3. CASE ~(k <= a)
    <3>1. PICK x, y : x = k - a /\ y = l - a
      OBVIOUS
    <3>2. ~(l <= a) /\ x < y
      BY <1>9, <2>3, <3>1
    <3>3. x \in 1..b /\ at[k] = g[x] /\ y \in 1..b /\ at[l] = g[y]
      BY <1>6, <2>3, <3>1, <3>2
    <3> QED BY <1>2, <1>3, <3>2, <3>3
  <2> QED BY <2>1, <2>2, <2>3
<1>10. Picks(at, LM, registry, VW)
  BY <1>4, <1>7, <1>8 DEF Picks
<1> QED BY <1>4, <1>9, <1>10 DEF Sorted

(* One tier of the registry, in the order of registration.                      *)
LEMMA SortedTier ==
    ASSUME Registry, NEW t \in Tiers,
           NEW L, L = ByTier(t),
           NEW W, W = {i \in 1..Len(registry) : registry[i].tier = t}
    PROVE  L \in Seq(Catalog) /\ Sorted(L, W)
<1>1. PICK S : S = {p \in Catalog : p.tier = t}
  OBVIOUS
<1>2. L = Only(registry, S) /\ registry \in Seq(Catalog)
  <2>1. registry \in Seq(Catalog) /\ ByTier(t) = Only(registry, S)
    BY <1>1 DEF ByTier, Registry
  <2> QED BY <2>1
<1>3. W = {i \in DOMAIN registry : registry[i] \in S}
  BY <1>1, <1>2
<1>4. L \in Seq(Catalog)
  BY <1>2, <1>3, OnlyPlaces
<1>5. PICK at : Picks(at, L, registry, W) /\ Ascends(at, Len(L))
  BY <1>2, <1>3, OnlyPlaces
<1>6. ASSUME NEW k \in 1..Len(L), NEW l \in 1..Len(L), k < l
      PROVE  Before(at[k], at[l])
  <2>1. at[k] \in W /\ at[l] \in W
    BY <1>5 DEF Picks
  <2>2. at[k] < at[l]
    BY <1>5, <1>6 DEF Ascends
  <2>3. registry[at[k]].tier = registry[at[l]].tier
    BY <2>1
  <2> QED BY <2>2, <2>3 DEF Before
<1> QED BY <1>4, <1>5, <1>6 DEF Sorted

(* A sorted list is as long as there are places, and its k-th entry has k - 1   *)
(* places before it.                                                            *)
LEMMA SortedCounts ==
    ASSUME Registry, NEW L \in Seq(Catalog),
           NEW W \in SUBSET (1..Len(registry)), Sorted(L, W)
    PROVE  /\ Cardinality(W) = Len(L)
           /\ \A k \in 1..Len(L) : \E i \in W :
                /\ L[k] = registry[i]
                /\ Cardinality({j \in W : Before(j, i)}) = k - 1
<1>1. PICK at : /\ Picks(at, L, registry, W)
                /\ \A k, l \in 1..Len(L) : k < l => Before(at[k], at[l])
  BY DEF Sorted
<1>2. PICK n \in Nat : n = Len(L)
  OBVIOUS
<1>3. ASSUME NEW i \in 1..Len(registry), NEW j \in 1..Len(registry), Before(i, j)
      PROVE  ~Before(j, i)
  <2>1. registry[i].tier \in Int /\ registry[j].tier \in Int /\ i \in Int /\ j \in Int
    BY Tiered DEF Tiers
  <2> QED BY <1>3, <2>1 DEF Before
<1>4. \A k \in 1..n : at[k] \in W /\ at[k] \in 1..Len(registry) /\ L[k] = registry[at[k]]
  BY <1>1, <1>2 DEF Picks
<1>5. ASSUME NEW k \in 1..n, NEW l \in 1..n
      PROVE  /\ Before(at[k], at[l]) => k < l
             /\ at[k] = at[l] => k = l
  <2>1. k < l \/ l < k \/ k = l
    OBVIOUS
  <2>2. l < k => Before(at[l], at[k]) /\ ~Before(at[k], at[l]) /\ at[k] # at[l]
    BY <1>1, <1>2, <1>3, <1>4
  <2>3. k < l => Before(at[k], at[l]) /\ at[k] # at[l]
    BY <1>1, <1>2, <1>3, <1>4
  <2>4. ~Before(at[k], at[k])
    BY <1>3, <1>4
  <2> QED BY <2>1, <2>2, <2>3, <2>4
<1>6. Cardinality(W) = n
  <2>1. \A i \in W : \E k \in 1..n : at[k] = i
    BY <1>1, <1>2 DEF Picks
  <2>2. at \in Bijection(1..n, W)
    <3>1. at \in [1..n -> W]
      BY <1>1, <1>2 DEF Picks
    <3> QED BY <1>5, <2>1, <3>1 DEF Bijection, Injection, Surjection, IsInjective
  <2>3. IsFiniteSet(1..n) /\ Cardinality(1..n) = n
    BY FS_Interval
  <2>4. Cardinality(1..n) = Cardinality(W)
    BY <2>2, <2>3, FS_Bijection DEF ExistsBijection
  <2> QED BY <2>3, <2>4
<1>7. ASSUME NEW k \in 1..n
      PROVE  Cardinality({j \in W : Before(j, at[k])}) = k - 1
  <2>1. PICK A : A = {j \in W : Before(j, at[k])}
    OBVIOUS
  <2>2. PICK m \in Nat : m = k - 1
    OBVIOUS
  <2>3. PICK f : f = [l \in 1..m |-> at[l]]
    OBVIOUS
  <2>4. \A l \in 1..m : l \in 1..n /\ l < k /\ f[l] = at[l] /\ at[l] \in A
    BY <1>1, <1>2, <1>4, <2>1, <2>2, <2>3
  <2>5. ASSUME NEW j \in A
        PROVE  \E l \in 1..m : f[l] = j
    <3>1. PICK l \in 1..n : at[l] = j
      BY <1>1, <1>2, <2>1 DEF Picks
    <3>2. l < k
      BY <1>5, <2>1, <3>1
    <3>3. l \in 1..m
      BY <2>2, <3>2
    <3> QED BY <2>4, <3>1, <3>3
  <2>6. \A i, l \in 1..m : f[i] = f[l] => i = l
    BY <1>5, <2>4
  <2>7. f \in [1..m -> A]
    BY <2>3, <2>4
  <2>8. f \in Bijection(1..m, A)
    BY <2>5, <2>6, <2>7 DEF Bijection, Injection, Surjection, IsInjective
  <2>9. IsFiniteSet(1..m) /\ Cardinality(1..m) = m
    BY FS_Interval
  <2>10. Cardinality(1..m) = Cardinality(A)
    BY <2>8, <2>9, FS_Bijection DEF ExistsBijection
  <2> QED BY <2>1, <2>2, <2>9, <2>10
<1> QED BY <1>2, <1>4, <1>6, <1>7

(* The providers at or above a floor come tier by tier.                         *)
LEMMA SortedKept ==
    ASSUME Registry,
           NEW floor \in Tiers, NEW t \in Tiers,
           NEW L, L = IF t >= floor THEN ByTier(t) ELSE <<>>,
           NEW W, W = {i \in 1..Len(registry) : registry[i].tier = t /\ t >= floor}
    PROVE  L \in Seq(Catalog) /\ Sorted(L, W)
<1>1. CASE t >= floor
  <2>1. W = {i \in 1..Len(registry) : registry[i].tier = t}
    BY <1>1
  <2> QED BY <1>1, <2>1, SortedTier
<1>2. CASE ~(t >= floor)
  <2>1. W = {} /\ L = <<>> /\ L \in Seq(Catalog) /\ Len(L) = 0
    BY <1>2
  <2>2. PICK at : at = [k \in 1..0 |-> 0]
    OBVIOUS
  <2>3. Picks(at, L, registry, W)
    BY <2>1, <2>2 DEF Picks
  <2>4. \A k, l \in 1..Len(L) : k < l => Before(at[k], at[l])
    BY <2>1
  <2> QED BY <2>1, <2>3, <2>4 DEF Sorted
<1> QED BY <1>1, <1>2

LEMMA SortedAbove ==
    ASSUME Registry, NEW floor \in Tiers,
           NEW L, L = AtOrAbove(floor),
           NEW W, W = {i \in 1..Len(registry) : registry[i].tier >= floor}
    PROVE  L \in Seq(Catalog) /\ Sorted(L, W)
<1> DEFINE Kept(t) == IF t >= floor THEN ByTier(t) ELSE <<>>
           At(t) == {i \in 1..Len(registry) : registry[i].tier = t /\ t >= floor}
<1>1. L = ((Kept(0) \o Kept(1)) \o Kept(2)) \o Kept(3)
  BY DEF AtOrAbove
<1>2. \A t \in Tiers : Kept(t) \in Seq(Catalog) /\ Sorted(Kept(t), At(t))
  BY SortedKept
<1>3. ASSUME NEW s \in Tiers, NEW t \in Tiers, s < t,
             NEW i \in At(s), NEW j \in At(t)
      PROVE  Before(i, j)
  BY <1>3 DEF Before
<1>4. W = ((At(0) \union At(1)) \union At(2)) \union At(3)
  <2>1. \A i \in 1..Len(registry) : registry[i].tier \in {0, 1, 2, 3}
    BY Tiered DEF Tiers
  <2> QED BY <2>1
<1>5. 0 \in Tiers /\ 1 \in Tiers /\ 2 \in Tiers /\ 3 \in Tiers
  BY DEF Tiers
<1>6. PICK k0, k1, k2, k3 : k0 = Kept(0) /\ k1 = Kept(1) /\ k2 = Kept(2) /\ k3 = Kept(3)
  OBVIOUS
<1>7. PICK a0, a1, a2, a3 : a0 = At(0) /\ a1 = At(1) /\ a2 = At(2) /\ a3 = At(3)
  OBVIOUS
<1>8. /\ k0 \in Seq(Catalog) /\ Sorted(k0, a0)
      /\ k1 \in Seq(Catalog) /\ Sorted(k1, a1)
      /\ k2 \in Seq(Catalog) /\ Sorted(k2, a2)
      /\ k3 \in Seq(Catalog) /\ Sorted(k3, a3)
  <2> HIDE DEF Kept, At
  <2> QED BY <1>2, <1>5, <1>6, <1>7
<1>9. PICK b1, b2, b3 : b1 = a0 \union a1 /\ b2 = b1 \union a2 /\ b3 = b2 \union a3
  OBVIOUS
<1>10. PICK l1, l2, l3 : l1 = k0 \o k1 /\ l2 = l1 \o k2 /\ l3 = l2 \o k3
  OBVIOUS
<1>11. /\ \A i \in a0, j \in a1 : Before(i, j)
       /\ \A i \in b1, j \in a2 : Before(i, j)
       /\ \A i \in b2, j \in a3 : Before(i, j)
  <2> HIDE DEF At
  <2> QED BY <1>3, <1>5, <1>7, <1>9
<1> Extends(l1, k0, k1, b1, a0, a1) /\ Extends(l2, l1, k2, b2, b1, a2)
      /\ Extends(l3, l2, k3, b3, b2, a3)
  BY <1>9, <1>10 DEF Extends
<1>12. l1 \in Seq(Catalog) /\ Sorted(l1, b1)
  BY <1>8, <1>11, SortedJoin
<1>13. l2 \in Seq(Catalog) /\ Sorted(l2, b2)
  BY <1>8, <1>11, <1>12, SortedJoin
<1>14. l3 \in Seq(Catalog) /\ Sorted(l3, b3)
  BY <1>8, <1>11, <1>13, SortedJoin
<1>16. L = l3
  <2> HIDE DEF Kept
  <2> QED BY <1>1, <1>6, <1>10
<1>17. W = b3
  <2> HIDE DEF At
  <2> QED BY <1>4, <1>7, <1>9
<1> QED BY <1>14, <1>16, <1>17

(* The first MaxCandidates of the sorted list of the providers at the places W. *)
CutOff(L, W) ==
    /\ Len(L) = IF Cardinality(W) < MaxCandidates THEN Cardinality(W) ELSE MaxCandidates
    /\ \A k \in 1..Len(L) : \E i \in W :
         /\ L[k] = registry[i]
         /\ Cardinality({j \in W : Before(j, i)}) = k - 1

(* What the router returns: the providers that fit, cheapest first, cut off.    *)
LEMMA RouteSorted ==
    ASSUME Registry,
           NEW r \in Request, NEW W, W = Wanted(r), NEW L, L = Route(r)
    PROVE  CutOff(L, W)
<1>1. PICK floor : floor = Floor(r)
  OBVIOUS
<1>2. PICK base \in Tiers : base = ComplexityFloor[r.complexity]
  BY GatewayAssumption DEF Request
<1>3. r.hint \in Tiers \/ r.hint = -1
  BY DEF Request, NoHint
<1>4. floor = (IF r.hint # -1 /\ r.hint > base THEN r.hint ELSE base) /\ floor \in Tiers
  BY <1>1, <1>2, <1>3 DEF Floor, NoHint
<1>5. \A i \in 1..Len(registry) : registry[i] \in Catalog /\ registry[i].tier \in Tiers
  BY Tiered
<1>6. PICK A, a : A = AtOrAbove(floor)
                  /\ a = {i \in 1..Len(registry) : registry[i].tier >= floor}
  OBVIOUS
<1>7. A \in Seq(Catalog) /\ Sorted(A, a)
  BY <1>4, <1>6, SortedAbove
<1>8. PICK S : S = {p \in Catalog : Capable(r, p)}
  OBVIOUS
<1>9. PICK B, b : B = Only(A, S) /\ b = {i \in a : registry[i] \in S}
  OBVIOUS
<1>10. a \in SUBSET (1..Len(registry)) /\ b \in SUBSET (1..Len(registry))
  BY <1>6, <1>9
<1>11. PICK T : T = {p \in Catalog : p.tier = floor}
  OBVIOUS
<1>12. PICK C, c : C = Only(B, T) /\ c = {i \in b : registry[i] \in T}
  OBVIOUS
<1>13. B \in Seq(Catalog) /\ Sorted(B, b)
  BY <1>7, <1>9, <1>10, SortedOnly
<1>14. C \in Seq(Catalog) /\ Sorted(C, c)
  BY <1>10, <1>12, <1>13, SortedOnly
<1>15. PICK K, w : K = (IF escalates THEN B ELSE C) /\ w = (IF escalates THEN b ELSE c)
  OBVIOUS
<1>16. K \in Seq(Catalog) /\ Sorted(K, w)
  BY <1>13, <1>14, <1>15
<1>17. w = W
  <2>1. \A i : i \in b <=> /\ i \in 1..Len(registry)
                           /\ registry[i].tier >= floor
                           /\ r.declares => registry[i].tools
    BY <1>5, <1>6, <1>8, <1>9 DEF Capable
  <2>2. \A i : i \in w <=> /\ i \in b
                           /\ escalates \/ registry[i].tier = floor
    BY <1>5, <1>11, <1>12, <1>15, <2>1
  <2>3. \A i : i \in W <=>
          /\ i \in 1..Len(registry)
          /\ registry[i].tier >= base
          /\ registry[i].tier >= r.hint
          /\ r.declares => registry[i].tools
          /\ escalates \/ registry[i].tier = base \/ registry[i].tier = r.hint
    BY <1>2 DEF Wanted
  <2>4. ASSUME NEW t \in Tiers
        PROVE  /\ t >= floor <=> t >= base /\ t >= r.hint
               /\ t >= floor => (t = floor <=> t = base \/ t = r.hint)
    BY <1>2, <1>3, <1>4 DEF Tiers
  <2>5. ASSUME NEW i
        PROVE  i \in w <=> i \in W
    <3>1. CASE i \in 1..Len(registry)
      BY <1>5, <2>1, <2>2, <2>3, <2>4, <3>1
    <3>2. CASE i \notin 1..Len(registry)
      BY <2>1, <2>2, <2>3, <3>2
    <3> QED BY <3>1, <3>2
  <2> QED BY <2>5
<1>18. W \in SUBSET (1..Len(registry))
  BY DEF Wanted
<1>19. /\ Cardinality(W) = Len(K)
       /\ \A k \in 1..Len(K) : \E i \in W :
            /\ K[k] = registry[i]
            /\ Cardinality({j \in W : Before(j, i)}) = k - 1
  BY <1>16, <1>17, <1>18, SortedCounts
<1>20. L = SubSeq(K, 1, IF Len(K) < MaxCandidates THEN Len(K) ELSE MaxCandidates)
  <2>1. B = Only(A, S) /\ C = Only(B, T)
    BY <1>9, <1>12
  <2> QED BY <1>1, <1>6, <1>8, <1>11, <1>15, <2>1 DEF Route
<1>21. PICK n : n = (IF Len(K) < MaxCandidates THEN Len(K) ELSE MaxCandidates)
  OBVIOUS
<1>22. n \in Nat /\ n <= Len(K) /\ Len(K) \in Nat
  BY <1>16, <1>21, GatewayAssumption
<1>23. Len(L) = n /\ \A k \in 1..n : L[k] = K[k] /\ k \in 1..Len(K)
  BY <1>16, <1>20, <1>21, <1>22
<1> QED BY <1>19, <1>21, <1>23 DEF CutOff

(* A routed dispatch gets exactly the providers that fit its floor, its hint    *)
(* and its tools, cheapest first and in registration order within a tier, cut   *)
(* off at max_candidates, whatever was registered and replaced before.          *)
THEOREM RoutesCheapestFirst == GatewaySpec => RouteIsCheapestFirst
<1>1. ASSUME Registry, [GatewayNext]_gatewayVars
      PROVE  [outcome' = "routed" /\ registry' = registry =>
                LET wanted == Wanted(request')
                    count  == Cardinality(wanted)
                IN  /\ Len(candidates') = IF count < MaxCandidates THEN count ELSE MaxCandidates
                    /\ \A k \in 1..Len(candidates') : \E i \in wanted :
                         /\ candidates'[k] = registry[i]
                         /\ Cardinality({j \in wanted : Before(j, i)}) = k - 1
             ]_gatewayVars
  <2>1. CASE Register
    <3>1. registry' = registry => UNCHANGED gatewayVars
      BY <2>1 DEF Register, gatewayVars
    <3> QED BY <3>1
  <2>2. CASE Dispatch /\ outcome' = "routed"
    <3>1. PICK r \in Request : Prepare(r)
      BY <2>2 DEF Dispatch
    <3>2. request' = r /\ candidates' = Route(r)
      BY <2>2, <3>1 DEF Prepare
    <3>3. PICK W, L : W = Wanted(r) /\ L = Route(r)
      OBVIOUS
    <3>4. CutOff(L, W)
      BY <1>1, <3>3, RouteSorted
    <3>5. /\ Len(L) = IF Cardinality(W) < MaxCandidates
                      THEN Cardinality(W) ELSE MaxCandidates
          /\ \A k \in 1..Len(L) : \E i \in W :
               /\ L[k] = registry[i]
               /\ Cardinality({j \in W : Before(j, i)}) = k - 1
      BY <3>4, Zenon DEF CutOff
    <3>6. candidates' = L /\ Wanted(request') = W
      BY <3>2, <3>3
    <3> QED BY <3>5, <3>6, Zenon
  <2>3. CASE Dispatch /\ outcome' # "routed"
    BY <2>3
  <2> QED BY <1>1, <2>1, <2>2, <2>3 DEF GatewayNext
<1> QED BY <1>1, RegistryInit, RegistryStep, PTL DEF GatewaySpec, RouteIsCheapestFirst
===============================================================================
