-------------------------- MODULE BrowserAgentProofs --------------------------
(* Proofs about BrowserAgent, for every configuration of providers and keys.    *)
EXTENDS BrowserAgent, SequenceTheorems, DataLemmas

(* Only the candidate whose body is being read has shown text: whoever is still *)
(* to be asked finds an empty screen.                                           *)
Silent ==
    /\ phase \in {"idle", "fetch", "sending", "sleeping"} => heard = {}
    /\ phase = "reading" => heard \subseteq {at}

LEMMA SilentInit == Init => Silent
BY DEF Init, Silent

(* Failing over keeps what was heard: it must have been nothing.                *)
LEMMA FailsSilently ==
    ASSUME heard = {}, Fails, UNCHANGED heard
    PROVE  Silent'
BY DEF Fails, Settle, Silent

LEMMA FetchThrowsSilently ==
    ASSUME heard = {}, FetchThrows, UNCHANGED heard
    PROVE  Silent'
<1>1. CASE aborted \/ attempt > 0
  BY <1>1, FailsSilently DEF FetchThrows
<1>2. CASE ~(aborted \/ attempt > 0)
  BY <1>2 DEF FetchThrows, Silent
<1> QED BY <1>1, <1>2

LEMMA SilentStep == Silent /\ [Next]_vars => Silent'
<1> SUFFICES ASSUME Silent, [Next]_vars PROVE Silent'
  OBVIOUS
<1>1. ASSUME NEW cfg \in Configs, Ask(cfg) PROVE Silent'
  BY <1>1 DEF Ask, Settle, Silent
<1>2. CASE Fetch
  <2>1. heard = {} /\ UNCHANGED heard
    BY <1>2 DEF Fetch, Silent
  <2>2. CASE Unreachable(at)
    BY <1>2, <2>1, <2>2, FailsSilently DEF Fetch
  <2>3. CASE ~Unreachable(at) /\ aborted
    BY <1>2, <2>1, <2>3, FetchThrowsSilently DEF Fetch
  <2>4. CASE ~Unreachable(at) /\ ~aborted
    BY <1>2, <2>1, <2>4 DEF Fetch, Silent
  <2> QED BY <2>2, <2>3, <2>4
<1>3. CASE RequestBreaks
  BY <1>3, FetchThrowsSilently DEF RequestBreaks, Silent
<1>4. ASSUME NEW status \in Statuses, Headers(status) PROVE Silent'
  <2>1. phase = "sending" /\ heard = {} /\ UNCHANGED heard
    BY <1>4 DEF Headers, Silent
  <2>2. CASE status = "ok"
    BY <1>4, <2>1, <2>2 DEF Headers, Silent
  <2>3. CASE status = "retryable" /\ attempt = 0
    BY <1>4, <2>1, <2>3 DEF Headers, Silent
  <2>4. CASE status # "ok" /\ ~(status = "retryable" /\ attempt = 0)
    BY <1>4, <2>1, <2>4, FailsSilently DEF Headers
  <2> QED BY <2>2, <2>3, <2>4
<1>5. CASE SleepEnds
  BY <1>5 DEF SleepEnds, Silent
<1>6. CASE Chunk
  BY <1>6 DEF Chunk, Silent, asked
<1>7. CASE BodyEnds
  BY <1>7 DEF BodyEnds, Settle, Silent
<1>8. CASE BodyBreaks
  <2>1. CASE at \in heard
    BY <1>8, <2>1 DEF BodyBreaks, Settle, Silent
  <2>2. CASE at \notin heard
    <3>1. heard = {} /\ UNCHANGED heard
      BY <1>8, <2>2 DEF BodyBreaks, Silent
    <3> QED BY <1>8, <2>2, <3>1, FailsSilently DEF BodyBreaks
  <2> QED BY <2>1, <2>2
<1>9. CASE Abort
  BY <1>9 DEF Abort, Silent
<1>10. CASE UNCHANGED vars
  BY <1>10 DEF vars, Silent
<1> QED
  BY <1>1, <1>2, <1>3, <1>4, <1>5, <1>6, <1>7, <1>8, <1>9, <1>10 DEF Next, Proceeds

LEMMA SilentAlways == Spec => []Silent
BY SilentInit, SilentStep, PTL DEF Spec

LEMMA RequestStep ==
    Silent /\ [Next]_vars => (requests' # requests => heard = {} /\ ~aborted)
<1> SUFFICES ASSUME Silent, [Next]_vars, requests' # requests
             PROVE  heard = {} /\ ~aborted
  OBVIOUS
<1>1. Fetch
  BY DEF Next, Proceeds, Ask, RequestBreaks, Headers, SleepEnds, Chunk, BodyEnds,
         BodyBreaks, Abort, vars
<1> QED BY <1>1 DEF Fetch, Silent

(* However many providers and keys are pooled, no request leaves the browser    *)
(* once a word of an answer was shown, and none once the caller aborted.        *)
THEOREM NoneTooLate == Spec => NoLateRequest
BY SilentAlways, RequestStep, PTL DEF Spec, NoLateRequest

-------------------------------------------------------------------------------
(* Exhaustion *)

Key == STRING \union {""}

Candidate == [provider : STRING, apiKey : Key]

LEMMA CandidatesType ==
    ASSUME NEW cfg \in Configs
    PROVE  CandidatesOf(cfg) \in Seq(Candidate)
<1> DEFINE n == Len(cfg)
           Pool(i) == [k \in DOMAIN KeysOf(cfg[i]) |-> [provider |-> cfg[i].provider,
                                                        apiKey |-> KeysOf(cfg[i])[k]]]
           pools == [i \in DOMAIN cfg |-> Pool(i)]
<1>1. /\ n \in Nat /\ DOMAIN cfg = 1..n
      /\ \A i \in 1..n : cfg[i].provider \in STRING /\ cfg[i].apiKeys \in Seq(STRING)
  <2> DEFINE Credential == [provider : STRING, apiKeys : Seq(STRING)]
  <2>1. cfg \in Seq(Credential)
    BY ConfigsAssumption
  <2>2. \A c \in Credential : c.provider \in STRING /\ c.apiKeys \in Seq(STRING)
    OBVIOUS
  <2> HIDE DEF Credential
  <2> QED BY <2>1, <2>2
<1>2. \A i \in 1..n : KeysOf(cfg[i]) \in Seq(Key)
  <2> TAKE i \in 1..n
  <2>1. \A S : Only(cfg[i].apiKeys, S) \in Seq(STRING)
    BY <1>1, OnlyFacts
  <2>2. Seq(STRING) \subseteq Seq(Key)
    <3>1. \A A, B : A \subseteq B => Seq(A) \subseteq Seq(B)
      OBVIOUS
    <3>2. STRING \subseteq Key
      BY Zenon DEF Key
    <3> QED BY <3>1, <3>2, Zenon
  <2>3. \A x \in Key : <<x>> \in Seq(Key)
    OBVIOUS
  <2>4. "" \in Key
    BY Zenon DEF Key
  <2>5. <<"">> \in Seq(Key)
    BY <2>3, <2>4, Zenon
  <2> QED BY <2>1, <2>2, <2>5, Zenon DEF KeysOf
<1>3. \A i \in 1..n : Pool(i) \in Seq(Candidate)
  <2> TAKE i \in 1..n
  <2>1. /\ Len(KeysOf(cfg[i])) \in Nat /\ DOMAIN KeysOf(cfg[i]) = 1..Len(KeysOf(cfg[i]))
        /\ \A k \in DOMAIN KeysOf(cfg[i]) : KeysOf(cfg[i])[k] \in Key
    BY <1>2
  <2>2. cfg[i].provider \in STRING
    BY <1>1
  <2> QED BY <2>1, <2>2 DEF Candidate
<1>4. pools \in Seq(Seq(Candidate))
  <2> HIDE DEF Pool
  <2> QED BY <1>1, <1>3
<1>5. FlattenSeq(pools) \in Seq(Candidate)
  <2> HIDE DEF pools
  <2> QED BY <1>4, FlattenType
<1> QED BY <1>5 DEF CandidatesOf

(* What was done about a candidate the call is through with. *)
Dealt(i) == aborted \/ <<i, 0>> \in requests \/ Unreachable(i)

(* The call works through its candidates from the first on. *)
Listed ==
    /\ candidates \in Seq(Candidate)
    /\ at \in Nat /\ attempt \in Nat
    /\ phase = "idle" => at = 1 /\ attempt = 0
    /\ phase \in {"fetch", "sending", "sleeping", "reading"} => at \in 1..Len(candidates)

(* Nobody was passed over: the candidates left behind were dealt with, and so   *)
(* was the one at hand once its first fetch is over.                            *)
PassedOver ==
    /\ phase # "idle" => \A i \in 1..(at - 1) : Dealt(i)
    /\ phase \in {"sending", "sleeping", "reading"} => Dealt(at)
    /\ phase = "fetch" /\ attempt > 0 => Dealt(at)

Exhausted ==
    /\ result = "AllProvidersExhausted" =>
         phase = "settled" /\ heard = {} /\ \A i \in 1..Len(candidates) : Dealt(i)
    /\ result # "none" => phase = "settled"

HInv == Silent /\ Listed /\ PassedOver /\ Exhausted

LEMMA HInvInit == Init => HInv
<1> SUFFICES ASSUME Init PROVE HInv
  OBVIOUS
<1>1. candidates \in Seq(Candidate)
  BY DEF Init
<1> QED BY <1>1, SilentInit DEF Init, HInv, Listed, PassedOver, Exhausted

(* Failing over leaves a candidate behind that was dealt with.                  *)
LEMMA FailsHonestly ==
    ASSUME HInv, Fails, UNCHANGED <<asked, heard, requests, aborted>>,
           heard = {}, result = "none",
           phase \in {"fetch", "sending", "reading"}, Dealt(at)
    PROVE  (Listed /\ PassedOver /\ Exhausted)'
<1>1. /\ candidates \in Seq(Candidate) /\ candidates' = candidates
      /\ at \in 1..Len(candidates) /\ Len(candidates) \in Nat
  BY DEF HInv, Listed, asked
<1>2. \A i \in 1..(at - 1) : Dealt(i)
  BY DEF HInv, PassedOver
<1>3. \A i \in 1..at : Dealt(i)
  BY <1>1, <1>2
<1> \A i : Dealt(i)' <=> Dealt(i)
  BY DEF Dealt, Unreachable, asked
<1>4. CASE at < Len(candidates)
  <2>1. at' = at + 1 /\ attempt' = 0 /\ phase' = "fetch" /\ result' = result
    BY <1>4 DEF Fails
  <2>2. Listed'
    BY <1>1, <1>4, <2>1 DEF Listed
  <2>3. PassedOver'
    BY <1>1, <1>3, <2>1 DEF PassedOver
  <2> QED BY <2>1, <2>2, <2>3 DEF Exhausted
<1>5. CASE ~(at < Len(candidates))
  <2>1. /\ phase' = "settled" /\ result' = "AllProvidersExhausted"
        /\ at' = at /\ attempt' = attempt
    BY <1>5 DEF Fails, Settle
  <2>2. at = Len(candidates)
    BY <1>1, <1>5
  <2>3. Listed'
    BY <1>1, <2>1 DEF HInv, Listed
  <2>4. PassedOver'
    BY <1>2, <2>1 DEF PassedOver
  <2>5. Exhausted'
    BY <1>1, <1>3, <2>1, <2>2 DEF Exhausted
  <2> QED BY <2>3, <2>4, <2>5
<1> QED BY <1>4, <1>5

(* A fetch that throws is tried again, or failed over.                          *)
LEMMA ThrowsHonestly ==
    ASSUME HInv, FetchThrows, UNCHANGED <<asked, heard, requests, aborted>>,
           heard = {}, result = "none", phase \in {"fetch", "sending"}, Dealt(at)
    PROVE  (Listed /\ PassedOver /\ Exhausted)'
<1>1. CASE aborted \/ attempt > 0
  BY <1>1, FailsHonestly DEF FetchThrows
<1>2. CASE ~(aborted \/ attempt > 0)
  <2>1. phase' = "sleeping" /\ UNCHANGED <<at, attempt, result>>
    BY <1>2 DEF FetchThrows
  <2>2. \A i : Dealt(i)' <=> Dealt(i)
    BY DEF Dealt, Unreachable, asked
  <2> QED BY <2>1, <2>2 DEF HInv, Listed, PassedOver, Exhausted, asked
<1> QED BY <1>1, <1>2

LEMMA HInvStep == HInv /\ [Next]_vars => HInv'
<1> SUFFICES ASSUME HInv, [Next]_vars PROVE HInv'
  OBVIOUS
<1> USE DEF HInv
<1>0. Silent'
  BY SilentStep
<1> SUFFICES (Listed /\ PassedOver /\ Exhausted)'
  BY <1>0
<1>1. ASSUME NEW cfg \in Configs, Ask(cfg) PROVE (Listed /\ PassedOver /\ Exhausted)'
  <2>1. /\ phase = "idle" /\ candidates' = CandidatesOf(cfg) /\ candidates' \in Seq(Candidate)
        /\ at' = 1 /\ attempt' = 0 /\ at = 1 /\ attempt = 0 /\ result = "none"
    BY <1>1, CandidatesType DEF Ask, Listed, Exhausted
  <2>2. CASE candidates' = <<>>
    <3>1. phase' = "settled" /\ result' = "NoProviderConfigured"
      BY <1>1, <2>2 DEF Ask, Settle
    <3> QED BY <2>1, <3>1 DEF Listed, PassedOver, Exhausted
  <2>3. CASE candidates' # <<>>
    <3>1. phase' = "fetch" /\ result' = "none"
      BY <1>1, <2>1, <2>3 DEF Ask
    <3>2. Len(candidates') \in Nat \ {0}
      BY <2>1, <2>3, EmptySeq
    <3> QED BY <2>1, <3>1, <3>2 DEF Listed, PassedOver, Exhausted
  <2> QED BY <2>2, <2>3
<1>2. CASE Fetch
  <2>1. /\ phase = "fetch" /\ heard = {} /\ result = "none"
        /\ UNCHANGED <<asked, heard, aborted>>
    BY <1>2 DEF Fetch, Silent, Exhausted
  <2>2. CASE Unreachable(at)
    BY <1>2, <2>1, <2>2, FailsHonestly DEF Fetch, Dealt
  <2>3. CASE ~Unreachable(at) /\ aborted
    BY <1>2, <2>1, <2>3, ThrowsHonestly DEF Fetch, Dealt
  <2>4. CASE ~Unreachable(at) /\ ~aborted
    <3>1. /\ requests' = requests \union {<<at, attempt>>} /\ phase' = "sending"
          /\ UNCHANGED <<at, attempt, result>>
      BY <1>2, <2>1, <2>4 DEF Fetch
    <3>2. \A i : Dealt(i) => Dealt(i)'
      BY <2>1, <3>1 DEF Dealt, Unreachable, asked
    <3>3. Dealt(at)'
      <4>1. CASE attempt > 0
        <5>1. Dealt(at)
          BY <2>1, <4>1 DEF PassedOver
        <5> QED BY <3>1, <3>2, <5>1
      <4>2. CASE ~(attempt > 0)
        BY <3>1, <4>2 DEF Listed, Dealt
      <4> QED BY <4>1, <4>2
    <3>4. Listed' /\ Exhausted'
      BY <2>1, <3>1 DEF Listed, Exhausted, asked
    <3>5. PassedOver'
      BY <2>1, <3>1, <3>2, <3>3 DEF PassedOver
    <3> QED BY <3>4, <3>5
  <2> QED BY <2>2, <2>3, <2>4
<1>3. CASE RequestBreaks
  BY <1>3, ThrowsHonestly DEF RequestBreaks, Silent, PassedOver, Exhausted
<1>4. ASSUME NEW status \in Statuses, Headers(status)
      PROVE  (Listed /\ PassedOver /\ Exhausted)'
  <2>1. /\ phase = "sending" /\ heard = {} /\ result = "none" /\ Dealt(at)
        /\ UNCHANGED <<asked, heard, requests, aborted>>
    BY <1>4 DEF Headers, Silent, Exhausted, PassedOver
  <2>2. \A i : Dealt(i)' <=> Dealt(i)
    BY <2>1 DEF Dealt, Unreachable, asked
  <2>3. CASE status = "ok"
    <3>1. phase' = "reading" /\ UNCHANGED <<at, attempt, result>>
      BY <1>4, <2>3 DEF Headers
    <3> QED BY <2>1, <2>2, <3>1 DEF Listed, PassedOver, Exhausted, asked
  <2>4. CASE status = "retryable" /\ attempt = 0
    <3>1. phase' = "sleeping" /\ UNCHANGED <<at, attempt, result>>
      BY <1>4, <2>4 DEF Headers
    <3> QED BY <2>1, <2>2, <3>1 DEF Listed, PassedOver, Exhausted, asked
  <2>5. CASE status # "ok" /\ ~(status = "retryable" /\ attempt = 0)
    BY <1>4, <2>1, <2>5, FailsHonestly DEF Headers
  <2> QED BY <2>3, <2>4, <2>5
<1>5. CASE SleepEnds
  <2>1. \A i : Dealt(i)' <=> Dealt(i)
    BY <1>5 DEF SleepEnds, Dealt, Unreachable, asked
  <2> QED BY <1>5, <2>1 DEF SleepEnds, Listed, PassedOver, Exhausted, asked
<1>6. CASE Chunk
  <2>1. \A i : Dealt(i)' <=> Dealt(i)
    BY <1>6 DEF Chunk, Dealt, Unreachable, asked
  <2> QED BY <1>6, <2>1 DEF Chunk, Listed, PassedOver, Exhausted, asked
<1>7. CASE BodyEnds
  <2>1. \A i : Dealt(i)' <=> Dealt(i)
    BY <1>7 DEF BodyEnds, Dealt, Unreachable, asked
  <2> QED BY <1>7, <2>1 DEF BodyEnds, Settle, Listed, PassedOver, Exhausted, asked
<1>8. CASE BodyBreaks
  <2>1. /\ phase = "reading" /\ result = "none" /\ Dealt(at)
        /\ UNCHANGED <<asked, heard, requests, aborted>>
    BY <1>8 DEF BodyBreaks, Exhausted, PassedOver
  <2>2. CASE at \in heard
    <3>1. \A i : Dealt(i)' <=> Dealt(i)
      BY <2>1 DEF Dealt, Unreachable, asked
    <3> QED BY <1>8, <2>1, <2>2, <3>1
            DEF BodyBreaks, Settle, Listed, PassedOver, Exhausted, asked
  <2>3. CASE at \notin heard
    <3>1. heard = {}
      BY <2>1, <2>3 DEF Silent
    <3> QED BY <1>8, <2>1, <2>3, <3>1, FailsHonestly DEF BodyBreaks
  <2> QED BY <2>2, <2>3
<1>9. CASE Abort
  <2>1. \A i : Dealt(i) => Dealt(i)'
    BY <1>9 DEF Abort, Dealt, Unreachable, asked
  <2> QED BY <1>9, <2>1 DEF Abort, Listed, PassedOver, Exhausted, asked
<1>10. CASE UNCHANGED vars
  <2>1. \A i : Dealt(i)' <=> Dealt(i)
    BY <1>10 DEF vars, Dealt, Unreachable, asked
  <2> QED BY <1>10, <2>1 DEF vars, Listed, PassedOver, Exhausted, asked
<1> QED
  BY <1>1, <1>2, <1>3, <1>4, <1>5, <1>6, <1>7, <1>8, <1>9, <1>10 DEF Next, Proceeds

LEMMA HInvHonest == HInv => ExhaustionIsHonest
<1> SUFFICES ASSUME HInv, result = "AllProvidersExhausted"
             PROVE  /\ heard = {}
                    /\ aborted \/ \A i \in DOMAIN candidates :
                                    <<i, 0>> \in requests \/ Unreachable(i)
  BY DEF ExhaustionIsHonest
<1>1. DOMAIN candidates = 1..Len(candidates)
  BY DEF HInv, Listed
<1> QED BY <1>1 DEF HInv, Exhausted, Dealt

(* However many keys are pooled, "all providers failed" is said only of a call  *)
(* that asked with every one of them, unless it was aborted or Ollama's URL     *)
(* refused, and that has shown nothing.                                         *)
THEOREM HonestAboutExhaustion == Spec => []ExhaustionIsHonest
BY HInvInit, HInvStep, HInvHonest, PTL DEF Spec

===============================================================================
