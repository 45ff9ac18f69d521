----------------------------- MODULE BrowserAgent -----------------------------
(* complete and streamComplete of the browser agent: one candidate per pooled   *)
(* key, each fetched at most twice, until one answers.  A stream that has begun *)
(* to speak is not restarted, and an aborted call asks nobody else.  Vendors    *)
(* and the browser's fetch are external: a request may be answered with any     *)
(* status, break, hang until its timeout, or break off in the middle.           *)
EXTENDS Integers, Sequences, SequencesExt, Lists

CONSTANTS
    Configs     (* what cfg.providers may hold when a question is asked         *)

VARIABLES
    candidates,  (* what the call has to try, in order                          *)
    streams,     (* streamComplete, or complete                                 *)
    usableUrl,   (* whether validateOllamaUrl accepts cfg.ollamaUrl             *)
    at,          (* the candidate being tried                                   *)
    attempt,     (* of fetchWithRetry, from 0                                   *)
    phase,       (* where the call is, "settled" at its end                     *)
    heard,       (* the candidates whose text reached onChunk                   *)
    requests,    (* the requests that left the browser: candidate and attempt   *)
    aborted,     (* options.signal.aborted                                      *)
    result       (* how the promise settled                                     *)

asked == <<candidates, streams, usableUrl>>
vars == <<asked, at, attempt, phase, heard, requests, aborted, result>>

ASSUME ConfigsAssumption ==
    Configs \subseteq Seq([provider : STRING, apiKeys : Seq(STRING)])

(* A key is "" when it is empty; one of nothing but spaces is not, here.        *)
KeysOf(cred) ==
    IF cred.provider = "ollama" THEN <<"">>
    ELSE Only(cred.apiKeys, ToSet(cred.apiKeys) \ {""})

CandidatesOf(cfg) ==
    FlattenSeq([i \in DOMAIN cfg |->
      [k \in DOMAIN KeysOf(cfg[i]) |-> [provider |-> cfg[i].provider,
                                        apiKey |-> KeysOf(cfg[i])[k]]]])

(* 429 and every 5xx. *)
Statuses == {"ok", "retryable", "refused"}

-------------------------------------------------------------------------------
Init ==
    /\ candidates = <<>> /\ streams \in BOOLEAN /\ usableUrl \in BOOLEAN
    /\ at = 1 /\ attempt = 0
    /\ phase = "idle"
    /\ heard = {} /\ requests = {}
    /\ aborted = FALSE
    /\ result = "none"

Settle(how) == phase' = "settled" /\ result' = how

Ask(cfg) ==
    /\ phase = "idle"
    /\ candidates' = CandidatesOf(cfg)
    /\ IF candidates' = <<>> THEN Settle("NoProviderConfigured")
       ELSE phase' = "fetch" /\ UNCHANGED result
    /\ UNCHANGED <<streams, usableUrl, at, attempt, heard, requests, aborted>>

(* attempts.push, and on to the next candidate.                                 *)
Fails ==
    IF at < Len(candidates)
    THEN at' = at + 1 /\ attempt' = 0 /\ phase' = "fetch" /\ UNCHANGED result
    ELSE Settle("AllProvidersExhausted") /\ UNCHANGED <<at, attempt>>

(* catch of fetchWithRetry *)
FetchThrows ==
    IF aborted \/ attempt > 0 THEN Fails
    ELSE phase' = "sleeping" /\ UNCHANGED <<at, attempt, result>>

(* Mutant: the caller's signal is left out of the request's. *)
FetchUnsignalled ==
    /\ phase = "fetch"
    /\ requests' = requests \union {<<at, attempt>>}
    /\ phase' = "sending"
    /\ UNCHANGED <<at, attempt, result, asked, heard, aborted>>

Unreachable(i) == candidates[i].provider = "ollama" /\ ~usableUrl

(* A rejected Ollama URL throws before fetchWithRetry is entered.  fetch throws *)
(* at once, and sends nothing, with an aborted signal.                          *)
Fetch ==
    /\ phase = "fetch"
    /\ IF Unreachable(at) THEN Fails /\ UNCHANGED requests
       ELSE IF aborted THEN FetchThrows /\ UNCHANGED requests
       ELSE /\ requests' = requests \union {<<at, attempt>>}
            /\ phase' = "sending"
            /\ UNCHANGED <<at, attempt, result>>
    /\ UNCHANGED <<asked, heard, aborted>>

(* Network error, abort, or the minute of the request's own timeout.            *)
RequestBreaks ==
    /\ phase = "sending"
    /\ FetchThrows
    /\ UNCHANGED <<asked, heard, requests, aborted>>

Headers(status) ==
    /\ phase = "sending"
    /\ CASE status = "ok" -> phase' = "reading" /\ UNCHANGED <<at, attempt, result>>
         [] status = "retryable" /\ attempt = 0 ->
              phase' = "sleeping" /\ UNCHANGED <<at, attempt, result>>
         [] OTHER -> Fails
    /\ UNCHANGED <<asked, heard, requests, aborted>>

(* Mutant: the attempt is not counted. *)
SleepEndsUncounted ==
    /\ phase = "sleeping"
    /\ phase' = "fetch"
    /\ UNCHANGED <<asked, at, attempt, heard, requests, aborted, result>>

SleepEnds ==
    /\ phase = "sleeping"
    /\ phase' = "fetch" /\ attempt' = attempt + 1
    /\ UNCHANGED <<asked, at, heard, requests, aborted, result>>

(* A line parsed to a delta: startedStreaming is set, then onChunk is called;   *)
(* what onChunk throws, the adapter swallows as a malformed frame.              *)
Chunk ==
    /\ phase = "reading" /\ streams
    /\ heard' = heard \union {at}
    /\ UNCHANGED <<asked, at, attempt, phase, requests, aborted, result>>

(* An error the vendor reports inside the stream is a line like any other, and  *)
(* a last line without its newline is dropped: the text so far is the answer.   *)
BodyEnds ==
    /\ phase = "reading"
    /\ Settle("text")
    /\ UNCHANGED <<asked, at, attempt, heard, requests, aborted>>

(* Mutant: a stream that broke is restarted on the next candidate. *)
BodyBreaksRestarts ==
    /\ phase = "reading"
    /\ Fails
    /\ UNCHANGED <<asked, heard, requests, aborted>>

(* The reader rejects: connection, abort, or the timeout, which covers the body. *)
BodyBreaks ==
    /\ phase = "reading"
    /\ IF at \in heard THEN Settle("broken off") /\ UNCHANGED <<at, attempt>> ELSE Fails
    /\ UNCHANGED <<asked, heard, requests, aborted>>

Abort ==
    /\ ~aborted /\ phase # "settled"
    /\ aborted' = TRUE
    /\ UNCHANGED <<asked, at, attempt, phase, heard, requests, result>>

Proceeds ==
    \/ Fetch \/ RequestBreaks \/ SleepEnds \/ BodyEnds \/ BodyBreaks
    \/ \E status \in Statuses : Headers(status)

Next == (\E cfg \in Configs : Ask(cfg)) \/ Proceeds \/ Chunk \/ Abort

Spec == Init /\ [][Next]_vars

(* Every request ends within its timeout, sleeps end, and a body cannot go on   *)
(* for longer than the timeout however many chunks it brings.                   *)
FairSpec == Spec /\ WF_vars(Proceeds)

-------------------------------------------------------------------------------
(* Properties *)

(* Once text was shown nobody else is asked, so that one answer is never made   *)
(* of two vendors' words, and once the caller aborted nobody is asked at all.   *)
NoLateRequest ==
    [][requests' # requests => heard = {} /\ ~aborted]_vars

(* "All providers failed" is said only when every pooled key was really asked,  *)
(* unless the caller aborted or the Ollama URL was refused, and never when the  *)
(* user has already read text.                                                  *)
ExhaustionIsHonest ==
    result = "AllProvidersExhausted" =>
      /\ heard = {}
      /\ aborted \/ \A i \in DOMAIN candidates : <<i, 0>> \in requests \/ Unreachable(i)

(* A call that was made settles.                                                *)
CallSettles == phase = "fetch" ~> phase = "settled"

===============================================================================
