------------------------------- MODULE Adapters -------------------------------
(* What the provider adapters do with a conversation on its way out, with an    *)
(* answer on its way in and with a vendor's failure.  "openai" stands for the   *)
(* four compatible vendors too, subclasses that only set URL, name and model.   *)
(* Vendors pair a tool result with its call by id, Gemini by the tool's name.   *)
EXTENDS Integers, Sequences, SequencesExt, Conditions, Lists

Vendors == {"openai", "anthropic", "gemini"}

(* The tier an adapter takes unless told otherwise; the compatible vendors are  *)
(* CHEAP like Gemini.                                                           *)
DefaultTier == [gemini |-> 1, openai |-> 2, anthropic |-> 3]

(* A call id is <<turn, n>>: <<0, n>> is the "call_n" GeminiProvider makes up,  *)
(* any other turn stands for an id a vendor minted, which is unique.            *)
CallId == Nat \X Nat

-------------------------------------------------------------------------------
(* Requests *)

(* One entry of the vendor's list: who speaks, which calls it holds, and what   *)
(* the vendor is told a result answers, if it is one.                           *)
Entry(speaker, asked, pairing) == [role |-> speaker, calls |-> asked, answers |-> pairing]

ToOpenAIMessage(m) ==
    IF m.role = "tool" THEN Entry("tool", <<>>, <<m.call_id>>)
    ELSE IF m.calls # <<>> THEN Entry("assistant", m.calls, <<>>)
    ELSE Entry(m.role, <<>>, <<>>)

(* Results travel as blocks of a user message. *)
ToAnthropicMessage(m) ==
    IF m.role = "tool" THEN Entry("user", <<>>, <<m.call_id>>)
    ELSE IF m.calls # <<>> THEN Entry("assistant", m.calls, <<>>)
    ELSE Entry(m.role, <<>>, <<>>)

CallsOf(seen) == FlattenSeq([i \in 1..Len(seen) |-> seen[i].calls])

(* Mutant: a name, once known, is not replaced. *)
FirstNameOf(seen, id) ==
    LET asked == CallsOf(seen)
        at    == SelectInSeq(asked, LAMBDA c : c.id = id)
    IN  IF at = 0 THEN "call_id" ELSE asked[at].name

(* call_names_by_id: of calls with one id the latest counts; an id nobody       *)
(* minted stands for itself, a name no tool has.                                *)
NameOf(seen, id) ==
    LET asked == CallsOf(seen)
        at    == SelectLastInSeq(asked, LAMBDA c : c.id = id)
    IN  IF at = 0 THEN "call_id" ELSE asked[at].name

ToGeminiContent(seen, m) ==
    IF m.role = "tool" THEN Entry("user", <<>>, <<NameOf(seen, m.call_id)>>)
    ELSE IF m.calls # <<>> THEN Entry("model", m.calls, <<>>)
    ELSE Entry(IF m.role = "assistant" THEN "model" ELSE "user", <<>>, <<>>)

(* Anthropic and Gemini take the system prompt beside the conversation.         *)
Spoken(messages) ==
    Only(messages, {m \in ToSet(messages) : m.role # "system"})

ToWire(vendor, messages) ==
    LET said == Spoken(messages)
    IN  CASE vendor = "openai" ->
               [i \in 1..Len(messages) |-> ToOpenAIMessage(messages[i])]
          [] vendor = "anthropic" ->
               [i \in 1..Len(said) |-> ToAnthropicMessage(said[i])]
          [] vendor = "gemini" ->
               [i \in 1..Len(said) |-> ToGeminiContent(SubSeq(said, 1, i - 1), said[i])]

(* What the vendor pairs a result by. *)
Pairing(vendor, call) == IF vendor = "gemini" THEN call.name ELSE call.id

-------------------------------------------------------------------------------
(* Answers *)

(* "call_{index}": a part's index, and the text comes first. *)
Synthesised(names, withText) ==
    [n \in 1..Len(names) |-> [id |-> <<0, IF withText THEN n ELSE n - 1>>,
                              name |-> names[n]]]

Minted(names, turn) ==
    [n \in 1..Len(names) |-> [id |-> <<turn, n>>, name |-> names[n]]]

(* The calls an answer may hold once an adapter has read it: Gemini need not    *)
(* return ids.                                                                  *)
ReadCalls(vendor, names, withText, turn) ==
    {Minted(names, turn)} \union
        (IF vendor = "gemini" THEN {Synthesised(names, withText)} ELSE {})

-------------------------------------------------------------------------------
(* Keys and failures *)

NoKey == "no_key"

ServerKey == "server_key"

(* `api_key or self._api_key`: the key of this call, else the one the adapter   *)
(* was built with.                                                              *)
KeySent(given, built) == IF given = NoKey THEN built ELSE given

(* What a call may raise: an HTTP status with the vendor's own code, or no      *)
(* answer at all (no connection, no key to build the client with, a reply that  *)
(* does not parse).                                                             *)
Failure == [status : {400, 401, 403, 404, 429, 500},
            code : {"plain", "insufficient_quota", "billing_error"}]
           \union {[status |-> 0, code |-> "plain"]}

ClassifyStatus(status) ==
    CASE status = 429          -> "rate_limit"
      [] status \in {401, 403} -> "auth"
      [] status >= 500         -> "transient"
      [] OTHER                 -> "invalid"

(* Each adapter knows the way its own vendor says that the credit is spent;     *)
(* Gemini's has none.                                                           *)
ClassifyError(vendor, f) ==
    CASE f.status = 0 -> "transient"
      [] vendor = "openai" /\ f.status = 429 /\ f.code = "insufficient_quota" -> "quota"
      [] vendor = "anthropic" /\ f.status = 400 /\ f.code = "billing_error" -> "quota"
      [] OTHER -> ClassifyStatus(f.status)

===============================================================================
