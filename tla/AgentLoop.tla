------------------------------- MODULE AgentLoop -------------------------------
(* One run of AgentLoop.run / arun: model turns through the fallback chain, the *)
(* tool calls each turn asks for, the iteration ceiling and the deadline.  A    *)
(* turn is what Failover promises of it, which FallbackChain implements; tools  *)
(* are the application's and return, fail or, awaited, are cancelled.           *)
EXTENDS Adapters

CONSTANTS
    Routes,          (* the candidate lists: how many keys each provider has    *)
    VendorAt,        (* the vendor at each position of a route                  *)
    ToolNames,       (* names a model may call, registered or not               *)
    Registries,      (* the tool registries: what handlers a name has           *)
    Histories,       (* the conversations a caller may hand over                *)
    CallLists,       (* the tool calls one answer may ask for                   *)
    TokenCounts,     (* what usage.total_tokens of a turn may be                *)
    Sizes,           (* the payload an answer or a tool result may add          *)
    MaxPayload,      (* max_payload_bytes                                       *)
    MaxIterations    (* max_iterations                                          *)

Handlers == {"unknown", "neither", "sync", "async", "both"}

(* What a message is to the loop: its role, the calls an assistant asks for,    *)
(* the id of the call a tool message answers, and its share of the payload the  *)
(* perimeter measures.                                                          *)
Message == [role : {"system", "user", "assistant", "tool"},
            calls : Seq([id : CallId, name : ToolNames]),
            call_id : CallId, is_error : BOOLEAN, size : Nat]

Text(speaker, bytes) == [role |-> speaker, calls |-> <<>>, call_id |-> <<0, 0>>,
                         is_error |-> FALSE, size |-> bytes]

Assistant(asked, bytes) == [role |-> "assistant", calls |-> asked,
                            call_id |-> <<0, 0>>, is_error |-> FALSE, size |-> bytes]

ToolResult(call, failed, bytes) == [role |-> "tool", calls |-> <<>>,
                                    call_id |-> call.id, is_error |-> failed,
                                    size |-> bytes]

ASSUME LoopAssumption ==
    /\ Routes \subseteq Seq(Nat)
    /\ VendorAt \in Seq(Vendors)
    /\ \A r \in Routes : Len(r) <= Len(VendorAt)
    /\ Registries \subseteq [ToolNames -> Handlers]
    /\ Histories \subseteq Seq(Message)
    /\ CallLists \subseteq Seq(ToolNames)      (* by name: adapters add the ids  *)
    /\ TokenCounts \subseteq Nat /\ Sizes \subseteq Nat
    /\ MaxPayload \in Nat /\ MaxIterations \in Nat

VARIABLES
    run,         (* what the run is given: way, history, tools, deadline        *)
    candidates,  (* the routed providers, copied afresh into every turn         *)
    phase,       (* loop head, in a turn, executing tools, or done              *)
    expired,     (* the clock has passed the deadline                           *)
    slot,        (* the turn: the provider and key it is at ...                 *)
    tried,       (* ... those it called ...                                     *)
    outcome,     (* ... and how it ended                                        *)
    messages,    (* state.messages                                              *)
    usage,       (* state.usage                                                 *)
    steps,       (* the StepResults: index of the message, and its usage        *)
    next,        (* the tool call to execute                                    *)
    ending,      (* the stop reason, "raised" or "cancelled"                    *)
    final        (* index of final_message; 0 is the empty message              *)

vars == <<run, candidates, phase, expired, slot, tried, outcome,
          messages, usage, steps, next, ending, final>>

loopVars == <<messages, usage, steps, next>>

(* The turn as its caller sees it. *)
Turn == INSTANCE Failover WITH keys <- candidates

Run == [way : {"sync", "async"}, history : Histories, tools : Registries,
        deadline : BOOLEAN]

-------------------------------------------------------------------------------
Payload == FoldLeft(LAMBDA n, m : n + m.size, 0, messages)

LastAssistant(transcript) ==
    SelectLastInSeq(transcript, LAMBDA m : m.role = "assistant")

(* The message whose calls are being executed. *)
Asked == messages[LastAssistant(messages)].calls

(* execute wants a synchronous handler, aexecute takes either. *)
CanRun(name) ==
    run.tools[name] \in (IF run.way = "sync" THEN {"sync", "both"}
                         ELSE {"sync", "async", "both"})

Awaits(name) == run.way = "async" /\ run.tools[name] \in {"async", "both"}

(* Mutant: the first message of the assistant is taken. *)
FinalizeWithFirst(reason, transcript) ==
    /\ phase' = "done"
    /\ ending' = reason
    /\ final' = SelectInSeq(transcript, LAMBDA m : m.role = "assistant")

(* _finalize: the last assistant message of the transcript, wherever it is. *)
Finalize(reason, transcript) ==
    /\ phase' = "done"
    /\ ending' = reason
    /\ final' = LastAssistant(transcript)

(* An exception leaves the loop: no RunResult is built. *)
Unwind(how) ==
    /\ phase' = "done"
    /\ ending' = how
    /\ UNCHANGED final

NoTurn == slot' = <<1, 1>> /\ tried' = {} /\ outcome' = "pending"

Init ==
    /\ run \in Run
    /\ candidates \in Routes
    /\ phase = "head"
    /\ expired = FALSE
    /\ slot = <<1, 1>>
    /\ tried = {}
    /\ outcome = "pending"
    /\ messages = run.history
    /\ usage = 0
    /\ steps = <<>>
    /\ next = 1
    /\ ending = "running"
    /\ final = 0

CeilingReached == Len(steps) = MaxIterations

PastDeadline == run.deadline /\ expired

StopsAtCeiling ==
    /\ phase = "head"
    /\ CeilingReached
    /\ Finalize("max_iterations", messages)
    /\ UNCHANGED <<run, candidates, expired, slot, tried, outcome, loopVars>>

StopsAtDeadline ==
    /\ phase = "head"
    /\ ~CeilingReached
    /\ PastDeadline
    /\ Finalize("deadline", messages)
    /\ UNCHANGED <<run, candidates, expired, slot, tried, outcome, loopVars>>

(* The chain begins with the perimeter, so the grown transcript is measured     *)
(* again every turn.                                                            *)
Admits == messages # <<>> /\ Payload <= MaxPayload

BeginsTurn ==
    /\ phase = "head"
    /\ ~CeilingReached
    /\ ~PastDeadline
    /\ candidates # <<>> /\ Admits
    /\ phase' = "turn"
    /\ NoTurn
    /\ UNCHANGED <<run, candidates, expired, ending, final, loopVars>>

(* No candidate, or a transcript the perimeter rejects: nothing is called. *)
TurnRejected ==
    /\ phase = "head"
    /\ ~CeilingReached
    /\ ~PastDeadline
    /\ candidates = <<>> \/ ~Admits
    /\ Unwind("raised")
    /\ UNCHANGED <<run, candidates, expired, slot, tried, outcome, loopVars>>

InTurn ==
    /\ phase = "turn"
    /\ Turn!Next
    /\ UNCHANGED <<run, phase, expired, ending, final, loopVars>>

(* Mutant: a turn that failed is tried again, and no iteration counted for it. *)
TurnRetried ==
    /\ phase = "turn"
    /\ outcome \in {"exhausted", "aborted"}
    /\ phase' = "head"
    /\ NoTurn
    /\ UNCHANGED <<run, candidates, expired, ending, final, loopVars>>

(* Exhausted, out of quota, a terminal error: the exception passes through. *)
TurnRaises ==
    /\ phase = "turn"
    /\ outcome \in {"exhausted", "aborted"}
    /\ Unwind("raised")
    /\ NoTurn
    /\ UNCHANGED <<run, candidates, expired, loopVars>>

(* Mutant: the usage of the answer that ends the run is not folded in. *)
FoldUsageOfCalls(calls, tokens) ==
    IF calls = <<>> THEN usage ELSE usage + tokens

FoldUsage(calls, tokens) == usage + tokens

(* _absorb: message, usage and step are recorded, then tools or the end. *)
Absorb ==
    /\ phase = "turn"
    /\ outcome = "answered"
    /\ \E names \in CallLists, tokens \in TokenCounts, bytes \in Sizes :
       \E calls \in ReadCalls(VendorAt[slot[1]], names, bytes > 0, Len(messages) + 1) :
         /\ messages' = Append(messages, Assistant(calls, bytes))
         /\ usage' = FoldUsage(calls, tokens)
         /\ steps' = Append(steps, [at |-> Len(messages) + 1, tokens |-> tokens])
         /\ IF calls = <<>>
            THEN Finalize("completed", messages')
            ELSE phase' = "tools" /\ UNCHANGED <<ending, final>>
    /\ next' = 1
    /\ NoTurn
    /\ UNCHANGED <<run, candidates, expired>>

(* Mutant: the loop goes back to the model after the first result. *)
AnswerFirst(failed) ==
    /\ \E bytes \in Sizes :
         messages' = Append(messages, ToolResult(Asked[next], failed, bytes))
    /\ phase' = "head"
    /\ next' = 1

(* The result of the call is appended, whatever it is, and the next one is up.  *)
Answer(failed) ==
    /\ \E bytes \in Sizes :
         messages' = Append(messages, ToolResult(Asked[next], failed, bytes))
    /\ phase' = IF next < Len(Asked) THEN "tools" ELSE "head"
    /\ next' = IF next < Len(Asked) THEN next + 1 ELSE 1

(* The tool returns or raises; both come back as a result. *)
ToolRuns ==
    /\ phase = "tools"
    /\ CanRun(Asked[next].name)
    /\ \E failed \in BOOLEAN : Answer(failed)
    /\ UNCHANGED <<run, candidates, expired, slot, tried, outcome, usage, steps,
                   ending, final>>

(* Unknown, or no handler of the way the loop is driven: an error result. *)
ToolUnusable ==
    /\ phase = "tools"
    /\ ~CanRun(Asked[next].name)
    /\ Answer(TRUE)
    /\ UNCHANGED <<run, candidates, expired, slot, tried, outcome, usage, steps,
                   ending, final>>

(* asyncio.wait_for around arun: at a provider call or at an awaited handler;   *)
(* the handlers' `except Exception` does not catch it.                          *)
Cancel ==
    /\ run.way = "async"
    /\ \/ phase = "turn" /\ outcome = "pending"
       \/ phase = "tools" /\ Awaits(Asked[next].name)
    /\ Unwind("cancelled")
    /\ NoTurn
    /\ UNCHANGED <<run, candidates, expired, loopVars>>

(* The clock passes the deadline, whatever the loop is doing. *)
Expire ==
    /\ run.deadline /\ ~expired /\ phase # "done"
    /\ expired' = TRUE
    /\ UNCHANGED <<run, candidates, phase, slot, tried, outcome, ending, final,
                   loopVars>>

Step ==
    \/ StopsAtCeiling \/ StopsAtDeadline
    \/ BeginsTurn \/ TurnRejected \/ InTurn \/ TurnRaises \/ Absorb
    \/ ToolRuns \/ ToolUnusable

Next == Step \/ Cancel \/ Expire

Spec == Init /\ [][Next]_vars

(* A turn ends (FallbackChain!Termination) and a tool returns: the loop itself  *)
(* never waits for anything else.                                               *)
FairSpec == Spec /\ WF_vars(Step)

-------------------------------------------------------------------------------
(* Properties *)

Own == (Len(run.history) + 1)..Len(messages)

(* The caller's history stays in front, untouched; behind it, every tool call   *)
(* of an answer has its one result, in the order of the calls and before the    *)
(* model speaks again, however the tools fare.  Vendors refuse a transcript     *)
(* that leaves a call unanswered.                                               *)
CallsAnsweredInOrder ==
    /\ IsPrefix(run.history, messages)
    /\ \A i \in Own :
         /\ messages[i].role = "assistant" =>
              \A n \in 1..Len(messages[i].calls) :
                 IF i + n <= Len(messages)
                 THEN /\ messages[i + n].role = "tool"
                      /\ messages[i + n].call_id = messages[i].calls[n].id
                 ELSE phase = "tools" \/ ending = "cancelled"
         /\ messages[i].role = "tool" =>
              \E asker \in Own :
                 /\ asker < i /\ i <= asker + Len(messages[asker].calls)
                 /\ \A j \in (asker + 1)..i : messages[j].role = "tool"

(* The run makes at most max_iterations turns; its steps are its own answers,   *)
(* in order, and its usage is theirs and nobody else's.                         *)
StepsAccountForRun ==
    /\ Len(steps) <= MaxIterations
    /\ \A i, j \in 1..Len(steps) : i < j => steps[i].at < steps[j].at
    /\ {steps[i].at : i \in 1..Len(steps)} =
         {i \in Own : messages[i].role = "assistant"}
    /\ usage = SumFunction([i \in 1..Len(steps) |-> steps[i].tokens])

(* A completed run hands out an answer that closes its transcript and asks for  *)
(* nothing; a run stopped at the ceiling or the deadline hands out its latest   *)
(* answer, calls and all, and only before its first turn a message of the       *)
(* caller's history.                                                            *)
StopReasonExplainsFinal ==
    /\ ending = "completed" =>
         /\ final = Len(messages) /\ final \in Own
         /\ messages[final].calls = <<>>
    /\ ending = "max_iterations" => Len(steps) = MaxIterations
    /\ ending = "deadline" => PastDeadline
    /\ ending \in {"max_iterations", "deadline"} =>
         IF steps = <<>> THEN final \notin Own
         ELSE /\ final = steps[Len(steps)].at
              /\ messages[final].calls # <<>>

(* Any vendor may serve the next turn, whoever served the earlier ones.  On its *)
(* wire each result is paired with the call it is the result of and, where ids  *)
(* pair, with no other call of that answer, although Gemini's made-up ids come  *)
(* back turn after turn.                                                        *)
ResultsReachTheirCalls ==
    \A vendor \in Vendors :
      LET wire == ToWire(vendor, messages)
      IN  \A i \in 1..Len(wire) : wire[i].answers # <<>> =>
            \E asker \in 1..(i - 1) :
              LET asked == wire[asker].calls
                  n     == i - asker
              IN  /\ n <= Len(asked)
                  /\ wire[i].answers = <<Pairing(vendor, asked[n])>>
                  /\ vendor # "gemini" =>
                       \A m \in 1..Len(asked) : asked[m].id = asked[n].id => m = n

(* A run ends, if its turns and tools do. *)
RunEnds == <>(phase = "done")

===============================================================================
