---------------------------- MODULE AgentLoopProofs ----------------------------
(* Proofs about the agent loop: what its transcript looks like, whatever the    *)
(* model asks for and however the tools fare, and what a finished run returns.  *)
(* Which provider serves a turn does not matter here, so nothing is said of     *)
(* the turn's own variables.                                                    *)
EXTENDS AgentLoop, SequenceTheorems, DataLemmas

Call == [id : CallId, name : ToolNames]

Endings == {"running", "completed", "max_iterations", "deadline", "raised", "cancelled"}

-------------------------------------------------------------------------------
(* The inductive invariant *)

Types ==
    /\ run \in Run
    /\ messages \in Seq(Message)
    /\ steps \in Seq([at : Nat, tokens : Nat])
    /\ usage \in Nat
    /\ next \in Nat \ {0}
    /\ phase \in {"head", "turn", "tools", "done"}
    /\ ending \in Endings
    /\ (phase = "done") <=> (ending # "running")
    /\ expired \in BOOLEAN

(* The caller's messages, where the caller left them. *)
Kept ==
    /\ Len(run.history) <= Len(messages)
    /\ \A i \in 1..Len(run.history) : messages[i] = run.history[i]

Speaks(i) == messages[i].role = "assistant"

(* The messages behind an answer, as far as they go, are its results, in order. *)
Paired ==
    \A i \in Own : Speaks(i) =>
      \A n \in 1..Len(messages[i].calls) :
        i + n <= Len(messages) =>
          /\ messages[i + n].role = "tool"
          /\ messages[i + n].call_id = messages[i].calls[n].id

Complete(i) == i + Len(messages[i].calls) <= Len(messages)

(* The answer whose calls are being executed: next - 1 results follow it. *)
Asker == Len(messages) - (next - 1)

(* While tools run exactly one answer is waiting for results, and it is the     *)
(* latest; at any other time none is, unless the run was cancelled.             *)
Waiting ==
    /\ phase = "tools" =>
         /\ Asker \in Own
         /\ Speaks(Asker)
         /\ next <= Len(messages[Asker].calls)
         /\ \A i \in Own : i # Asker /\ Speaks(i) => Complete(i)
    /\ phase # "tools" /\ ending # "cancelled" =>
         \A i \in Own : Speaks(i) => Complete(i)

(* A result of this run stands behind the answer that asked for it. *)
Answering ==
    \A i \in Own : messages[i].role = "tool" =>
      \E asker \in Own :
        /\ asker < i /\ i <= asker + Len(messages[asker].calls)
        /\ \A j \in (asker + 1)..i : messages[j].role = "tool"

(* The steps point at the answers of this run, all of them, in order. *)
Marked ==
    /\ \A k \in 1..Len(steps) : steps[k].at \in Own /\ Speaks(steps[k].at)
    /\ \A i, j \in 1..Len(steps) : i < j => steps[i].at < steps[j].at
    /\ \A i \in Own : Speaks(i) => \E k \in 1..Len(steps) : steps[k].at = i

(* An answer without calls ends the run, and no turn begins at the ceiling. *)
Continues ==
    /\ phase # "done" => \A i \in Own : Speaks(i) => messages[i].calls # <<>>
    /\ Len(steps) <= MaxIterations
    /\ phase = "turn" => Len(steps) < MaxIterations

(* usage is what the steps used. *)
Tokens == [i \in 1..Len(steps) |-> steps[i].tokens]

Summed == usage = SumFunction(Tokens)

IInv == /\ Types /\ Kept /\ Paired /\ Waiting /\ Answering /\ Marked /\ Continues
        /\ Summed /\ StopReasonExplainsFinal

-------------------------------------------------------------------------------
(* What the loop finds when it looks for its latest answer *)

(* If an assistant message is followed by none, it is the one _finalize takes. *)
LEMMA LastAssistantIs ==
    ASSUME NEW t \in Seq(Message), NEW a \in 1..Len(t), t[a].role = "assistant",
           \A j \in (a + 1)..Len(t) : t[j].role # "assistant"
    PROVE  LastAssistant(t) = a
<1> DEFINE I == {i \in 1..Len(t) : t[i].role = "assistant"}
<1>1. Len(t) \in Nat
  OBVIOUS
<1>2. a \in I /\ \A i \in I : a >= i
  BY <1>1
<1>3. \A b \in I : (\A i \in I : b >= i) => b = a
  BY <1>1, <1>2
<1>4. Max(I) = a
  BY <1>2, <1>3 DEF Max
<1>5. LastAssistant(t) = IF I # {} THEN Max(I) ELSE 0
  BY DEF LastAssistant, SelectLastInSeq
<1> QED BY <1>2, <1>4, <1>5

(* It finds one whenever there is one. *)
LEMMA LastAssistantFinds ==
    ASSUME NEW t \in Seq(Message)
    PROVE  \/ LastAssistant(t) = 0
           \/ /\ LastAssistant(t) \in 1..Len(t)
              /\ t[LastAssistant(t)].role = "assistant"
<1> DEFINE I == {i \in 1..Len(t) : t[i].role = "assistant"}
           Behind == {(i + 1)..Len(t) : i \in I}
<1>1. Len(t) \in Nat
  OBVIOUS
<1>2. LastAssistant(t) = IF I # {} THEN Max(I) ELSE 0
  BY DEF LastAssistant, SelectLastInSeq
<1>3. ASSUME I # {}
      PROVE  Max(I) \in I
  <2>1. \A i \in I : IsFiniteSet((i + 1)..Len(t)) /\ (i + 1)..Len(t) \subseteq Nat
    BY <1>1, FS_Interval
  <2>2. Behind \subseteq FiniteSubsetsOf(Nat)
    BY <2>1 DEF FiniteSubsetsOf
  <2>3. Behind # {}
    BY <1>3
  <2>4. PICK B \in Behind : \A C \in Behind : ~(<<C, B>> \in StrictSubsetOrdering(Nat))
    <3> HIDE DEF Behind
    <3> QED BY <2>2, <2>3, FS_StrictSubsetOrderingWellFounded, WFMin
  <2>5. PICK a \in I : B = (a + 1)..Len(t)
    OBVIOUS
  <2>6. ASSUME NEW j \in I, a < j
        PROVE  FALSE
    <3>1. (j + 1)..Len(t) \in Behind /\ (j + 1)..Len(t) \in SUBSET Nat /\ B \in SUBSET Nat
      BY <2>1, <2>5
    <3>2. (j + 1)..Len(t) \subseteq B /\ j \in B /\ j \notin (j + 1)..Len(t)
      BY <1>1, <2>5, <2>6
    <3> QED BY <2>4, <3>1, <3>2 DEF StrictSubsetOrdering
  <2>7. \A j \in I : a >= j
    BY <2>6, <1>1
  <2> QED BY <2>7 DEF Max
<1> QED BY <1>2, <1>3

-------------------------------------------------------------------------------
(* What the steps do to the transcript *)

LEMMA Appended ==
    ASSUME NEW S, NEW s \in Seq(S), NEW m \in S, NEW t, t = Append(s, m)
    PROVE  /\ t \in Seq(S)
           /\ Len(s) \in Nat
           /\ Len(t) = Len(s) + 1
           /\ t[Len(t)] = m
           /\ \A i \in 1..Len(s) : t[i] = s[i]
OBVIOUS

(* No two calls of an answer share an id. *)
Distinct(calls) == \A m, n \in 1..Len(calls) : calls[m].id = calls[n].id => m = n

(* Whichever ids an adapter finds or makes up, they are ids, no two the same. *)
LEMMA ReadCallsType ==
    ASSUME NEW vendor, NEW names \in Seq(ToolNames), NEW bytes \in Nat,
           NEW turn \in Nat, NEW calls \in ReadCalls(vendor, names, bytes > 0, turn)
    PROVE  calls \in Seq(Call) /\ Distinct(calls)
<1>1. Len(names) \in Nat /\ \A n \in 1..Len(names) : names[n] \in ToolNames
  BY ElementOfSeq
<1>2. CASE calls = Minted(names, turn)
  <2>1. \A n \in 1..Len(names) : [id |-> <<turn, n>>, name |-> names[n]] \in Call
    BY <1>1 DEF Call, CallId
  <2>2. calls \in Seq(Call) /\ Len(calls) = Len(names)
    BY <1>1, <1>2, <2>1 DEF Minted
  <2>3. \A n \in 1..Len(names) : calls[n].id = <<turn, n>>
    BY <1>2 DEF Minted
  <2> QED BY <2>2, <2>3 DEF Distinct
<1>3. CASE calls = Synthesised(names, bytes > 0)
  <2>1. \A n \in 1..Len(names) :
          [id |-> <<0, IF bytes > 0 THEN n ELSE n - 1>>, name |-> names[n]] \in Call
    BY <1>1 DEF Call, CallId
  <2>2. calls \in Seq(Call) /\ Len(calls) = Len(names)
    BY <1>1, <1>3, <2>1 DEF Synthesised
  <2>3. \A n \in 1..Len(names) : calls[n].id = <<0, IF bytes > 0 THEN n ELSE n - 1>>
    BY <1>3 DEF Synthesised
  <2>4. \A m, n \in 1..Len(names) :
          (IF bytes > 0 THEN n ELSE n - 1) = (IF bytes > 0 THEN m ELSE m - 1) => m = n
    BY <1>1
  <2>5. ASSUME NEW m \in 1..Len(names), NEW n \in 1..Len(names), calls[m].id = calls[n].id
        PROVE  m = n
    BY <2>3, <2>4, <2>5
  <2> QED BY <2>2, <2>5 DEF Distinct
<1> QED BY <1>2, <1>3 DEF ReadCalls

LEMMA AbsorbFacts ==
    ASSUME Types, Absorb
    PROVE  \E calls \in Seq(Call), tokens \in Nat, bytes \in Nat :
             /\ Distinct(calls)
             /\ messages' = Append(messages, Assistant(calls, bytes))
             /\ Assistant(calls, bytes) \in Message
             /\ usage' = usage + tokens
             /\ steps' = Append(steps, [at |-> Len(messages) + 1, tokens |-> tokens])
             /\ IF calls = <<>>
                THEN Finalize("completed", messages')
                ELSE phase' = "tools" /\ UNCHANGED <<ending, final>>
<1>1. PICK names \in CallLists, tokens \in TokenCounts, bytes \in Sizes :
        \E calls \in ReadCalls(VendorAt[slot[1]], names, bytes > 0, Len(messages) + 1) :
          /\ messages' = Append(messages, Assistant(calls, bytes))
          /\ usage' = FoldUsage(calls, tokens)
          /\ steps' = Append(steps, [at |-> Len(messages) + 1, tokens |-> tokens])
          /\ IF calls = <<>>
             THEN Finalize("completed", messages')
             ELSE phase' = "tools" /\ UNCHANGED <<ending, final>>
  BY DEF Absorb
<1>2. PICK calls \in ReadCalls(VendorAt[slot[1]], names, bytes > 0, Len(messages) + 1) :
          /\ messages' = Append(messages, Assistant(calls, bytes))
          /\ usage' = FoldUsage(calls, tokens)
          /\ steps' = Append(steps, [at |-> Len(messages) + 1, tokens |-> tokens])
          /\ IF calls = <<>>
             THEN Finalize("completed", messages')
             ELSE phase' = "tools" /\ UNCHANGED <<ending, final>>
  BY <1>1
<1>3. /\ names \in Seq(ToolNames) /\ tokens \in Nat /\ bytes \in Nat
      /\ Len(messages) + 1 \in Nat
  BY LoopAssumption DEF Types
<1>4. calls \in Seq(Call) /\ Distinct(calls)
  BY <1>3, ReadCallsType
<1>5. Assistant(calls, bytes) \in Message
  BY <1>3, <1>4 DEF Assistant, Message, Call, CallId
<1> QED BY <1>2, <1>3, <1>4, <1>5 DEF FoldUsage

(* A tool's result goes behind the answer being executed and names its call. *)
LEMMA AnswerFacts ==
    ASSUME Types, Paired, Waiting, phase = "tools", NEW failed \in BOOLEAN, Answer(failed)
    PROVE  /\ LastAssistant(messages) = Asker
           /\ \E r \in Message :
                /\ messages' = Append(messages, r)
                /\ r.role = "tool"
                /\ r.calls = <<>>
                /\ r.call_id = messages[Asker].calls[next].id
           /\ phase' = IF next < Len(messages[Asker].calls) THEN "tools" ELSE "head"
           /\ next' = IF next < Len(messages[Asker].calls) THEN next + 1 ELSE 1
<1> DEFINE a == Asker
<1>1. /\ messages \in Seq(Message) /\ Len(messages) \in Nat /\ next \in Nat \ {0}
      /\ run.history \in Seq(Message) /\ Len(run.history) \in Nat
  BY LoopAssumption DEF Types, Run
<1>2. /\ a \in Own /\ messages[a].role = "assistant"
      /\ next <= Len(messages[a].calls)
      /\ a = Len(messages) - (next - 1)
  BY DEF Waiting, Speaks, Asker
<1>3. a \in 1..Len(messages)
  BY <1>1, <1>2 DEF Own
<1>4. messages[a].calls \in Seq(Call) /\ Len(messages[a].calls) \in Nat
  <2>1. messages[a] \in Message
    BY <1>1, <1>3, ElementOfSeq
  <2>2. messages[a].calls \in Seq(Call)
    BY <2>1 DEF Message, Call
  <2> QED BY <2>2
<1>5. ASSUME NEW j \in (a + 1)..Len(messages)
      PROVE  messages[j].role = "tool"
  <2>1. j - a \in 1..Len(messages[a].calls) /\ a + (j - a) = j
    BY <1>1, <1>2, <1>3, <1>4
  <2> QED BY <1>2, <2>1 DEF Paired, Speaks
<1>6. LastAssistant(messages) = a
  BY <1>1, <1>2, <1>3, <1>5, LastAssistantIs
<1>7. Asked = messages[a].calls
  BY <1>6 DEF Asked
<1>8. PICK bytes \in Sizes :
        messages' = Append(messages, ToolResult(Asked[next], failed, bytes))
  BY DEF Answer
<1>9. Asked[next] \in Call
  BY <1>1, <1>2, <1>4, <1>7, ElementOfSeq
<1>10. ToolResult(Asked[next], failed, bytes) \in Message
  BY <1>9, LoopAssumption DEF ToolResult, Message, Call
<1>11. /\ ToolResult(Asked[next], failed, bytes).role = "tool"
       /\ ToolResult(Asked[next], failed, bytes).calls = <<>>
       /\ ToolResult(Asked[next], failed, bytes).call_id = Asked[next].id
  BY DEF ToolResult
<1> QED BY <1>6, <1>7, <1>8, <1>10, <1>11 DEF Answer

-------------------------------------------------------------------------------
(* The invariant is inductive *)

LEMMA MessageTypes ==
    ASSUME Types
    PROVE  /\ Len(messages) \in Nat
           /\ Len(run.history) \in Nat
           /\ run.history \in Seq(Message)
           /\ \A i \in Own : /\ i \in 1..Len(messages)
                            /\ messages[i] \in Message
                            /\ Len(messages[i].calls) \in Nat
<1>1. /\ messages \in Seq(Message) /\ Len(messages) \in Nat
      /\ run.history \in Seq(Message) /\ Len(run.history) \in Nat
  BY LoopAssumption DEF Types, Run
<1>2. ASSUME NEW i \in Own
      PROVE  i \in 1..Len(messages) /\ messages[i] \in Message
  BY <1>1, ElementOfSeq DEF Own
<1>3. \A m \in Message : m.calls \in Seq(Call)
  BY DEF Message, Call
<1>4. \A m \in Message : Len(m.calls) \in Nat
  BY <1>3
<1> QED BY <1>1, <1>2, <1>4

LEMMA AnswerStep ==
    ASSUME IInv, phase = "tools", NEW failed \in BOOLEAN, Answer(failed),
           UNCHANGED <<run, usage, steps, ending, final, expired>>
    PROVE  IInv'
<1> DEFINE L == Len(messages)
           H == Len(run.history)
           a == Asker
<1>1. Types /\ Kept /\ Paired /\ Waiting /\ Answering /\ Marked /\ Continues /\ Summed
  BY DEF IInv
<1>2. PICK r \in Message :
        /\ messages' = Append(messages, r)
        /\ r.role = "tool"
        /\ r.calls = <<>>
        /\ r.call_id = messages[a].calls[next].id
  BY <1>1, AnswerFacts
<1>3. /\ phase' = IF next < Len(messages[a].calls) THEN "tools" ELSE "head"
      /\ next' = IF next < Len(messages[a].calls) THEN next + 1 ELSE 1
  BY <1>1, AnswerFacts
<1>4. /\ messages' \in Seq(Message) /\ L \in Nat /\ H \in Nat
      /\ Len(messages') = L + 1
      /\ messages'[L + 1] = r
      /\ \A i \in 1..L : messages'[i] = messages[i]
  BY <1>1, <1>2, Appended, MessageTypes DEF Types
<1>5. /\ Own = (H + 1)..L
      /\ Own' = (H + 1)..(L + 1)
      /\ \A i \in Own : messages'[i] = messages[i] /\ i \in 1..L
                       /\ Len(messages[i].calls) \in Nat
  BY <1>1, <1>4, MessageTypes DEF Own
<1>6. /\ a \in Own /\ messages[a].role = "assistant"
      /\ next \in Nat \ {0} /\ next <= Len(messages[a].calls)
      /\ a = L - (next - 1)
      /\ \A i \in Own : i # a /\ messages[i].role = "assistant" =>
                          i + Len(messages[i].calls) <= L
  BY <1>1 DEF Types, Waiting, Speaks, Asker, Complete
<1>7. /\ a \in Int /\ Len(messages[a].calls) \in Nat
      /\ a + next = L + 1 /\ a <= L /\ H + 1 <= a
  BY <1>4, <1>5, <1>6
<1>8. ending = "running"
  BY <1>1 DEF Types
<1> HIDE DEF L, H, a
<1>9. Types'
  BY <1>1, <1>3, <1>4, <1>6, <1>8 DEF Types, Endings
<1>10. Kept'
  BY <1>1, <1>4 DEF Kept, H, L
<1>11. ASSUME NEW i \in Own', messages'[i].role = "assistant"
       PROVE  i \in Own /\ messages'[i] = messages[i]
  BY <1>2, <1>4, <1>5, <1>11
<1>12. Paired'
  <2> SUFFICES ASSUME NEW i \in Own', messages'[i].role = "assistant",
                      NEW n \in 1..Len(messages'[i].calls), i + n <= L + 1
               PROVE  /\ messages'[i + n].role = "tool"
                      /\ messages'[i + n].call_id = messages'[i].calls[n].id
    BY <1>4 DEF Paired, Speaks
  <2>1. /\ i \in Own /\ messages'[i] = messages[i] /\ i \in 1..L
        /\ n \in 1..Len(messages[i].calls) /\ Len(messages[i].calls) \in Nat
    BY <1>11, <1>5
  <2>2. CASE i + n <= L
    <3>1. /\ messages[i + n].role = "tool"
          /\ messages[i + n].call_id = messages[i].calls[n].id
      BY <1>1, <2>1, <2>2 DEF Paired, Speaks, L
    <3>2. messages'[i + n] = messages[i + n]
      BY <1>4, <2>1, <2>2
    <3> QED BY <2>1, <3>1, <3>2
  <2>3. CASE i + n = L + 1
    <3>1. i = a
      BY <1>4, <1>6, <2>1, <2>3
    <3>2. n \in Int /\ next \in Int
      BY <1>6, <2>1
    <3>3. n = next
      BY <1>7, <2>3, <3>1, <3>2
    <3> QED BY <1>2, <1>4, <2>1, <2>3, <3>1, <3>3
  <2> QED BY <1>4, <2>1, <2>2, <2>3
<1>13. Waiting'
  <2>1. CASE next < Len(messages[a].calls)
    <3>1. phase' = "tools" /\ next' = next + 1
      BY <1>3, <2>1
    <3>2. Asker' = a
      BY <1>4, <1>6, <1>7, <3>1 DEF Asker
    <3>3. next' <= Len(messages'[a].calls)
      BY <1>5, <1>6, <1>7, <2>1, <3>1
    <3>4. \A i \in Own' : i # a /\ messages'[i].role = "assistant" =>
            i + Len(messages'[i].calls) <= L + 1
      BY <1>4, <1>5, <1>6, <1>11
    <3> QED BY <1>4, <1>5, <1>6, <3>1, <3>2, <3>3, <3>4 DEF Waiting, Speaks, Complete
  <2>2. CASE ~(next < Len(messages[a].calls))
    <3>1. phase' = "head"
      BY <1>3, <2>2
    <3>2. a + Len(messages[a].calls) = L + 1
      BY <1>6, <1>7, <2>2
    <3>3. \A i \in Own' : messages'[i].role = "assistant" =>
            i + Len(messages'[i].calls) <= L + 1
      <4>1. ASSUME NEW i \in Own, messages[i].role = "assistant"
            PROVE  i + Len(messages[i].calls) <= L + 1
        <5>1. i \in Int /\ Len(messages[i].calls) \in Nat
          BY <1>5
        <5>2. CASE i = a
          BY <1>4, <3>2, <5>2
        <5>3. CASE i # a
          <6>1. i + Len(messages[i].calls) <= L
            BY <1>6, <4>1, <5>3
          <6> QED BY <1>4, <5>1, <6>1
        <5> QED BY <5>2, <5>3
      <4> QED BY <1>11, <4>1
    <3> QED BY <1>4, <3>1, <3>3 DEF Waiting, Speaks, Complete
  <2> QED BY <2>1, <2>2
<1>14. Answering'
  <2> SUFFICES ASSUME NEW i \in Own', messages'[i].role = "tool"
               PROVE  \E asker \in Own' :
                        /\ asker < i /\ i <= asker + Len(messages'[asker].calls)
                        /\ \A j \in (asker + 1)..i : messages'[j].role = "tool"
    BY DEF Answering
  <2>1. CASE i \in Own
    <3>1. PICK asker \in Own :
            /\ asker < i /\ i <= asker + Len(messages[asker].calls)
            /\ \A j \in (asker + 1)..i : messages[j].role = "tool"
      BY <1>1, <1>5, <2>1 DEF Answering
    <3>2. asker \in 1..L /\ i \in 1..L /\ messages'[asker] = messages[asker]
      BY <1>5, <2>1
    <3>3. \A j \in (asker + 1)..i : messages'[j] = messages[j]
      BY <1>4, <3>2
    <3>4. asker \in Own'
      BY <1>5, <1>4
    <3> QED BY <3>1, <3>2, <3>3, <3>4
  <2>2. CASE i = L + 1
    <3>1. a \in Own' /\ messages'[a] = messages[a] /\ a < i
          /\ i <= a + Len(messages[a].calls)
      BY <1>4, <1>5, <1>6, <1>7, <2>2
    <3>2. ASSUME NEW j \in (a + 1)..L
          PROVE  messages'[j].role = "tool"
      <4>1. j - a \in 1..Len(messages[a].calls) /\ a + (j - a) = j /\ j \in 1..L
        BY <1>4, <1>5, <1>6, <1>7, <3>2
      <4>2. a + (j - a) <= L
        BY <1>4, <4>1
      <4>3. messages[a + (j - a)].role = "tool"
        BY <1>1, <1>6, <4>1, <4>2 DEF Paired, Speaks, L
      <4>4. messages[j].role = "tool"
        BY <4>1, <4>3
      <4> QED BY <1>4, <4>1, <4>4
    <3>3. \A j \in (a + 1)..i : messages'[j].role = "tool"
      BY <1>2, <1>4, <1>7, <2>2, <3>2
    <3> QED BY <3>1, <3>3
  <2> QED BY <1>4, <1>5, <2>1, <2>2
<1>15. Marked'
  <2>1. steps' = steps
    OBVIOUS
  <2>2. \A i \in Own : i \in Own'
    BY <1>4, <1>5
  <2> QED BY <1>1, <1>5, <1>11, <2>1, <2>2 DEF Marked, Speaks
<1>16. Continues'
  <2>1. \A i \in Own' : messages'[i].role = "assistant" => messages'[i].calls # <<>>
    BY <1>1, <1>11 DEF Continues, Speaks
  <2> QED BY <1>1, <1>3, <2>1 DEF Continues, Speaks
<1>17. StopReasonExplainsFinal'
  BY <1>8 DEF StopReasonExplainsFinal
<1>18. Summed'
  BY <1>1 DEF Summed, Tokens
<1> QED BY <1>18, <1>9, <1>10, <1>12, <1>13, <1>14, <1>15, <1>16, <1>17 DEF IInv

LEMMA AbsorbStep ==
    ASSUME IInv, Absorb
    PROVE  IInv'
<1> DEFINE L == Len(messages)
           H == Len(run.history)
           K == Len(steps)
           Step2 == [at : Nat, tokens : Nat]
<1>1. Types /\ Kept /\ Paired /\ Waiting /\ Answering /\ Marked /\ Continues /\ Summed
  BY DEF IInv
<1>2. PICK calls \in Seq(Call), tokens \in Nat, bytes \in Nat :
        /\ messages' = Append(messages, Assistant(calls, bytes))
        /\ Assistant(calls, bytes) \in Message
        /\ usage' = usage + tokens
        /\ steps' = Append(steps, [at |-> Len(messages) + 1, tokens |-> tokens])
        /\ IF calls = <<>>
           THEN Finalize("completed", messages')
           ELSE phase' = "tools" /\ UNCHANGED <<ending, final>>
  BY <1>1, AbsorbFacts
<1>3. PICK m \in Message : m = Assistant(calls, bytes)
  BY <1>2
<1>4. m.role = "assistant" /\ m.calls = calls /\ Len(calls) \in Nat
  BY <1>3 DEF Assistant
<1>5. /\ messages' \in Seq(Message) /\ L \in Nat /\ H \in Nat
      /\ Len(messages') = L + 1
      /\ messages'[L + 1] = m
      /\ \A i \in 1..L : messages'[i] = messages[i]
  BY <1>1, <1>2, <1>3, Appended, MessageTypes DEF Types
<1>6. PICK st \in Step2 : st = [at |-> L + 1, tokens |-> tokens]
  <2>1. L + 1 \in Nat
    BY <1>5
  <2>2. [at |-> L + 1, tokens |-> tokens] \in Step2
    BY <2>1
  <2> HIDE DEF Step2
  <2> QED BY <2>2
<1>7. /\ steps' \in Seq(Step2) /\ K \in Nat
      /\ Len(steps') = K + 1
      /\ steps'[K + 1] = st /\ st.at = L + 1
      /\ \A k \in 1..K : steps'[k] = steps[k]
  BY <1>1, <1>2, <1>6, Appended DEF Types
<1>8. phase = "turn" /\ ending = "running" /\ run' = run /\ expired' = expired /\ next' = 1
  BY <1>1 DEF Types, Absorb
<1>9. /\ Own = (H + 1)..L
      /\ Own' = (H + 1)..(L + 1)
      /\ H <= L
      /\ \A i \in Own : messages'[i] = messages[i] /\ i \in 1..L /\ i \in Own'
                       /\ Len(messages[i].calls) \in Nat
  BY <1>1, <1>5, <1>8, MessageTypes DEF Own, Kept
<1>10. \A i \in Own : messages[i].role = "assistant" =>
         i + Len(messages[i].calls) <= L /\ messages[i].calls # <<>>
  BY <1>1, <1>8 DEF Waiting, Speaks, Complete, Continues
<1>11. \/ /\ calls = <<>>
          /\ phase' = "done" /\ ending' = "completed" /\ final' = LastAssistant(messages')
       \/ /\ calls # <<>>
          /\ phase' = "tools" /\ ending' = "running"
  BY <1>2, <1>8 DEF Finalize
<1> HIDE DEF L, H, K
<1>12. ASSUME NEW i \in Own'
       PROVE  i = L + 1 \/ i \in Own
  BY <1>5, <1>9
<1>13. Types'
  BY <1>1, <1>2, <1>5, <1>7, <1>8, <1>11 DEF Types, Endings
<1>14. Kept'
  BY <1>1, <1>5, <1>8 DEF Kept, H, L
<1>15. Paired'
  <2> SUFFICES ASSUME NEW i \in Own', messages'[i].role = "assistant",
                      NEW n \in 1..Len(messages'[i].calls), i + n <= L + 1
               PROVE  /\ messages'[i + n].role = "tool"
                      /\ messages'[i + n].call_id = messages'[i].calls[n].id
    BY <1>5 DEF Paired, Speaks
  <2>1. n \in Int /\ n > 0
    OBVIOUS
  <2>2. i \in Own
    BY <1>5, <1>12, <2>1
  <2>3. messages'[i] = messages[i] /\ Len(messages[i].calls) \in Nat /\ i \in 1..L
    BY <1>9, <2>2
  <2>4. i + Len(messages[i].calls) <= L /\ n <= Len(messages[i].calls)
    BY <1>10, <2>2, <2>3
  <2>5. i + n <= L /\ i + n \in 1..L
    BY <1>5, <2>1, <2>3, <2>4
  <2>6. /\ messages[i + n].role = "tool"
        /\ messages[i + n].call_id = messages[i].calls[n].id
    BY <1>1, <2>2, <2>3, <2>5 DEF Paired, Speaks, L
  <2> QED BY <1>5, <2>3, <2>5, <2>6
<1>16. \A i \in Own : messages'[i].role = "assistant" =>
         i + Len(messages'[i].calls) <= L + 1
  <2> SUFFICES ASSUME NEW i \in Own, messages'[i].role = "assistant"
               PROVE  i + Len(messages'[i].calls) <= L + 1
    OBVIOUS
  <2>1. messages'[i] = messages[i] /\ Len(messages[i].calls) \in Nat /\ i \in 1..L
    BY <1>9
  <2>2. i + Len(messages[i].calls) <= L
    BY <1>10, <2>1
  <2> QED BY <1>5, <2>1, <2>2
<1>17. Waiting'
  <2>1. CASE calls # <<>>
    <3>1. phase' = "tools"
      BY <1>11, <2>1
    <3>2. Asker' = L + 1
      BY <1>5, <1>8 DEF Asker
    <3>3. 1 <= Len(calls)
      BY <1>4, <2>1
    <3>4. L + 1 \in Own'
      BY <1>5, <1>9
    <3> QED BY <1>4, <1>5, <1>8, <1>12, <1>16, <3>1, <3>2, <3>3, <3>4
        DEF Waiting, Speaks, Complete
  <2>2. CASE calls = <<>>
    <3>1. phase' = "done"
      BY <1>11, <2>2
    <3>2. L + 1 + Len(messages'[L + 1].calls) <= L + 1
      <4>1. Len(calls) = 0
        BY <2>2
      <4>2. messages'[L + 1].calls = calls
        BY <1>4, <1>5
      <4>3. L + 1 + 0 <= L + 1
        BY <1>5
      <4> QED BY <4>1, <4>2, <4>3
    <3> QED BY <1>5, <1>12, <1>16, <3>1, <3>2 DEF Waiting, Speaks, Complete
  <2> QED BY <2>1, <2>2
<1>18. Answering'
  <2> SUFFICES ASSUME NEW i \in Own', messages'[i].role = "tool"
               PROVE  \E asker \in Own' :
                        /\ asker < i /\ i <= asker + Len(messages'[asker].calls)
                        /\ \A j \in (asker + 1)..i : messages'[j].role = "tool"
    BY DEF Answering
  <2>1. i \in Own /\ messages'[i] = messages[i] /\ i \in 1..L
    BY <1>4, <1>5, <1>9, <1>12
  <2>2. PICK asker \in Own :
          /\ asker < i /\ i <= asker + Len(messages[asker].calls)
          /\ \A j \in (asker + 1)..i : messages[j].role = "tool"
    BY <1>1, <2>1 DEF Answering
  <2>3. asker \in 1..L /\ messages'[asker] = messages[asker] /\ asker \in Own'
    BY <1>9
  <2>4. \A j \in (asker + 1)..i : messages'[j] = messages[j]
    BY <1>5, <2>1, <2>3
  <2> QED BY <2>2, <2>3, <2>4
<1>19. Marked'
  <2>1. ASSUME NEW k \in 1..(K + 1)
        PROVE  /\ steps'[k].at \in Own' /\ messages'[steps'[k].at].role = "assistant"
               /\ k \in 1..K => steps'[k].at = steps[k].at /\ steps'[k].at \in Own
               /\ k = K + 1 => steps'[k].at = L + 1
    <3>1. CASE k \in 1..K
      <4>1. steps[k].at \in Own /\ messages[steps[k].at].role = "assistant"
        BY <1>1, <3>1 DEF Marked, Speaks, K
      <4> QED BY <1>7, <1>9, <3>1, <4>1
    <3>2. CASE k = K + 1
      <4>1. L + 1 \in Own'
        BY <1>5, <1>9
      <4> QED BY <1>4, <1>5, <1>7, <3>2, <4>1
    <3> QED BY <1>7, <3>1, <3>2
  <2>2. ASSUME NEW i \in 1..(K + 1), NEW j \in 1..(K + 1), i < j
        PROVE  steps'[i].at < steps'[j].at
    <3>1. i \in 1..K
      BY <1>7, <2>2
    <3>2. CASE j \in 1..K
      BY <1>1, <2>1, <2>2, <3>1, <3>2 DEF Marked, K
    <3>3. CASE j = K + 1
      <4>1. steps'[i].at \in Own /\ steps'[j].at = L + 1
        BY <2>1, <3>1, <3>3
      <4> QED BY <1>5, <1>9, <4>1
    <3> QED BY <1>7, <3>2, <3>3
  <2>3. ASSUME NEW i \in Own', messages'[i].role = "assistant"
        PROVE  \E k \in 1..(K + 1) : steps'[k].at = i
    <3>1. CASE i = L + 1
      BY <1>7, <3>1
    <3>2. CASE i \in Own
      <4>1. messages[i].role = "assistant"
        BY <1>9, <2>3, <3>2
      <4>2. PICK k \in 1..K : steps[k].at = i
        BY <1>1, <3>2, <4>1 DEF Marked, Speaks, K
      <4>3. k \in 1..(K + 1)
        BY <1>7
      <4> QED BY <1>7, <4>2, <4>3
    <3> QED BY <1>12, <3>1, <3>2
  <2> QED BY <1>7, <2>1, <2>2, <2>3 DEF Marked, Speaks
<1>20. Continues'
  <2>1. K < MaxIterations
    BY <1>1, <1>8 DEF Continues, K
  <2>2. Len(steps') <= MaxIterations
    BY <1>7, <2>1, LoopAssumption
  <2>3. ASSUME phase' # "done", NEW i \in Own', messages'[i].role = "assistant"
        PROVE  messages'[i].calls # <<>>
    BY <1>4, <1>5, <1>9, <1>10, <1>11, <1>12, <2>3
  <2>4. phase' # "turn"
    BY <1>11
  <2> QED BY <2>2, <2>3, <2>4 DEF Continues, Speaks
<1>21. StopReasonExplainsFinal'
  <2>1. CASE ending' = "completed"
    <3>1. calls = <<>> /\ final' = LastAssistant(messages')
      BY <1>11, <2>1
    <3>2. LastAssistant(messages') = L + 1
      <4>1. L + 1 \in 1..Len(messages') /\ (L + 1 + 1)..Len(messages') = {}
        BY <1>5
      <4> QED BY <1>4, <1>5, <4>1, LastAssistantIs
    <3>3. final' = Len(messages') /\ final' \in Own' /\ messages'[final'].calls = <<>>
      BY <1>4, <1>5, <1>9, <3>1, <3>2
    <3> QED BY <2>1, <3>3 DEF StopReasonExplainsFinal
  <2>2. CASE ending' = "running"
    BY <2>2 DEF StopReasonExplainsFinal
  <2> QED BY <1>11, <2>1, <2>2
<1>22. Summed'
  <2> DEFINE f == [k \in 1..K |-> steps[k].tokens]
             g == [k \in 1..(K + 1) |-> steps'[k].tokens]
  <2>1. Tokens = f /\ Tokens' = g
    BY <1>7 DEF Tokens, K
  <2>2. \A k \in 1..K : steps[k] \in Step2
    BY <1>1, ElementOfSeq DEF Types, K
  <2>3. \A k \in 1..K : f[k] \in Int /\ g[k] = f[k]
    <3> TAKE k \in 1..K
    <3>1. k \in 1..(K + 1)
      BY <1>7
    <3> QED BY <1>7, <2>2, <3>1
  <2>4. K + 1 \in 1..(K + 1) /\ st.tokens = tokens
    BY <1>6, <1>7
  <2>5. g[K + 1] = tokens
    BY <1>7, <2>4
  <2>6. DOMAIN f = 1..K /\ DOMAIN g = 1..(K + 1) /\ g[K + 1] \in Int
    BY <2>5
  <2> HIDE DEF f, g
  <2>7. SumFunction(g) = SumFunction(f) + g[K + 1]
    BY <1>7, <2>3, <2>6, SumLonger
  <2>8. SumFunction(Tokens)' = SumFunction(g)
    BY <2>1
  <2> QED BY <1>1, <1>2, <2>1, <2>5, <2>7, <2>8 DEF Summed
<1> QED BY <1>13, <1>14, <1>15, <1>17, <1>18, <1>19, <1>20, <1>21, <1>22 DEF IInv

(* A step that leaves the transcript alone and stays outside the tools. *)
LEMMA SameTranscript ==
    ASSUME IInv, UNCHANGED <<run, messages, usage, steps, next>>,
           expired' \in BOOLEAN,
           phase # "tools", phase # "done",
           \/ /\ phase' \in {"head", "turn"} /\ ending' = ending
              /\ phase' = "turn" => Len(steps) < MaxIterations
           \/ /\ phase' = "done"
              /\ ending' \in {"max_iterations", "deadline", "raised", "cancelled"},
           StopReasonExplainsFinal'
    PROVE  IInv'
<1>1. Types /\ Kept /\ Paired /\ Waiting /\ Answering /\ Marked /\ Continues /\ Summed
  BY DEF IInv
<1>2. run' = run /\ messages' = messages /\ steps' = steps /\ usage' = usage /\ next' = next
  OBVIOUS
<1>3. Own' = Own
  BY <1>2 DEF Own
<1>4. Types'
  BY <1>1, <1>2 DEF Types, Endings
<1>5. Kept' /\ Paired' /\ Answering' /\ Marked'
  BY <1>1, <1>2, <1>3 DEF Kept, Paired, Answering, Marked, Speaks
<1>6. Waiting'
  <2>1. ending # "cancelled"
    BY <1>1 DEF Types
  <2>2. phase' # "tools"
    OBVIOUS
  <2> QED BY <1>1, <1>2, <1>3, <2>1, <2>2 DEF Waiting, Speaks, Complete
<1>7. Continues' /\ Summed'
  BY <1>1, <1>2, <1>3 DEF Continues, Speaks, Summed, Tokens
<1> QED BY <1>4, <1>5, <1>6, <1>7 DEF IInv

(* What _finalize hands out when the loop stops between two turns. *)
LEMMA LatestAnswer ==
    ASSUME IInv, phase = "head"
    PROVE  IF steps = <<>> THEN LastAssistant(messages) \notin Own
           ELSE /\ LastAssistant(messages) = steps[Len(steps)].at
                /\ messages[LastAssistant(messages)].calls # <<>>
<1> DEFINE L == Len(messages)
           K == Len(steps)
<1>1. Types /\ Marked /\ Continues
  BY DEF IInv
<1>2. /\ messages \in Seq(Message) /\ L \in Nat /\ Len(run.history) \in Nat
      /\ Own = (Len(run.history) + 1)..L
  BY <1>1, MessageTypes DEF Types, Own
<1>3. steps \in Seq([at : Nat, tokens : Nat]) /\ K \in Nat
  BY <1>1 DEF Types
<1>4. ASSUME steps = <<>>
      PROVE  LastAssistant(messages) \notin Own
  <2>1. \A i \in Own : messages[i].role # "assistant"
    <3>1. K = 0
      BY <1>4
    <3>2. 1..K = {}
      BY <3>1
    <3> QED BY <1>1, <3>2 DEF Marked, Speaks
  <2>2. 0 \notin Own
    BY <1>2
  <2> QED BY <1>2, <2>1, <2>2, LastAssistantFinds
<1>5. ASSUME steps # <<>>
      PROVE  /\ LastAssistant(messages) = steps[K].at
             /\ messages[LastAssistant(messages)].calls # <<>>
  <2>1. K \in 1..K
    BY <1>3, <1>5, EmptySeq
  <2>2. PICK b \in Own : b = steps[K].at /\ messages[b].role = "assistant"
    BY <1>1, <2>1 DEF Marked, Speaks
  <2>3. b \in 1..L /\ b \in Nat
    BY <1>2
  <2>4. ASSUME NEW j \in (b + 1)..L, messages[j].role = "assistant"
        PROVE  FALSE
    <3>1. j \in Own /\ b < j
      BY <1>2, <2>3
    <3>2. PICK k \in 1..K : steps[k].at = j
      BY <1>1, <2>4, <3>1 DEF Marked, Speaks
    <3>3. k < K \/ k = K
      BY <1>3
    <3>4. CASE k < K
      <4>1. steps[k].at < steps[K].at
        BY <1>1, <2>1, <3>4 DEF Marked
      <4> QED BY <2>2, <2>3, <3>1, <3>2, <4>1
    <3>5. CASE k = K
      BY <2>2, <2>3, <3>1, <3>2, <3>5
    <3> QED BY <3>3, <3>4, <3>5
  <2>5. LastAssistant(messages) = b
    BY <1>2, <2>2, <2>3, <2>4, LastAssistantIs
  <2>6. messages[b].calls # <<>>
    BY <1>1, <2>2 DEF Continues, Speaks
  <2> QED BY <2>2, <2>5, <2>6
<1> QED BY <1>4, <1>5

LEMMA HeadStep ==
    ASSUME IInv, StopsAtCeiling \/ StopsAtDeadline \/ BeginsTurn \/ TurnRejected
    PROVE  IInv'
<1>1. /\ phase = "head" /\ UNCHANGED <<run, messages, usage, steps, next>>
      /\ expired' = expired
  BY DEF StopsAtCeiling, StopsAtDeadline, BeginsTurn, TurnRejected, loopVars
<1>2. Types /\ Continues /\ ending = "running" /\ expired' \in BOOLEAN
  BY <1>1 DEF IInv, Types
<1>3. Own' = Own /\ PastDeadline' = PastDeadline
  BY <1>1 DEF Own, PastDeadline
<1>4. CASE StopsAtCeiling
  <2>1. /\ phase' = "done" /\ ending' = "max_iterations"
        /\ final' = LastAssistant(messages) /\ Len(steps) = MaxIterations
    BY <1>4 DEF StopsAtCeiling, Finalize, CeilingReached
  <2>2. StopReasonExplainsFinal'
    BY <1>1, <1>3, <2>1, LatestAnswer DEF StopReasonExplainsFinal
  <2> QED BY <1>1, <1>2, <2>1, <2>2, SameTranscript
<1>5. CASE StopsAtDeadline
  <2>1. /\ phase' = "done" /\ ending' = "deadline"
        /\ final' = LastAssistant(messages) /\ PastDeadline
    BY <1>5 DEF StopsAtDeadline, Finalize
  <2>2. StopReasonExplainsFinal'
    BY <1>1, <1>3, <2>1, LatestAnswer DEF StopReasonExplainsFinal
  <2> QED BY <1>1, <1>2, <2>1, <2>2, SameTranscript
<1>6. CASE BeginsTurn
  <2>1. phase' = "turn" /\ ending' = ending /\ Len(steps) # MaxIterations
    BY <1>6 DEF BeginsTurn, CeilingReached
  <2>2. Len(steps) < MaxIterations
    <3>1. Len(steps) \in Nat /\ Len(steps) <= MaxIterations
      BY <1>2 DEF Types, Continues
    <3> QED BY <2>1, <3>1, LoopAssumption
  <2>3. StopReasonExplainsFinal'
    BY <1>2, <2>1 DEF StopReasonExplainsFinal
  <2> QED BY <1>1, <1>2, <2>1, <2>2, <2>3, SameTranscript
<1>7. CASE TurnRejected
  <2>1. phase' = "done" /\ ending' = "raised"
    BY <1>7 DEF TurnRejected, Unwind
  <2>2. StopReasonExplainsFinal'
    BY <2>1 DEF StopReasonExplainsFinal
  <2> QED BY <1>1, <1>2, <2>1, <2>2, SameTranscript
<1> QED BY <1>4, <1>5, <1>6, <1>7

LEMMA TurnStep ==
    ASSUME IInv, InTurn \/ TurnRaises
    PROVE  IInv'
<1>1. /\ phase = "turn" /\ UNCHANGED <<run, messages, usage, steps, next>>
      /\ expired' = expired
  BY DEF InTurn, TurnRaises, loopVars
<1>2. Types /\ Continues /\ ending = "running" /\ expired' \in BOOLEAN
  BY <1>1 DEF IInv, Types
<1>3. CASE InTurn
  <2>1. phase' = "turn" /\ ending' = ending /\ Len(steps) < MaxIterations
    BY <1>1, <1>2, <1>3 DEF InTurn, Continues
  <2>2. StopReasonExplainsFinal'
    BY <1>2, <2>1 DEF StopReasonExplainsFinal
  <2> QED BY <1>1, <1>2, <2>1, <2>2, SameTranscript
<1>4. CASE TurnRaises
  <2>1. phase' = "done" /\ ending' = "raised"
    BY <1>4 DEF TurnRaises, Unwind
  <2>2. StopReasonExplainsFinal'
    BY <2>1 DEF StopReasonExplainsFinal
  <2> QED BY <1>1, <1>2, <2>1, <2>2, SameTranscript
<1> QED BY <1>3, <1>4

LEMMA CancelStep ==
    ASSUME IInv, Cancel
    PROVE  IInv'
<1>1. /\ UNCHANGED <<run, messages, usage, steps, next>> /\ expired' = expired
      /\ phase' = "done" /\ ending' = "cancelled"
  BY DEF Cancel, Unwind, loopVars
<1>2. Types /\ Kept /\ Paired /\ Waiting /\ Answering /\ Marked /\ Continues /\ Summed
  BY DEF IInv
<1>3. Own' = Own
  BY <1>1 DEF Own
<1>4. Types'
  BY <1>1, <1>2 DEF Types, Endings
<1>5. Kept' /\ Paired' /\ Answering' /\ Marked'
  BY <1>1, <1>2, <1>3 DEF Kept, Paired, Answering, Marked, Speaks
<1>6. Waiting'
  BY <1>1 DEF Waiting
<1>7. Continues' /\ Summed'
  BY <1>1, <1>2 DEF Continues, Summed, Tokens
<1>8. StopReasonExplainsFinal'
  BY <1>1 DEF StopReasonExplainsFinal
<1> QED BY <1>4, <1>5, <1>6, <1>7, <1>8 DEF IInv

LEMMA ExpireStep ==
    ASSUME IInv, Expire
    PROVE  IInv'
<1>1. /\ UNCHANGED <<run, messages, usage, steps, next, phase, ending, final>>
      /\ expired' = TRUE /\ phase # "done"
  BY DEF Expire, loopVars
<1>2. Types /\ Kept /\ Paired /\ Waiting /\ Answering /\ Marked /\ Continues /\ Summed
  BY DEF IInv
<1>3. Own' = Own /\ Asker' = Asker
  BY <1>1 DEF Own, Asker
<1>4. Types'
  BY <1>1, <1>2 DEF Types, Endings
<1>5. Kept' /\ Paired' /\ Answering' /\ Marked' /\ Continues' /\ Summed'
  BY <1>1, <1>2, <1>3 DEF Kept, Paired, Answering, Marked, Continues, Speaks, Summed, Tokens
<1>6. Waiting'
  BY <1>1, <1>2, <1>3 DEF Waiting, Speaks, Complete
<1>7. StopReasonExplainsFinal'
  <2>1. ending' = "running"
    BY <1>1, <1>2 DEF Types
  <2> QED BY <2>1 DEF StopReasonExplainsFinal
<1> QED BY <1>4, <1>5, <1>6, <1>7 DEF IInv

LEMMA InvInit == Init => IInv
<1> SUFFICES ASSUME Init
             PROVE  IInv
  OBVIOUS
<1>1. /\ run \in Run /\ messages = run.history /\ steps = <<>> /\ usage = 0 /\ next = 1
      /\ phase = "head" /\ ending = "running" /\ expired = FALSE
  BY DEF Init
<1>2. messages \in Seq(Message) /\ Len(messages) \in Nat /\ MaxIterations \in Nat
  BY <1>1, LoopAssumption DEF Run
<1>3. Own = {}
  BY <1>1, <1>2 DEF Own
<1>4. Types
  <2> DEFINE S == [at : Nat, tokens : Nat]
  <2>1. steps \in Seq(S)
    <3> HIDE DEF S
    <3> QED BY <1>1, EmptySeq
  <2>2. usage \in Nat /\ next \in Nat \ {0}
    BY <1>1
  <2>3. /\ phase \in {"head", "turn", "tools", "done"} /\ ending \in Endings
        /\ (phase = "done") <=> (ending # "running")
    BY <1>1 DEF Endings
  <2>4. expired \in BOOLEAN
    BY <1>1, Zenon
  <2> QED BY <1>1, <1>2, <2>1, <2>2, <2>3, <2>4 DEF Types
<1>5. Kept /\ Paired /\ Waiting /\ Answering
  BY <1>1, <1>2, <1>3 DEF Kept, Paired, Waiting, Answering
<1>6. Len(steps) = 0 /\ 1..Len(steps) = {}
  BY <1>1
<1>7. Marked /\ Continues
  BY <1>1, <1>2, <1>3, <1>6 DEF Marked, Continues
<1>8. StopReasonExplainsFinal
  BY <1>1 DEF StopReasonExplainsFinal
<1>9. Summed
  <2>1. SumFunction(Tokens) = SumFunctionOnSet(Tokens, 1..Len(steps))
    BY DEF SumFunction, Tokens
  <2> QED BY <1>1, <1>6, <2>1, SumEmpty DEF Summed
<1> QED BY <1>4, <1>5, <1>7, <1>8, <1>9 DEF IInv

LEMMA InvNext == IInv /\ [Next]_vars => IInv'
<1> SUFFICES ASSUME IInv, [Next]_vars
             PROVE  IInv'
  OBVIOUS
<1>1. CASE StopsAtCeiling \/ StopsAtDeadline \/ BeginsTurn \/ TurnRejected
  BY <1>1, HeadStep
<1>2. CASE InTurn \/ TurnRaises
  BY <1>2, TurnStep
<1>3. CASE Absorb
  BY <1>3, AbsorbStep
<1>4. CASE ToolRuns
  <2>1. PICK failed \in BOOLEAN : Answer(failed)
    BY <1>4 DEF ToolRuns
  <2>2. /\ phase = "tools"
        /\ UNCHANGED <<run, usage, steps, ending, final, expired>>
    BY <1>4 DEF ToolRuns
  <2> QED BY <2>1, <2>2, AnswerStep
<1>5. CASE ToolUnusable
  <2>1. /\ phase = "tools" /\ Answer(TRUE) /\ TRUE \in BOOLEAN
        /\ UNCHANGED <<run, usage, steps, ending, final, expired>>
    BY <1>5 DEF ToolUnusable
  <2> QED BY <2>1, AnswerStep
<1>6. CASE Cancel
  BY <1>6, CancelStep
<1>7. CASE Expire
  BY <1>7, ExpireStep
<1>8. CASE UNCHANGED vars
  <2>1. /\ UNCHANGED <<run, messages, usage, steps, next, phase, ending, final, expired>>
    BY <1>8 DEF vars
  <2>2. Own' = Own /\ Asker' = Asker /\ PastDeadline' = PastDeadline
    BY <2>1 DEF Own, Asker, PastDeadline
  <2>3. Types' /\ Kept' /\ Paired' /\ Answering' /\ Marked' /\ Continues'
    BY <2>1, <2>2 DEF IInv, Types, Kept, Paired, Answering, Marked, Continues, Speaks
  <2>6. Summed'
    BY <2>1 DEF IInv, Summed, Tokens
  <2>4. Waiting'
    BY <2>1, <2>2 DEF IInv, Waiting, Speaks, Complete
  <2>5. StopReasonExplainsFinal'
    BY <2>1, <2>2 DEF IInv, StopReasonExplainsFinal
  <2> QED BY <2>3, <2>4, <2>5, <2>6 DEF IInv
<1> QED BY <1>1, <1>2, <1>3, <1>4, <1>5, <1>6, <1>7, <1>8 DEF Next, Step

LEMMA Invariance == Spec => []IInv
<1>1. Init => IInv
  BY InvInit
<1>2. IInv /\ [Next]_vars => IInv'
  BY InvNext
<1> QED BY <1>1, <1>2, PTL DEF Spec

-------------------------------------------------------------------------------
(* Theorems *)

(* The history a caller hands over stays in front, and every tool call of an    *)
(* answer gets its one result in order before the model speaks again            *)
(* (AgentLoop._execute_tools), for any answers, tools, ids and sizes.           *)
THEOREM TranscriptWellFormed == Spec => []CallsAnsweredInOrder
<1>1. IInv => CallsAnsweredInOrder
  <2> SUFFICES ASSUME IInv
               PROVE  CallsAnsweredInOrder
    OBVIOUS
  <2>1. Types /\ Kept /\ Paired /\ Waiting /\ Answering
    BY DEF IInv
  <2>2. IsPrefix(run.history, messages)
    <3>1. /\ run.history \in Seq(Message) /\ messages \in Seq(Message)
          /\ Len(run.history) \in Nat /\ Len(messages) \in Nat
          /\ Len(run.history) <= Len(messages)
      BY <2>1, MessageTypes DEF Types, Kept
    <3>2. \A i \in 1..Len(run.history) : messages[i] = run.history[i]
      BY <2>1 DEF Kept
    <3>3. SubSeq(run.history, 1, Len(run.history)) = SubSeq(messages, 1, Len(run.history))
      BY <3>1, <3>2
    <3> QED BY <3>1, <3>3 DEF IsPrefix
  <2>3. ASSUME NEW i \in Own, messages[i].role = "assistant",
               NEW n \in 1..Len(messages[i].calls)
        PROVE  IF i + n <= Len(messages)
               THEN /\ messages[i + n].role = "tool"
                    /\ messages[i + n].call_id = messages[i].calls[n].id
               ELSE phase = "tools" \/ ending = "cancelled"
    <3>1. CASE i + n <= Len(messages)
      BY <2>1, <2>3, <3>1 DEF Paired, Speaks
    <3>2. CASE ~(i + n <= Len(messages))
      <4>1. /\ i \in 1..Len(messages) /\ Len(messages) \in Nat
            /\ Len(messages[i].calls) \in Nat
        BY <2>1, MessageTypes
      <4>2. ~Complete(i)
        BY <3>2, <4>1 DEF Complete
      <4> QED BY <2>1, <2>3, <3>2, <4>2 DEF Waiting, Speaks
    <3> QED BY <3>1, <3>2
  <2> QED BY <2>1, <2>2, <2>3 DEF CallsAnsweredInOrder, Answering
<1> QED BY <1>1, Invariance, PTL

(* A run never makes more than max_iterations turns, its steps are its own      *)
(* answers in their order, and RunResult.usage is the sum of theirs             *)
(* (AgentLoop._absorb).                                                         *)
THEOREM StepsCorrect == Spec => []StepsAccountForRun
<1>1. IInv => StepsAccountForRun
  <2> SUFFICES ASSUME IInv
               PROVE  StepsAccountForRun
    OBVIOUS
  <2>1. Types /\ Marked /\ Continues /\ Summed
    BY DEF IInv
  <2>2. {steps[i].at : i \in 1..Len(steps)} = {i \in Own : messages[i].role = "assistant"}
    BY <2>1 DEF Marked, Speaks
  <2> QED BY <2>1, <2>2 DEF StepsAccountForRun, Marked, Continues, Summed, Tokens
<1> QED BY <1>1, Invariance, PTL

(* What RunResult.final_message and stop_reason say of a run is true of its     *)
(* transcript, whichever way it ended.                                          *)
THEOREM StopReasonCorrect == Spec => []StopReasonExplainsFinal
<1>1. IInv => StopReasonExplainsFinal
  BY DEF IInv
<1> QED BY <1>1, Invariance, PTL

-------------------------------------------------------------------------------
(* Where results arrive *)

(* In a transcript t the message at i is the result of a call that a asked for: *)
(* between them are only results, one for each earlier call.                    *)
ResultOf(t, a, i) ==
    /\ t[a].role = "assistant"
    /\ i - a <= Len(t[a].calls)
    /\ t[i].call_id = t[a].calls[i - a].id
    /\ Distinct(t[a].calls)
    /\ \A j \in (a + 1)..i : t[j].role = "tool" /\ t[j].calls = <<>>

WellPaired(t) ==
    \A i \in 1..Len(t) : t[i].role = "tool" => \E a \in 1..(i - 1) : ResultOf(t, a, i)

(* A run adds answers and results.  Results ask for nothing, and no answer asks *)
(* twice under one id.                                                          *)
Tidy ==
    \A i \in Own : /\ Distinct(messages[i].calls)
                   /\ \/ messages[i].role = "assistant"
                      \/ messages[i].role = "tool" /\ messages[i].calls = <<>>

LEMMA TidyInit == Init => Tidy
<1> SUFFICES ASSUME Init
             PROVE  Tidy
  OBVIOUS
<1>1. Len(messages) \in Nat /\ messages = run.history
  BY LoopAssumption DEF Init, Run
<1> QED BY <1>1 DEF Tidy, Own

(* A step that says nothing changes nothing of that, one message more must be   *)
(* like the others.                                                             *)
LEMMA TidyGrows ==
    ASSUME Types, Tidy, NEW m \in Message, messages' = Append(messages, m), run' = run,
           Distinct(m.calls), m.role = "assistant" \/ (m.role = "tool" /\ m.calls = <<>>)
    PROVE  Tidy'
<1>1. /\ Len(messages) \in Nat /\ Len(run.history) \in Nat /\ messages \in Seq(Message)
  BY MessageTypes DEF Types
<1>2. /\ Len(messages') = Len(messages) + 1
      /\ messages'[Len(messages) + 1] = m
      /\ \A i \in 1..Len(messages) : messages'[i] = messages[i]
  BY <1>1
<1>3. ASSUME NEW i \in Own'
      PROVE  /\ Distinct(messages'[i].calls)
             /\ \/ messages'[i].role = "assistant"
                \/ messages'[i].role = "tool" /\ messages'[i].calls = <<>>
  <2>1. CASE i = Len(messages) + 1
    BY <1>2, <2>1
  <2>2. CASE i # Len(messages) + 1
    <3>1. i \in Own /\ i \in 1..Len(messages)
      BY <1>1, <1>2, <1>3, <2>2 DEF Own
    <3> QED BY <1>2, <3>1 DEF Tidy
  <2> QED BY <2>1, <2>2
<1> QED BY <1>3 DEF Tidy

LEMMA TidyStep == IInv /\ Tidy /\ [Next]_vars => Tidy'
<1> SUFFICES ASSUME IInv, Tidy, [Next]_vars
             PROVE  Tidy'
  OBVIOUS
<1>1. Types /\ Paired /\ Waiting
  BY DEF IInv
<1>2. ASSUME UNCHANGED <<messages, run>>
      PROVE  Tidy'
  BY <1>2 DEF Tidy, Own
<1>3. CASE Absorb
  <2>1. PICK calls \in Seq(Call), bytes \in Nat :
          /\ Distinct(calls)
          /\ messages' = Append(messages, Assistant(calls, bytes))
          /\ Assistant(calls, bytes) \in Message
    BY <1>1, <1>3, AbsorbFacts
  <2>2. PICK m \in Message : m = Assistant(calls, bytes)
    BY <2>1
  <2>3. m.calls = calls /\ m.role = "assistant"
    BY <2>2 DEF Assistant
  <2>4. run' = run
    BY <1>3 DEF Absorb
  <2> QED BY <1>1, <2>1, <2>2, <2>3, <2>4, TidyGrows
<1>4. ASSUME phase = "tools", NEW failed \in BOOLEAN, Answer(failed), run' = run
      PROVE  Tidy'
  <2>1. PICK r \in Message :
          messages' = Append(messages, r) /\ r.role = "tool" /\ r.calls = <<>>
    BY <1>1, <1>4, AnswerFacts
  <2>2. Distinct(r.calls)
    BY <2>1 DEF Distinct
  <2> QED BY <1>1, <1>4, <2>1, <2>2, TidyGrows
<1>5. CASE ToolRuns
  BY <1>4, <1>5 DEF ToolRuns
<1>6. CASE ToolUnusable
  BY <1>4, <1>6 DEF ToolUnusable
<1>7. CASE \/ StopsAtCeiling \/ StopsAtDeadline \/ BeginsTurn \/ TurnRejected
           \/ InTurn \/ TurnRaises \/ Cancel \/ Expire \/ UNCHANGED vars
  BY <1>2, <1>7 DEF StopsAtCeiling, StopsAtDeadline, BeginsTurn, TurnRejected, InTurn,
     TurnRaises, Cancel, Expire, vars, loopVars
<1> QED BY <1>3, <1>5, <1>6, <1>7 DEF Next, Step

(* What a run adds is well paired, so the transcript is when the history was.   *)
LEMMA TranscriptPaired ==
    ASSUME IInv, Tidy, WellPaired(run.history)
    PROVE  WellPaired(messages)
<1> SUFFICES ASSUME NEW i \in 1..Len(messages), messages[i].role = "tool"
             PROVE  \E a \in 1..(i - 1) : ResultOf(messages, a, i)
  BY DEF WellPaired
<1>1. Types /\ Kept /\ Paired /\ Answering
  BY DEF IInv
<1>2. /\ Len(messages) \in Nat /\ Len(run.history) \in Nat
      /\ \A j \in Own : j \in 1..Len(messages) /\ Len(messages[j].calls) \in Nat
  BY <1>1, MessageTypes
<1>3. CASE i <= Len(run.history)
  <2>1. i \in 1..Len(run.history)
    BY <1>3
  <2>2. \A j \in 1..i : messages[j] = run.history[j]
    BY <1>1, <1>2, <1>3 DEF Kept
  <2>3. run.history[i].role = "tool"
    BY <2>2
  <2>4. PICK a \in 1..(i - 1) : ResultOf(run.history, a, i)
    BY <2>1, <2>3 DEF WellPaired
  <2>5. /\ messages[a] = run.history[a] /\ messages[i] = run.history[i]
        /\ \A j \in (a + 1)..i : messages[j] = run.history[j]
    BY <2>2
  <2>6. ResultOf(messages, a, i)
    BY <2>4, <2>5 DEF ResultOf
  <2> QED BY <2>6
<1>4. CASE ~(i <= Len(run.history))
  <2>1. i \in Own
    BY <1>2, <1>4 DEF Own
  <2>2. PICK a \in Own : /\ a < i /\ i <= a + Len(messages[a].calls)
                         /\ \A j \in (a + 1)..i : messages[j].role = "tool"
    BY <1>1, <2>1 DEF Answering
  <2>3. PICK c : c = messages[a].calls
    OBVIOUS
  <2>4. a \in 1..Len(messages) /\ Len(c) \in Nat /\ a < i /\ i <= a + Len(c)
    BY <1>2, <2>2, <2>3
  <2>5. PICK n : n = i - a
    OBVIOUS
  <2>6. a \in 1..(i - 1) /\ n \in 1..Len(c) /\ a + n = i
    BY <2>4, <2>5
  <2>7. c # <<>>
    BY <2>4
  <2>8. messages[a].role = "assistant" /\ Distinct(c)
    BY <2>2, <2>3, <2>7 DEF Tidy
  <2>9. messages[i].call_id = c[n].id
    <3>1. a \in Own /\ Speaks(a)
      BY <2>2, <2>8 DEF Speaks
    <3>2. \A k \in 1..Len(c) :
            a + k <= Len(messages) => messages[a + k].call_id = c[k].id
      BY <1>1, <2>3, <3>1 DEF Paired
    <3> QED BY <2>6, <3>2
  <2>10. ASSUME NEW j \in (a + 1)..i
         PROVE  messages[j].role = "tool" /\ messages[j].calls = <<>>
    <3>1. messages[j].role = "tool"
      BY <2>2
    <3>2. j \in Own
      BY <1>2, <2>2, <2>4 DEF Own
    <3> QED BY <3>1, <3>2 DEF Tidy
  <2>11. ResultOf(messages, a, i)
    BY <2>3, <2>5, <2>6, <2>8, <2>9, <2>10 DEF ResultOf
  <2> QED BY <2>6, <2>11
<1> QED BY <1>3, <1>4

(* Leaving out the system messages leaves a transcript well paired.             *)
LEMMA SpokenPaired ==
    ASSUME NEW t \in Seq(Message), WellPaired(t), NEW said, said = Spoken(t)
    PROVE  said \in Seq(Message) /\ WellPaired(said)
<1>1. PICK S : S = {m \in ToSet(t) : m.role # "system"}
  OBVIOUS
<1>2. said = Only(t, S)
  BY <1>1 DEF Spoken
<1>3. PICK P : P = {j \in DOMAIN t : t[j] \in S}
  OBVIOUS
<1>4. said \in Seq(Message)
  BY <1>2, <1>3, OnlyPlaces
<1>5. PICK at : Picks(at, said, t, P) /\ Ascends(at, Len(said))
  BY <1>2, <1>3, OnlyPlaces
<1>6. PICK n \in Nat : n = Len(said)
  BY <1>4
<1>7. /\ Len(t) \in Nat /\ P \in SUBSET Nat
      /\ \A j : j \in P <=> j \in 1..Len(t) /\ t[j].role # "system"
  <2>1. DOMAIN t = 1..Len(t) /\ Len(t) \in Nat
    OBVIOUS
  <2>2. \A j \in 1..Len(t) : t[j] \in ToSet(t)
    BY <2>1 DEF ToSet
  <2> QED BY <1>1, <1>3, <2>1, <2>2
<1>8. /\ at \in [1..n -> P] /\ Ascends(at, n)
      /\ \A k \in 1..n : said[k] = t[at[k]] /\ at[k] \in P
      /\ \A j \in P : \E k \in 1..n : at[k] = j
  BY <1>5, <1>6 DEF Picks
<1>9. ASSUME NEW i \in 1..n, said[i].role = "tool"
      PROVE  \E k \in 1..(i - 1) : ResultOf(said, k, i)
  <2>1. PICK p : p = at[i]
    OBVIOUS
  <2>2. p \in 1..Len(t) /\ t[p].role = "tool" /\ said[i] = t[p]
    BY <1>7, <1>8, <1>9, <2>1
  <2>3. PICK a \in 1..(p - 1) : ResultOf(t, a, p)
    BY <2>2 DEF WellPaired
  <2>4. a \in P
    BY <1>7, <2>2, <2>3 DEF ResultOf
  <2>5. PICK k \in 1..n : at[k] = a
    BY <1>8, <2>4
  <2>6. PICK d \in Nat : d = p - a
    BY <2>2
  <2>7. \A j \in a..(a + d) : j \in P
    <3> TAKE j \in a..(a + d)
    <3>1. CASE j = a
      BY <2>4, <3>1
    <3>2. CASE j # a
      <4>1. j \in (a + 1)..p /\ j \in 1..Len(t)
        BY <2>2, <2>6, <3>2
      <4> QED BY <1>7, <2>3, <4>1 DEF ResultOf
    <3> QED BY <3>1, <3>2
  <2>8. \A m \in 0..d : k + m \in 1..n /\ at[k + m] = a + m
    <3>1. Numbers(at, n, P) /\ Whole(P, a, d)
      BY <1>7, <1>8, <2>7 DEF Numbers, Whole
    <3>2. Follow(at, n, k, a, d)
      BY <2>5, <3>1, Consecutive
    <3> QED BY <3>2 DEF Follow
  <2>9. PICK l : l = k + d
    OBVIOUS
  <2>10. l \in 1..n /\ at[l] = at[i]
    <3>1. d \in 0..d /\ a + d = p
      BY <2>2, <2>6
    <3> QED BY <2>1, <2>8, <2>9, <3>1
  <2>11. l = i
    <3>1. at[l] \in Nat
      BY <1>7, <1>8, <2>10
    <3>2. ~(l < i) /\ ~(i < l)
      BY <1>8, <2>10, <3>1 DEF Ascends
    <3> QED BY <2>10, <3>2
  <2>12. k \in 1..(i - 1) /\ i - k = p - a
    BY <2>2, <2>6, <2>9, <2>11
  <2>13. said[k] = t[a]
    BY <1>8, <2>5
  <2>14. ASSUME NEW j \in (k + 1)..i
         PROVE  said[j].role = "tool" /\ said[j].calls = <<>>
    <3>1. PICK m : m = j - k
      OBVIOUS
    <3>2. m \in 0..d /\ k + m = j /\ a + m \in (a + 1)..p
      BY <2>2, <2>6, <2>9, <2>11, <3>1
    <3>3. j \in 1..n /\ at[j] = a + m
      BY <2>8, <3>2
    <3>4. said[j] = t[a + m]
      BY <1>8, <3>3
    <3> QED BY <2>3, <3>2, <3>4 DEF ResultOf
  <2>15. ResultOf(said, k, i)
    BY <2>2, <2>3, <2>12, <2>13, <2>14 DEF ResultOf
  <2> QED BY <2>12, <2>15
<1> QED BY <1>4, <1>6, <1>9 DEF WellPaired

(* The calls of seen are those of pre, then c. *)
EndsIn(seen, pre, c) == CallsOf(seen) = pre \o c

(* The last call under an id is the one of the latest list, when that list has  *)
(* it.                                                                          *)
LEMMA LatestCall ==
    ASSUME NEW seen, NEW pre \in Seq(Call), NEW c \in Seq(Call), EndsIn(seen, pre, c),
           Distinct(c), NEW n \in 1..Len(c), NEW id, id = c[n].id
    PROVE  NameOf(seen, id) = c[n].name
<1>0. PICK all : all = CallsOf(seen) /\ all = pre \o c
  BY DEF EndsIn
<1> DEFINE I == {i \in 1..Len(all) : all[i].id = id}
<1>1. PICK p \in Nat, q \in Nat : p = Len(pre) /\ q = Len(c)
  OBVIOUS
<1>2. Len(all) = p + q /\ \A k \in 1..q : all[p + k] = c[k] /\ p + k \in 1..(p + q)
  BY <1>0, <1>1
<1>3. PICK a : a = p + n
  OBVIOUS
<1>4. a \in I /\ a \in Nat /\ a # 0 /\ all[a] = c[n]
  BY <1>1, <1>2, <1>3
<1>5. ASSUME NEW i \in I
      PROVE  a >= i
  <2>1. CASE i <= p
    BY <1>1, <1>3, <2>1
  <2>2. CASE ~(i <= p)
    <3>1. PICK k : k = i - p
      OBVIOUS
    <3>2. k \in 1..q /\ p + k = i
      BY <1>2, <2>2, <3>1
    <3>3. c[k].id = c[n].id
      BY <1>2, <3>2
    <3>4. k = n
      BY <1>1, <3>2, <3>3 DEF Distinct
    <3> QED BY <1>3, <3>2, <3>4
  <2> QED BY <2>1, <2>2
<1>6. \A b \in I : (\A i \in I : b >= i) => b = a
  BY <1>2, <1>4, <1>5
<1>7. Max(I) = a
  <2> HIDE DEF I
  <2> QED BY <1>4, <1>5, <1>6 DEF Max
<1>8. NameOf(seen, id) = LET at == IF I # {} THEN Max(I) ELSE 0
                         IN  IF at = 0 THEN "call_id" ELSE all[at].name
  BY <1>0 DEF NameOf, SelectLastInSeq
<1>9. (IF I # {} THEN Max(I) ELSE 0) = a
  <2> HIDE DEF I
  <2> QED BY <1>4, <1>7
<1> HIDE DEF I
<1> QED BY <1>4, <1>8, <1>9

(* Gemini pairs by name: the name looked up for a result is its call's.         *)
LEMMA NameFound ==
    ASSUME NEW t \in Seq(Message), NEW i \in 1..Len(t), NEW a \in 1..(i - 1),
           ResultOf(t, a, i)
    PROVE  NameOf(SubSeq(t, 1, i - 1), t[i].call_id) = t[a].calls[i - a].name
<1>1. PICK seen, id : seen = SubSeq(t, 1, i - 1) /\ id = t[i].call_id
  OBVIOUS
<1>2. PICK c : c = t[a].calls
  OBVIOUS
<1>3. \A j \in 1..Len(t) : t[j].calls \in Seq(Call)
  <2>1. \A m \in Message : m.calls \in Seq(Call)
    BY DEF Message, Call
  <2> QED BY <2>1
<1>4. c \in Seq(Call) /\ Distinct(c)
  BY <1>2, <1>3 DEF ResultOf
<1>5. PICK n : n = i - a
  OBVIOUS
<1>6. n \in 1..Len(c) /\ id = c[n].id
  BY <1>1, <1>2, <1>4, <1>5 DEF ResultOf
<1>7. Len(seen) = i - 1 /\ \A j \in 1..(i - 1) : seen[j] = t[j]
  BY <1>1
<1>8. PICK lists : lists = [j \in 1..Len(seen) |-> seen[j].calls]
  OBVIOUS
<1>9. /\ lists \in Seq(Seq(Call)) /\ Len(lists) = i - 1
      /\ a \in 1..Len(lists) /\ lists[a] = c
      /\ \A j \in (a + 1)..Len(lists) : lists[j] = <<>>
  <2>1. PICK k \in Nat : k = i - 1
    OBVIOUS
  <2>2. lists = [j \in 1..k |-> t[j].calls]
    BY <1>7, <1>8, <2>1
  <2>3. \A j \in 1..k : t[j].calls \in Seq(Call)
    BY <1>3, <2>1
  <2>4. lists \in Seq(Seq(Call)) /\ Len(lists) = k
    <3> DEFINE C == Seq(Call)
    <3>1. \A j \in 1..k : t[j].calls \in C
      BY <2>3
    <3> HIDE DEF C
    <3>2. lists \in Seq(C) /\ Len(lists) = k
      BY <2>1, <2>2, <3>1
    <3> QED BY <3>2 DEF C
  <2>5. a \in 1..k /\ lists[a] = c
    BY <1>2, <2>1, <2>2
  <2>6. \A j \in (a + 1)..k : lists[j] = <<>>
    BY <2>1, <2>2 DEF ResultOf
  <2> QED BY <2>1, <2>4, <2>5, <2>6
<1>10. PICK pre \in Seq(Call) : FlattenSeq(lists) = pre \o c
  BY <1>9, FlattenEnds
<1>11. EndsIn(seen, pre, c)
  BY <1>8, <1>10 DEF CallsOf, EndsIn
<1>12. NameOf(seen, id) = c[n].name
  BY <1>4, <1>6, <1>11, LatestCall
<1> QED BY <1>1, <1>2, <1>5, <1>12

(* The wire is s in the vendor's words: an answer keeps its calls, a result     *)
(* says which call it answers, and nothing else claims to be one.               *)
Translates(vendor, s, wire) ==
    /\ Len(wire) = Len(s)
    /\ \A i \in 1..Len(s) :
         /\ wire[i].answers # <<>> => s[i].role = "tool"
         /\ s[i].role = "assistant" /\ s[i].calls # <<>> => wire[i].calls = s[i].calls
    /\ \A i \in 1..Len(s) : \A a \in 1..(i - 1) :
         s[i].role = "tool" /\ ResultOf(s, a, i) =>
           wire[i].answers = <<Pairing(vendor, s[a].calls[i - a])>>

(* What ResultsReachTheirCalls says of one vendor's wire. *)
Arrives(vendor, wire) ==
    \A i \in 1..Len(wire) : wire[i].answers # <<>> =>
      \E asker \in 1..(i - 1) :
        LET asked == wire[asker].calls
            n     == i - asker
        IN  /\ n <= Len(asked)
            /\ wire[i].answers = <<Pairing(vendor, asked[n])>>
            /\ vendor # "gemini" =>
                 \A m \in 1..Len(asked) : asked[m].id = asked[n].id => m = n

LEMMA TranslationArrives ==
    ASSUME NEW s \in Seq(Message), WellPaired(s), NEW vendor, NEW wire,
           Translates(vendor, s, wire)
    PROVE  Arrives(vendor, wire)
<1> SUFFICES ASSUME NEW i \in 1..Len(wire), wire[i].answers # <<>>
             PROVE  \E asker \in 1..(i - 1) :
                      LET asked == wire[asker].calls
                          n     == i - asker
                      IN  /\ n <= Len(asked)
                          /\ wire[i].answers = <<Pairing(vendor, asked[n])>>
                          /\ vendor # "gemini" =>
                               \A m \in 1..Len(asked) : asked[m].id = asked[n].id => m = n
  BY DEF Arrives
<1>1. i \in 1..Len(s) /\ s[i].role = "tool"
  BY DEF Translates
<1>2. PICK a \in 1..(i - 1) : ResultOf(s, a, i)
  BY <1>1 DEF WellPaired
<1>3. PICK c : c = s[a].calls
  OBVIOUS
<1>4. PICK n : n = i - a
  OBVIOUS
<1>5. a \in 1..Len(s) /\ n \in Nat \ {0}
  BY <1>1, <1>4
<1>6. c \in Seq(Call)
  <2>1. \A m \in Message : m.calls \in Seq(Call)
    BY DEF Message, Call
  <2> QED BY <1>3, <1>5, <2>1
<1>7. s[a].role = "assistant" /\ n <= Len(c) /\ Distinct(c)
  BY <1>2, <1>3, <1>4 DEF ResultOf
<1>8. c # <<>>
  BY <1>5, <1>7
<1>9. wire[a].calls = c
  BY <1>3, <1>5, <1>7, <1>8 DEF Translates
<1>10. wire[i].answers = <<Pairing(vendor, c[n])>>
  BY <1>1, <1>2, <1>3, <1>4 DEF Translates
<1>11. \A m \in 1..Len(c) : c[m].id = c[n].id => m = n
  BY <1>5, <1>6, <1>7 DEF Distinct
<1> QED BY <1>4, <1>7, <1>9, <1>10, <1>11

(* So each adapter's wire is (ToWire), for any well-paired transcript.          *)
LEMMA WireArrives ==
    ASSUME NEW t \in Seq(Message), WellPaired(t), NEW vendor \in Vendors
    PROVE  Arrives(vendor, ToWire(vendor, t))
<1>1. PICK said : said = Spoken(t)
  OBVIOUS
<1>2. said \in Seq(Message) /\ WellPaired(said)
  BY <1>1, SpokenPaired
<1>3. PICK wire : wire = ToWire(vendor, t)
  OBVIOUS
<1>4. CASE vendor = "openai"
  <2>1. wire = [i \in 1..Len(t) |-> ToOpenAIMessage(t[i])]
    BY <1>3, <1>4 DEF ToWire
  <2>2. PICK n \in Nat : n = Len(t)
    OBVIOUS
  <2>3. Len(wire) = n /\ \A i \in 1..n : wire[i] = ToOpenAIMessage(t[i])
    BY <2>1, <2>2
  <2>4. \A i \in 1..n : \A a \in 1..(i - 1) :
          t[i].role = "tool" /\ ResultOf(t, a, i) =>
            wire[i].answers = <<Pairing(vendor, t[a].calls[i - a])>>
    BY <1>4, <2>3 DEF ToOpenAIMessage, Entry, ResultOf, Pairing
  <2>5. \A i \in 1..n :
          /\ wire[i].answers # <<>> => t[i].role = "tool"
          /\ t[i].role = "assistant" /\ t[i].calls # <<>> => wire[i].calls = t[i].calls
    BY <2>3 DEF ToOpenAIMessage, Entry
  <2>6. Translates(vendor, t, wire)
    BY <2>2, <2>3, <2>4, <2>5 DEF Translates
  <2> QED BY <1>3, <2>6, TranslationArrives
<1>5. CASE vendor = "anthropic"
  <2>1. wire = [i \in 1..Len(said) |-> ToAnthropicMessage(said[i])]
    BY <1>1, <1>3, <1>5 DEF ToWire
  <2>2. PICK n \in Nat : n = Len(said)
    BY <1>2
  <2>3. Len(wire) = n /\ \A i \in 1..n : wire[i] = ToAnthropicMessage(said[i])
    BY <2>1, <2>2
  <2>4. \A i \in 1..n : \A a \in 1..(i - 1) :
          said[i].role = "tool" /\ ResultOf(said, a, i) =>
            wire[i].answers = <<Pairing(vendor, said[a].calls[i - a])>>
    BY <1>5, <2>3 DEF ToAnthropicMessage, Entry, ResultOf, Pairing
  <2>5. \A i \in 1..n :
          /\ wire[i].answers # <<>> => said[i].role = "tool"
          /\ said[i].role = "assistant" /\ said[i].calls # <<>> =>
               wire[i].calls = said[i].calls
    BY <2>3 DEF ToAnthropicMessage, Entry
  <2>6. Translates(vendor, said, wire)
    BY <2>2, <2>3, <2>4, <2>5 DEF Translates
  <2> QED BY <1>2, <1>3, <2>6, TranslationArrives
<1>6. CASE vendor = "gemini"
  <2>1. wire = [i \in 1..Len(said) |-> ToGeminiContent(SubSeq(said, 1, i - 1), said[i])]
    BY <1>1, <1>3, <1>6 DEF ToWire
  <2>2. PICK n \in Nat : n = Len(said)
    BY <1>2
  <2>3. /\ Len(wire) = n
        /\ \A i \in 1..n : wire[i] = ToGeminiContent(SubSeq(said, 1, i - 1), said[i])
    BY <2>1, <2>2
  <2>4. ASSUME NEW i \in 1..n, NEW a \in 1..(i - 1),
               said[i].role = "tool", ResultOf(said, a, i)
        PROVE  wire[i].answers = <<Pairing(vendor, said[a].calls[i - a])>>
    <3>1. NameOf(SubSeq(said, 1, i - 1), said[i].call_id) = said[a].calls[i - a].name
      BY <1>2, <2>2, <2>4, NameFound
    <3> QED BY <1>6, <2>3, <2>4, <3>1 DEF ToGeminiContent, Entry, Pairing
  <2>5. \A i \in 1..n :
          /\ wire[i].answers # <<>> => said[i].role = "tool"
          /\ said[i].role = "assistant" /\ said[i].calls # <<>> =>
               wire[i].calls = said[i].calls
    BY <2>3 DEF ToGeminiContent, Entry
  <2>6. Translates(vendor, said, wire)
    BY <2>2, <2>3, <2>4, <2>5 DEF Translates
  <2> QED BY <1>2, <1>3, <2>6, TranslationArrives
<1> QED BY <1>4, <1>5, <1>6 DEF Vendors

(* The conversations callers may begin with are well paired themselves.  A run  *)
(* keeps to that, but no code checks it of the caller.                          *)
HistoriesPaired == \A h \in Histories : WellPaired(h)

(* Whichever vendor the next turn goes to, on its wire each result is paired    *)
(* with the call it answers and, where ids pair, with no other call of that     *)
(* answer (the adapters' converters, after AgentLoop._execute_tools).           *)
THEOREM ResultsArrive ==
    ASSUME HistoriesPaired
    PROVE  Spec => []ResultsReachTheirCalls
<1>1. Init => Tidy
  BY TidyInit
<1>2. IInv /\ Tidy /\ [Next]_vars => Tidy'
  BY TidyStep
<1>3. IInv /\ Tidy => ResultsReachTheirCalls
  <2> SUFFICES ASSUME IInv, Tidy, NEW vendor \in Vendors
               PROVE  Arrives(vendor, ToWire(vendor, messages))
    BY DEF ResultsReachTheirCalls, Arrives
  <2>1. messages \in Seq(Message) /\ run.history \in Histories
    BY DEF IInv, Types, Run
  <2>2. WellPaired(run.history)
    BY <2>1 DEF HistoriesPaired
  <2>3. WellPaired(messages)
    BY <2>2, TranscriptPaired
  <2> QED BY <2>1, <2>3, WireArrives
<1> QED BY <1>1, <1>2, <1>3, Invariance, PTL DEF Spec

===============================================================================
