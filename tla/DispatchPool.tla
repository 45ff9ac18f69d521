----------------------------- MODULE DispatchPool -----------------------------
(* dispatch_with_timeout on the server's ThreadPoolExecutor: callers submit,    *)
(* wait and give up; nothing they do reaches the worker.  A dispatch that was   *)
(* given up on is started, calls providers and charges its tenant like any      *)
(* other.  The pool is the standard library's (external): a FIFO queue, a       *)
(* bounded number of threads, and shutdown that refuses new work only.          *)
EXTENDS Integers, Sequences

CONSTANTS
    Callers,      (* the requests served; each submits one dispatch             *)
    Workers,      (* max_workers of the executor                                *)
    MaxCalls      (* bound: how many provider calls a dispatch makes            *)

Nobody == "nobody"

ASSUME PoolAssumption == MaxCalls \in Nat /\ Nobody \notin Callers

VARIABLES
    queue,        (* submitted and not yet taken, oldest first                  *)
    running,      (* what each worker runs                                      *)
    inCall,       (* the workers inside a vendor SDK, which sets no timeout     *)
    future,       (* how far each dispatch got, or how it ended                 *)
    caller,       (* what each caller does, or what it got                      *)
    expired,      (* the callers whose timeout_seconds have passed              *)
    charges,      (* provider calls charged for each dispatch                   *)
    closed        (* the executor was shut down                                 *)

poolVars == <<queue, running, inCall, future, charges>>
vars == <<poolVars, caller, expired, closed>>

(* A dispatch ends with a RunResult or a ModelDispatcherError; a TimeoutError   *)
(* can come out of code it was given, a networked QuotaStore or vault.          *)
Ends == {"result", "error", "TimeoutError"}

Done(c) == future[c] \in Ends

Init ==
    /\ queue = <<>>
    /\ running = [w \in Workers |-> Nobody]
    /\ inCall = {}
    /\ future = [c \in Callers |-> "unsubmitted"]
    /\ caller = [c \in Callers |-> "arriving"]
    /\ expired = {}
    /\ charges = [c \in Callers |-> 0]
    /\ closed = FALSE

-------------------------------------------------------------------------------
(* The callers *)

Submit(c) ==
    /\ caller[c] = "arriving" /\ ~closed
    /\ caller' = [caller EXCEPT ![c] = "waiting"]
    /\ future' = [future EXCEPT ![c] = "queued"]
    /\ queue' = Append(queue, c)
    /\ UNCHANGED <<running, inCall, charges, expired, closed>>

(* submit raises RuntimeError, which is not the library's.                      *)
SubmitRefused(c) ==
    /\ caller[c] = "arriving" /\ closed
    /\ caller' = [caller EXCEPT ![c] = "RuntimeError"]
    /\ UNCHANGED <<poolVars, expired, closed>>

Expire(c) ==
    /\ caller[c] = "waiting" /\ c \notin expired
    /\ expired' = expired \union {c}
    /\ UNCHANGED <<poolVars, caller, closed>>

(* Mutant: whatever result() raises is reported as the deadline. *)
AnswerOfAnyError(c) ==
    IF future[c] = "result" THEN "RunResult" ELSE "DispatchTimeoutError"

(* future.result re-raises what the dispatch raised; a TimeoutError of the      *)
(* dispatch and one of the wait are the same class.                             *)
AnswerOf(c) ==
    CASE future[c] = "result" -> "RunResult"
      [] future[c] = "error"  -> "ModelDispatcherError"
      [] OTHER                -> "DispatchTimeoutError"

(* Mutant: the wait has no timeout. *)
AnswersWithoutTimeout(c) ==
    /\ caller[c] = "waiting" /\ Done(c)
    /\ caller' = [caller EXCEPT ![c] = AnswerOf(c)]
    /\ UNCHANGED <<poolVars, expired, closed>>

(* future.result returns when the dispatch is done or the time is up; a         *)
(* dispatch that is done by then is answered with what it got.                  *)
Answers(c) ==
    /\ caller[c] = "waiting" /\ (Done(c) \/ c \in expired)
    /\ caller' = [caller EXCEPT ![c] = AnswerOf(c)]
    /\ UNCHANGED <<poolVars, expired, closed>>

-------------------------------------------------------------------------------
(* The workers *)

(* Mutant: the worker looks at the head and leaves it in the queue. *)
TakeWithoutPop(w) ==
    /\ running[w] = Nobody /\ queue # <<>>
    /\ running' = [running EXCEPT ![w] = Head(queue)]
    /\ future' = [future EXCEPT ![Head(queue)] = "running"]
    /\ UNCHANGED <<queue, inCall, charges, caller, expired, closed>>

(* Mutant: a dispatch is not started unless its caller still waits. *)
TakeIfAwaited(w) ==
    /\ running[w] = Nobody /\ queue # <<>> /\ caller[Head(queue)] = "waiting"
    /\ running' = [running EXCEPT ![w] = Head(queue)]
    /\ future' = [future EXCEPT ![Head(queue)] = "running"]
    /\ queue' = Tail(queue)
    /\ UNCHANGED <<inCall, charges, caller, expired, closed>>

(* No future is ever cancelled, so none is skipped. *)
Take(w) ==
    /\ running[w] = Nobody /\ queue # <<>>
    /\ running' = [running EXCEPT ![w] = Head(queue)]
    /\ future' = [future EXCEPT ![Head(queue)] = "running"]
    /\ queue' = Tail(queue)
    /\ UNCHANGED <<inCall, charges, caller, expired, closed>>

CallsProvider(w) ==
    /\ running[w] # Nobody /\ w \notin inCall
    /\ charges[running[w]] < MaxCalls
    /\ inCall' = inCall \union {w}
    /\ charges' = [charges EXCEPT ![running[w]] = @ + 1]
    /\ UNCHANGED <<queue, running, future, caller, expired, closed>>

CallReturns(w) ==
    /\ w \in inCall
    /\ inCall' = inCall \ {w}
    /\ UNCHANGED <<queue, running, future, charges, caller, expired, closed>>

Finishes(w) ==
    /\ running[w] # Nobody /\ w \notin inCall
    /\ \E end \in Ends : future' = [future EXCEPT ![running[w]] = end]
    /\ running' = [running EXCEPT ![w] = Nobody]
    /\ UNCHANGED <<queue, inCall, charges, caller, expired, closed>>

Shutdown ==
    /\ ~closed
    /\ closed' = TRUE
    /\ UNCHANGED <<poolVars, caller, expired>>

WorkerStep(w) == Take(w) \/ CallsProvider(w) \/ CallReturns(w) \/ Finishes(w)

CallerStep(c) == Submit(c) \/ SubmitRefused(c) \/ Expire(c) \/ Answers(c)

Next == (\E c \in Callers : CallerStep(c)) \/ (\E w \in Workers : WorkerStep(w)) \/ Shutdown

Spec == Init /\ [][Next]_vars

(* Clocks advance and threads that can run do; of vendors nothing is assumed.   *)
FairSpec == Spec /\ \A c \in Callers : WF_vars(CallerStep(c))

-------------------------------------------------------------------------------
(* Properties *)

(* Every submitted dispatch is in exactly one place: in the queue once, on one  *)
(* worker, or done; so none runs twice, or is lost when its caller gives up.    *)
EachRunsOnce ==
    \A c \in Callers :
      LET places == {<<"queue", i>> : i \in {j \in DOMAIN queue : queue[j] = c}}
                      \union {<<"worker", w>> : w \in {v \in Workers : running[v] = c}}
      IN  CASE future[c] = "unsubmitted" -> places = {} /\ charges[c] = 0
            [] future[c] = "queued"      -> \E i \in DOMAIN queue : places = {<<"queue", i>>}
            [] future[c] = "running"     -> \E w \in Workers : places = {<<"worker", w>>}
            [] OTHER                     -> places = {}

(* A caller told that its dispatch did not complete in time did run out of      *)
(* time, or the dispatch itself ended with a TimeoutError.                      *)
TimeoutExplained ==
    \A c \in Callers : caller[c] = "DispatchTimeoutError" =>
      c \in expired \/ future[c] = "TimeoutError"

(* No caller waits for ever, however many vendor calls hang.                    *)
EveryCallerIsAnswered ==
    \A c \in Callers : caller[c] = "waiting" ~> caller[c] # "waiting"

(* As long as vendor calls return, every dispatch that was submitted runs to    *)
(* its end, those included whose caller is long gone.                           *)
EveryDispatchFinishes ==
    (\A w \in Workers : WF_vars(WorkerStep(w)))
      => \A c \in Callers : future[c] = "queued" ~> Done(c)

===============================================================================
