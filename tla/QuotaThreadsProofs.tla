--------------------------- MODULE QuotaThreadsProofs ---------------------------
(* Proofs about QuotaThreads, for every number of threads and every quota.      *)
EXTENDS QuotaThreads, DataLemmas, FiniteSetTheorems, TLAPS

Places == {"idle", "read", "decide", "incr", "set", "calling"}

Frame == [method : {"reserve", "commit"}, window : Windows, tokens : Int,
          seen : [Windows -> Int], got : Int]

TypeOK ==
    /\ store \in {"memory", "atomic"}
    /\ counts \in [Windows -> Int]
    /\ pc \in [Threads -> Places]
    /\ frame \in [Threads -> Frame]
    /\ reserved \in [Threads -> Int]
    /\ ledger \in [Windows -> Int]
    /\ refunded \in Nat
    /\ overlapped \in BOOLEAN

(* What a thread may hold where it is: reserve knows its estimate, a call in    *)
(* progress what was reserved for it, and commit leaves the requests alone and  *)
(* only gives tokens back if no estimate falls short.                           *)
LocalOK(t) ==
    /\ pc[t] \in {"read", "decide"} => frame[t].method = "reserve"
    /\ frame[t].method = "commit" => frame[t].window # 1
    /\ frame[t].method = "commit" /\ NoShortEstimate => frame[t].tokens <= 0
    /\ pc[t] # "idle" /\ pc[t] # "calling" /\ frame[t].method = "reserve"
         => frame[t].tokens \in Estimates
    /\ pc[t] = "calling" => reserved[t] \in Estimates
    /\ pc[t] \in {"incr", "set"} /\ frame[t].method = "reserve"
         => reserved[t] \in Estimates
    /\ pc[t] = "set" => store = "memory"

LocalsOK == \A t \in Threads : LocalOK(t)

-------------------------------------------------------------------------------
(* What a step of one thread leaves alone *)

Others(t) ==
    /\ pc' = [u \in Threads |-> pc'[u]]
    /\ frame' = [u \in Threads |-> frame'[u]]
    /\ reserved' = [u \in Threads |-> reserved'[u]]
    /\ \A u \in Threads : u # t =>
         pc'[u] = pc[u] /\ frame'[u] = frame[u] /\ reserved'[u] = reserved[u]

LEMMA CallType ==
    ASSUME NEW m \in {"reserve", "commit"}, NEW w \in Windows, NEW n \in Int
    PROVE  /\ Call(m, w, n) \in Frame
           /\ Call(m, w, n).method = m /\ Call(m, w, n).window = w
           /\ Call(m, w, n).tokens = n
BY DEF Call, Frame

(* An entry of the account. *)
Booked(requests, tokens) ==
    /\ ledger' \in [Windows -> Int]
    /\ \A w \in Windows : ledger'[w] = ledger[w] + (IF w = 1 THEN requests ELSE tokens)

LEMMA ChargeBooks ==
    ASSUME TypeOK, NEW r \in Int, NEW n \in Int, Charge(r, n)
    PROVE  Booked(r, n)
BY DEF TypeOK, Charge, Booked

(* Effects of the steps, one lemma per shape of step. *)

LEMMA ReadEffect ==
    ASSUME TypeOK, NEW t \in Threads, ReadWindow(t)
    PROVE  LET w == frame[t].window
           IN  /\ w \in Windows /\ Others(t) /\ UNCHANGED <<counts, reserved, ledger, refunded>>
               /\ pc[t] = "read" /\ pc'[t] = (IF w < 3 THEN "read" ELSE "decide")
               /\ frame'[t] \in Frame
               /\ frame'[t].method = frame[t].method
               /\ frame'[t].tokens = frame[t].tokens
               /\ frame'[t].window = (IF w < 3 THEN w + 1 ELSE 1)
               /\ frame'[t].seen[w] = counts[w]
               /\ \A v \in Windows : v # w => frame'[t].seen[v] = frame[t].seen[v]
<1> DEFINE w == frame[t].window
<1>1. /\ frame[t] \in Frame /\ w \in Windows /\ frame[t].seen \in [Windows -> Int]
      /\ counts[w] \in Int
  BY DEF TypeOK, Frame
<1>2. frame'[t] = [method |-> frame[t].method,
                   window |-> IF w < 3 THEN w + 1 ELSE 1,
                   tokens |-> frame[t].tokens,
                   seen   |-> [frame[t].seen EXCEPT ![w] = counts[w]],
                   got    |-> frame[t].got]
  BY <1>1 DEF ReadWindow, TypeOK, Frame
<1>3. [frame[t].seen EXCEPT ![w] = counts[w]] \in [Windows -> Int]
  BY <1>1
<1>4. (IF w < 3 THEN w + 1 ELSE 1) \in Windows
  BY <1>1 DEF Windows
<1>5. frame'[t] \in Frame
  BY <1>1, <1>2, <1>3, <1>4 DEF Frame
<1>6. Others(t) /\ UNCHANGED <<counts, reserved, ledger, refunded>>
  BY DEF ReadWindow, Goto, Others, TypeOK
<1>7. pc[t] = "read" /\ pc'[t] = (IF w < 3 THEN "read" ELSE "decide")
  BY DEF ReadWindow, Goto, TypeOK
<1> QED BY <1>1, <1>2, <1>5, <1>6, <1>7

LEMMA NextWindowEffect ==
    ASSUME TypeOK, NEW t \in Threads, NextWindow(t)
    PROVE  LET w == frame[t].window
           IN  /\ w \in Windows /\ frame'[t] \in Frame
               /\ pc' = [u \in Threads |-> pc'[u]] /\ frame' = [u \in Threads |-> frame'[u]]
               /\ \A u \in Threads : u # t => pc'[u] = pc[u] /\ frame'[u] = frame[u]
               /\ IF w < 3
                  THEN /\ pc'[t] = "incr" /\ frame'[t].window = w + 1
                       /\ frame'[t].method = frame[t].method
                       /\ frame'[t].tokens = frame[t].tokens
                  ELSE /\ pc'[t] = (IF frame[t].method = "reserve" THEN "calling" ELSE "idle")
                       /\ frame'[t] = NoCall
<1> DEFINE w == frame[t].window
<1>1. frame[t] \in Frame /\ w \in Windows
  BY DEF TypeOK, Frame
<1>2. CASE w < 3
  <2>1. frame'[t] = [method |-> frame[t].method, window |-> w + 1,
                     tokens |-> frame[t].tokens, seen |-> frame[t].seen, got |-> 0]
    BY <1>1, <1>2 DEF NextWindow, TypeOK, Frame
  <2>2. /\ frame'[t] \in Frame /\ frame'[t].window = w + 1
        /\ frame'[t].method = frame[t].method /\ frame'[t].tokens = frame[t].tokens
    BY <1>1, <1>2, <2>1 DEF Frame, Windows
  <2>3. /\ pc'[t] = "incr"
        /\ pc' = [u \in Threads |-> pc'[u]] /\ frame' = [u \in Threads |-> frame'[u]]
        /\ \A u \in Threads : u # t => pc'[u] = pc[u] /\ frame'[u] = frame[u]
    BY <1>2 DEF NextWindow, Goto, TypeOK
  <2> QED BY <1>1, <1>2, <2>2, <2>3
<1>3. CASE ~(w < 3)
  <2>1. NoCall \in Frame
    BY CallType DEF NoCall, Windows
  <2> QED BY <1>1, <1>3, <2>1 DEF NextWindow, Return, Goto, TypeOK
<1> QED BY <1>2, <1>3

(* A thread that starts, or drops, a call of the manager outside its increments. *)
LEMMA EnterEffect ==
    ASSUME TypeOK, NEW t \in Threads, Begin(t) \/ Commit(t)
    PROVE  /\ Others(t) /\ UNCHANGED counts
           /\ frame'[t] \in Frame /\ reserved'[t] \in Int
           /\ \/ /\ Begin(t) /\ pc[t] = "idle" /\ pc'[t] = "read"
                 /\ UNCHANGED <<ledger, refunded>>
                 /\ frame'[t].method = "reserve" /\ frame'[t].window = 1
                 /\ frame'[t].tokens \in Estimates
              \/ /\ Commit(t) /\ pc[t] = "calling" /\ pc'[t] = "incr"
                 /\ frame'[t].method = "commit" /\ frame'[t].window = 2
                 /\ \E actual \in Actuals : frame'[t].tokens = actual - reserved[t]
                 /\ Booked(0, frame'[t].tokens)
                 /\ refunded' = refunded + (IF frame'[t].tokens < 0
                                             THEN -frame'[t].tokens ELSE 0)
              \/ /\ Commit(t) /\ pc[t] = "calling" /\ pc'[t] = "idle"
                 /\ Booked(0, 0) /\ UNCHANGED refunded
                 /\ frame'[t] = NoCall
<1>1. CASE Begin(t)
  <2>1. PICK e \in Estimates : frame' = [frame EXCEPT ![t] = Call("reserve", 1, e)]
    BY <1>1 DEF Begin
  <2>2. e \in Int
    BY ThreadsAssumption
  <2>3. Call("reserve", 1, e) \in Frame /\ Call("reserve", 1, e).method = "reserve"
        /\ Call("reserve", 1, e).window = 1 /\ Call("reserve", 1, e).tokens = e
    BY <2>2, CallType DEF Windows
  <2>4. frame'[t] = Call("reserve", 1, e)
    BY <2>1 DEF TypeOK
  <2>5. /\ pc[t] = "idle" /\ pc'[t] = "read" /\ Others(t)
        /\ UNCHANGED <<counts, ledger, refunded>> /\ reserved'[t] \in Int
    BY <1>1, <2>1 DEF Begin, Goto, Others, TypeOK
  <2> QED BY <1>1, <2>3, <2>4, <2>5
<1>2. CASE Commit(t)
  <2>1. PICK actual \in Actuals :
          LET delta == actual - reserved[t]
          IN  /\ IF delta = 0
                 THEN Return(t, "idle")
                 ELSE /\ frame' = [frame EXCEPT ![t] = Call("commit", 2, delta)]
                      /\ Goto(t, "incr")
              /\ Charge(0, delta)
              /\ refunded' = refunded + (IF delta < 0 THEN -delta ELSE 0)
    BY <1>2 DEF Commit
  <2> DEFINE delta == actual - reserved[t]
  <2>2. delta \in Int
    BY ThreadsAssumption DEF TypeOK
  <2>3. /\ pc[t] = "calling" /\ UNCHANGED counts
        /\ reserved' = [reserved EXCEPT ![t] = 0] /\ reserved'[t] \in Int
    BY <1>2 DEF Commit, TypeOK
  <2>6. Booked(0, delta)
    BY <2>1, <2>2, ChargeBooks
  <2>4. CASE delta = 0
    <3>1. frame' = [frame EXCEPT ![t] = NoCall] /\ pc' = [pc EXCEPT ![t] = "idle"]
      BY <2>1, <2>4 DEF Return, Goto
    <3>2. Others(t) /\ frame'[t] = NoCall /\ pc'[t] = "idle"
      BY <2>3, <3>1 DEF TypeOK, Others
    <3>3. NoCall \in Frame
      BY CallType DEF NoCall, Windows
    <3>4. UNCHANGED refunded
      BY <2>1, <2>4 DEF TypeOK
    <3> QED BY <1>2, <2>3, <2>4, <2>6, <3>2, <3>3, <3>4
  <2>5. CASE delta # 0
    <3>1. /\ frame' = [frame EXCEPT ![t] = Call("commit", 2, delta)]
          /\ pc' = [pc EXCEPT ![t] = "incr"]
      BY <2>1, <2>5 DEF Goto
    <3>2. Others(t) /\ frame'[t] = Call("commit", 2, delta) /\ pc'[t] = "incr"
      BY <2>3, <3>1 DEF TypeOK, Others
    <3>3. Call("commit", 2, delta) \in Frame /\ Call("commit", 2, delta).method = "commit"
          /\ Call("commit", 2, delta).window = 2 /\ Call("commit", 2, delta).tokens = delta
      BY <2>2, CallType DEF Windows
    <3>4. refunded' = refunded + (IF delta < 0 THEN -delta ELSE 0)
      BY <2>1
    <3> QED BY <1>2, <2>3, <2>6, <3>2, <3>3, <3>4
  <2> QED BY <2>4, <2>5
<1> QED BY <1>1, <1>2

LEMMA LeaveEffect ==
    ASSUME TypeOK, NEW t \in Threads, Deny(t) \/ Abandon(t)
    PROVE  /\ Others(t) /\ UNCHANGED <<counts, ledger, refunded>>
           /\ frame'[t] = NoCall /\ frame'[t] \in Frame /\ reserved'[t] \in Int
           /\ pc[t] \in {"decide", "calling"} /\ pc'[t] = "idle"
<1>1. NoCall \in Frame
  BY CallType DEF NoCall, Windows
<1> QED BY <1>1 DEF Deny, Abandon, Return, Goto, Others, TypeOK

LEMMA GrantEffect ==
    ASSUME TypeOK, NEW t \in Threads, Grant(t)
    PROVE  /\ Others(t) /\ UNCHANGED <<counts, refunded>>
           /\ Booked(1, frame[t].tokens)
           /\ pc[t] = "decide" /\ pc'[t] = "incr"
           /\ \A w \in Windows : frame[t].seen[w] + Added(t, w) <= Cap[w]
           /\ frame'[t] \in Frame
           /\ frame'[t].method = "reserve" /\ frame'[t].window = 1
           /\ frame'[t].tokens = frame[t].tokens
           /\ reserved'[t] = frame[t].tokens /\ reserved'[t] \in Int
<1>1. frame[t].tokens \in Int
  BY DEF TypeOK, Frame
<1>2. /\ Call("reserve", 1, frame[t].tokens) \in Frame
      /\ Call("reserve", 1, frame[t].tokens).method = "reserve"
      /\ Call("reserve", 1, frame[t].tokens).window = 1
      /\ Call("reserve", 1, frame[t].tokens).tokens = frame[t].tokens
  BY <1>1, CallType DEF Windows
<1>3. Booked(1, frame[t].tokens)
  BY <1>1, ChargeBooks DEF Grant
<1> QED BY <1>1, <1>2, <1>3 DEF Grant, Goto, Others, TypeOK

LEMMA IncrEffect ==
    ASSUME TypeOK, NEW t \in Threads, IncrAtomic(t) \/ IncrSet(t)
    PROVE  LET w == frame[t].window
           IN  /\ NextWindow(t) /\ Others(t) /\ UNCHANGED <<reserved, ledger, refunded>>
               /\ w \in Windows /\ Added(t, w) \in Int
               /\ \/ /\ IncrAtomic(t) /\ store = "atomic" /\ pc[t] = "incr"
                     /\ counts' = [counts EXCEPT ![w] = counts[w] + Added(t, w)]
                  \/ /\ IncrSet(t) /\ pc[t] = "set"
                     /\ counts' = [counts EXCEPT ![w] = frame[t].got + Added(t, w)]
               /\ counts' \in [Windows -> Int]
               /\ \A v \in Windows : v # w => counts'[v] = counts[v]
<1> DEFINE w == frame[t].window
<1>1. w \in Windows /\ frame[t].tokens \in Int /\ frame[t].got \in Int /\ counts[w] \in Int
  BY DEF TypeOK, Frame
<1>2. Added(t, w) \in Int
  BY <1>1 DEF Added
<1>3. NextWindow(t) /\ UNCHANGED <<reserved, ledger, refunded>>
  BY DEF IncrAtomic, IncrSet
<1>4. Others(t)
  BY <1>3, NextWindowEffect DEF Others, TypeOK
<1>5. \/ /\ IncrAtomic(t) /\ store = "atomic" /\ pc[t] = "incr"
         /\ counts' = [counts EXCEPT ![w] = counts[w] + Added(t, w)]
      \/ /\ IncrSet(t) /\ pc[t] = "set"
         /\ counts' = [counts EXCEPT ![w] = frame[t].got + Added(t, w)]
  BY DEF IncrAtomic, IncrSet
<1>6. /\ counts' \in [Windows -> Int]
      /\ \A v \in Windows : v # w => counts'[v] = counts[v]
  BY <1>1, <1>2, <1>5 DEF TypeOK
<1> QED BY <1>1, <1>2, <1>3, <1>4, <1>5, <1>6

LEMMA GetEffect ==
    ASSUME TypeOK, NEW t \in Threads, IncrGet(t)
    PROVE  LET w == frame[t].window
           IN  /\ Others(t) /\ UNCHANGED <<counts, reserved, ledger, refunded>>
               /\ store = "memory" /\ w \in Windows
               /\ pc[t] = "incr" /\ pc'[t] = "set"
               /\ frame'[t] \in Frame
               /\ frame'[t].method = frame[t].method
               /\ frame'[t].window = w
               /\ frame'[t].tokens = frame[t].tokens
               /\ frame'[t].got = counts[w]
<1> DEFINE w == frame[t].window
<1>1. frame[t] \in Frame /\ w \in Windows /\ counts[w] \in Int
  BY DEF TypeOK, Frame
<1>2. frame'[t] = [frame[t] EXCEPT !.got = counts[w]]
  BY DEF IncrGet, TypeOK
<1>3. /\ frame'[t] \in Frame
      /\ frame'[t].method = frame[t].method
      /\ frame'[t].window = w
      /\ frame'[t].tokens = frame[t].tokens
      /\ frame'[t].got = counts[w]
  BY <1>1, <1>2 DEF Frame
<1> QED BY <1>1, <1>3 DEF IncrGet, Goto, Others, TypeOK

-------------------------------------------------------------------------------
(* Types and locals *)

Base == TypeOK /\ LocalsOK

LEMMA BaseInit == Init => Base
<1> SUFFICES ASSUME Init PROVE Base
  OBVIOUS
<1>1. NoCall \in Frame /\ NoCall.method = "reserve" /\ NoCall.window = 1
  BY CallType DEF NoCall, Windows
<1>2. TypeOK
  <2>1. overlapped \in BOOLEAN
    BY DEF Init
  <2>2. store \in {"memory", "atomic"} /\ ledger \in [Windows -> Int] /\ refunded \in Nat
    BY DEF Init
  <2>3. /\ counts \in [Windows -> Int] /\ pc \in [Threads -> Places]
        /\ frame \in [Threads -> Frame] /\ reserved \in [Threads -> Int]
    BY <1>1 DEF Init, Places
  <2> QED BY <2>1, <2>2, <2>3 DEF TypeOK
<1>3. LocalsOK
  BY <1>1 DEF Init, LocalsOK, LocalOK
<1> QED BY <1>2, <1>3 DEF Base

LEMMA BaseStep == Base /\ [Next]_vars => Base'
<1> SUFFICES ASSUME Base, [Next]_vars PROVE Base'
  OBVIOUS
<1> USE DEF Base
<1>0. NoShortEstimate' = NoShortEstimate
  BY DEF NoShortEstimate
<1>1. CASE UNCHANGED vars
  BY <1>0, <1>1 DEF vars, TypeOK, LocalsOK, LocalOK
<1>2. ASSUME NEW t \in Threads, Thread(t), UNCHANGED store,
             overlapped' = (overlapped \/ Cardinality(Inside(pc')) > 1)
      PROVE  Base'
  <2>1. store' \in {"memory", "atomic"} /\ overlapped' \in BOOLEAN
    BY <1>2 DEF TypeOK
  <2>2. ASSUME Others(t), counts' \in [Windows -> Int],
               ledger' \in [Windows -> Int], refunded' \in Nat,
               pc'[t] \in Places, frame'[t] \in Frame, reserved'[t] \in Int,
               LocalOK(t)'
        PROVE  Base'
    <3>1. TypeOK'
      BY <2>1, <2>2 DEF Others, TypeOK
    <3>2. ASSUME NEW u \in Threads PROVE LocalOK(u)'
      BY <1>0, <1>2, <2>2 DEF Others, LocalsOK, LocalOK
    <3> QED BY <3>1, <3>2 DEF LocalsOK
  <2>3. frame[t].tokens \in Int
    BY DEF TypeOK, Frame
  <2>4. LocalOK(t)
    BY DEF LocalsOK
  <2>5. CASE Begin(t) \/ Commit(t)
    <3>1. ASSUME pc'[t] = "read", frame'[t].method = "reserve",
                 frame'[t].tokens \in Estimates
          PROVE  LocalOK(t)'
      BY <3>1 DEF LocalOK
    <3>2. ASSUME Commit(t), pc[t] = "calling", pc'[t] = "incr",
                 frame'[t].method = "commit", frame'[t].window = 2,
                 NEW actual \in Actuals, frame'[t].tokens = actual - reserved[t]
          PROVE  LocalOK(t)'
      <4>1. reserved[t] \in Estimates /\ reserved[t] \in Nat /\ actual \in Nat
        BY <2>4, <3>2, ThreadsAssumption DEF LocalOK
      <4>2. NoShortEstimate => frame'[t].tokens <= 0
        BY <3>2, <4>1 DEF NoShortEstimate
      <4> QED BY <1>0, <3>2, <4>2 DEF LocalOK
    <3>3. ASSUME frame'[t] = NoCall, pc'[t] = "idle" PROVE LocalOK(t)'
      BY <3>3 DEF LocalOK, NoCall, Call
    <3>4. LocalOK(t)'
      BY <2>5, <3>1, <3>2, <3>3, EnterEffect
    <3>5. ledger' \in [Windows -> Int] /\ refunded' \in Nat
      <4>1. ASSUME Booked(0, frame'[t].tokens), frame'[t] \in Frame,
                   refunded' = refunded + (IF frame'[t].tokens < 0
                                           THEN -frame'[t].tokens ELSE 0)
            PROVE  ledger' \in [Windows -> Int] /\ refunded' \in Nat
        <5>1. frame'[t].tokens \in Int /\ refunded \in Nat
          BY <4>1 DEF TypeOK, Frame
        <5> QED BY <4>1, <5>1 DEF Booked
      <4>2. ASSUME Booked(0, 0), UNCHANGED refunded
            PROVE  ledger' \in [Windows -> Int] /\ refunded' \in Nat
        BY <4>2 DEF TypeOK, Booked
      <4>3. ASSUME UNCHANGED <<ledger, refunded>>
            PROVE  ledger' \in [Windows -> Int] /\ refunded' \in Nat
        BY <4>3 DEF TypeOK
      <4> QED BY <2>5, <4>1, <4>2, <4>3, EnterEffect
    <3> QED BY <2>2, <2>5, <3>4, <3>5, EnterEffect DEF TypeOK, Places
  <2>6. CASE ReadWindow(t)
    <3>1. LocalOK(t)'
      BY <1>0, <2>4, <2>6, ReadEffect DEF LocalOK
    <3> QED BY <2>2, <2>6, <3>1, ReadEffect DEF TypeOK, Places
  <2>7. CASE Deny(t) \/ Abandon(t)
    <3>1. LocalOK(t)'
      BY <2>7, LeaveEffect DEF LocalOK, NoCall, Call
    <3> QED BY <2>2, <2>7, <3>1, LeaveEffect DEF TypeOK, Places
  <2>8. CASE Grant(t)
    <3>1. LocalOK(t)'
      BY <1>0, <2>4, <2>8, GrantEffect DEF LocalOK
    <3> QED BY <2>2, <2>8, <3>1, GrantEffect DEF TypeOK, Places, Booked
  <2>9. CASE IncrAtomic(t) \/ IncrSet(t)
    <3> DEFINE w == frame[t].window
    <3>1. /\ Others(t) /\ UNCHANGED <<reserved, ledger, refunded>> /\ counts' \in [Windows -> Int]
          /\ pc[t] \in {"incr", "set"} /\ NextWindow(t)
      BY <2>9, IncrEffect
    <3>2. /\ w \in Windows /\ frame'[t] \in Frame
          /\ IF w < 3
             THEN /\ pc'[t] = "incr" /\ frame'[t].window = w + 1
                  /\ frame'[t].method = frame[t].method
                  /\ frame'[t].tokens = frame[t].tokens
             ELSE /\ pc'[t] = (IF frame[t].method = "reserve" THEN "calling" ELSE "idle")
                  /\ frame'[t] = NoCall
      BY <3>1, NextWindowEffect
    <3>3. LocalOK(t)'
      BY <1>0, <2>4, <3>1, <3>2 DEF LocalOK, NoCall, Call, Windows
    <3> QED BY <2>2, <3>1, <3>2, <3>3 DEF TypeOK, Places
  <2>10. CASE IncrGet(t)
    <3>1. LocalOK(t)'
      BY <1>0, <1>2, <2>4, <2>10, GetEffect DEF LocalOK
    <3> QED BY <2>2, <2>10, <3>1, GetEffect DEF TypeOK, Places
  <2> QED BY <1>2, <2>5, <2>6, <2>7, <2>8, <2>9, <2>10 DEF Thread
<1> QED BY <1>1, <1>2 DEF Next

-------------------------------------------------------------------------------
(* Counts and charges *)

(* What a thread in the middle of its increments will still add to a window.   *)
Left(t, w) ==
    IF pc[t] \in {"incr", "set"} /\ frame[t].window <= w THEN Added(t, w) ELSE 0

Owed(t, w) == IF Left(t, w) > 0 THEN Left(t, w) ELSE 0

Outstanding(w) == SumFunctionOnSet([t \in Threads |-> Owed(t, w)], Threads)

(* What may have been charged at most, the refunds that got lost left out.     *)
Raised(w) == ledger[w] + (IF w = 1 THEN 0 ELSE refunded)

(* What the store shows, and what a thread is about to write, leaves room for   *)
(* every charge that is still to be added.                                      *)
WindowFits(w) ==
    /\ counts[w] + Outstanding(w) <= Raised(w)
    /\ \A t \in Threads : pc[t] = "set" /\ frame[t].window = w =>
         frame[t].got + Outstanding(w) <= Raised(w)

CountsFit == \A w \in Windows : WindowFits(w)

LEMMA OwedType ==
    ASSUME TypeOK, NEW t \in Threads, NEW w \in Windows
    PROVE  /\ Added(t, w) \in Int /\ Left(t, w) \in Int
           /\ Owed(t, w) \in Nat
           /\ frame[t].window \in Windows /\ frame[t].got \in Int /\ frame[t].tokens \in Int
<1>1. frame[t].window \in Windows /\ frame[t].got \in Int /\ frame[t].tokens \in Int
  BY DEF TypeOK, Frame
<1>2. Added(t, w) \in Int
  BY <1>1 DEF Added
<1>3. Left(t, w) \in Int
  BY <1>2 DEF Left
<1> QED BY <1>1, <1>2, <1>3 DEF Owed

LEMMA OutstandingType ==
    ASSUME TypeOK, NEW w \in Windows
    PROVE  /\ Outstanding(w) \in Nat
           /\ counts[w] \in Int /\ ledger[w] \in Int /\ refunded \in Nat /\ Raised(w) \in Int
<1> DEFINE f == [t \in Threads |-> Owed(t, w)]
           none == [t \in Threads |-> 0]
<1>1. \A t \in Threads : f[t] \in Int /\ none[t] \in Int /\ none[t] = 0 * f[t] /\ none[t] <= f[t]
  BY OwedType
<1>2. Outstanding(w) = SumFunctionOnSet(f, Threads)
  BY DEF Outstanding
<1>3. IsFiniteSet(Threads)
  BY ThreadsAssumption
<1> HIDE DEF f, none
<1>4. SumFunctionOnSet(f, Threads) \in Int
  BY <1>1, <1>3, SumType
<1>5. SumFunctionOnSet(none, Threads) = 0 * SumFunctionOnSet(f, Threads)
  BY <1>1, <1>3, SumTimes
<1>6. SumFunctionOnSet(none, Threads) <= SumFunctionOnSet(f, Threads)
  BY <1>1, <1>3, SumMonotone
<1>7. Outstanding(w) \in Nat
  BY <1>2, <1>4, <1>5, <1>6
<1>8. counts[w] \in Int /\ ledger[w] \in Int /\ refunded \in Nat
  BY DEF TypeOK
<1> QED BY <1>7, <1>8 DEF Raised

LEMMA OutstandingMoves ==
    ASSUME TypeOK, TypeOK', NEW t \in Threads, Others(t), NEW w \in Windows
    PROVE  Outstanding(w)' = Outstanding(w) - Owed(t, w) + Owed(t, w)'
<1> DEFINE f == [u \in Threads |-> Owed(u, w)]
           g == [u \in Threads |-> Owed(u, w)']
<1>1. \A u \in Threads : f[u] \in Int /\ f[u] = Owed(u, w)
  BY OwedType
<1>2. \A u \in Threads : g[u] \in Int /\ g[u] = Owed(u, w)'
  <2> TAKE u \in Threads
  <2>1. frame'[u] \in Frame /\ frame'[u].tokens \in Int
    BY DEF TypeOK, Frame
  <2>2. Added(u, w)' \in Int
    BY <2>1 DEF Added
  <2> QED BY <2>2 DEF Owed, Left
<1>3. \A u \in Threads : u # t => g[u] = f[u]
  BY DEF Others, Owed, Left, Added
<1>4. Outstanding(w) = SumFunctionOnSet(f, Threads) /\ Outstanding(w)' = SumFunctionOnSet(g, Threads)
  BY DEF Outstanding
<1>5. IsFiniteSet(Threads)
  BY ThreadsAssumption
<1> HIDE DEF f, g
<1>6. SumFunctionOnSet(g, Threads) = SumFunctionOnSet(f, Threads) - f[t] + g[t]
  BY <1>1, <1>2, <1>3, <1>5, SumUpdate
<1> QED BY <1>1, <1>2, <1>4, <1>6

LEMMA CountsFitInit == Init => CountsFit
<1> SUFFICES ASSUME Init, NEW w \in Windows PROVE WindowFits(w)
  BY DEF CountsFit
<1> DEFINE f == [t \in Threads |-> Owed(t, w)]
<1>1. \A t \in Threads : pc[t] = "idle"
  BY DEF Init
<1>2. \A t \in Threads : f[t] \in Int /\ f[t] = 0 * f[t]
  BY <1>1 DEF Owed, Left
<1>3. Outstanding(w) = SumFunctionOnSet(f, Threads)
  BY DEF Outstanding
<1>4. IsFiniteSet(Threads)
  BY ThreadsAssumption
<1> HIDE DEF f
<1>5. SumFunctionOnSet(f, Threads) = 0 * SumFunctionOnSet(f, Threads)
  BY <1>2, <1>4, SumTimes
<1>6. SumFunctionOnSet(f, Threads) \in Int
  BY <1>2, <1>4, SumType
<1>7. Outstanding(w) = 0
  BY <1>3, <1>5, <1>6
<1>8. counts[w] = 0 /\ Raised(w) = 0
  BY DEF Init, Raised
<1> QED BY <1>1, <1>7, <1>8 DEF WindowFits

(* What is left over, or about to be written, grows with the account at most.   *)
LEMMA FitsOn ==
    ASSUME TypeOK, TypeOK', NEW t \in Threads, Others(t), NEW w \in Windows, WindowFits(w),
           Owed(t, w)' - Owed(t, w) <= Raised(w)' - Raised(w),
           counts'[w] + Owed(t, w)' + Raised(w) <= counts[w] + Owed(t, w) + Raised(w)'
             \/ (pc[t] = "set" /\ frame[t].window = w
                 /\ counts'[w] + Owed(t, w)' + Raised(w)
                      <= frame[t].got + Owed(t, w) + Raised(w)'),
           pc'[t] = "set" /\ frame'[t].window = w =>
             UNCHANGED counts /\ frame'[t].got = counts[w]
    PROVE  WindowFits(w)'
<1>1. /\ Outstanding(w)' = Outstanding(w) - Owed(t, w) + Owed(t, w)'
      /\ Outstanding(w) \in Int /\ Outstanding(w)' \in Int
  <2>1. Outstanding(w)' = Outstanding(w) - Owed(t, w) + Owed(t, w)'
    BY OutstandingMoves
  <2>2. Owed(t, w)' \in Int
    <3>1. Added(t, w)' \in Int
      BY DEF TypeOK, Frame, Added
    <3> QED BY <3>1 DEF Owed, Left
  <2> QED BY <2>1, <2>2, OutstandingType, OwedType
<1>2. /\ counts[w] \in Int /\ counts'[w] \in Int /\ Raised(w) \in Int /\ Raised(w)' \in Int
      /\ Owed(t, w) \in Int /\ Owed(t, w)' \in Int
  <2>1. ledger'[w] \in Int /\ refunded' \in Nat /\ counts'[w] \in Int
    BY DEF TypeOK
  <2>2. Raised(w)' \in Int
    BY <2>1 DEF Raised
  <2>3. Added(t, w)' \in Int
    BY DEF TypeOK, Frame, Added
  <2>4. Owed(t, w)' \in Int
    BY <2>3 DEF Owed, Left
  <2> QED BY <2>1, <2>2, <2>4, OutstandingType, OwedType
<1>3. /\ counts[w] + Outstanding(w) <= Raised(w)
      /\ \A u \in Threads : pc[u] = "set" /\ frame[u].window = w =>
           frame[u].got \in Int /\ frame[u].got + Outstanding(w) <= Raised(w)
  BY OwedType DEF WindowFits
<1>4. counts'[w] + Outstanding(w)' <= Raised(w)'
  BY <1>1, <1>2, <1>3
<1>5. ASSUME NEW u \in Threads, pc'[u] = "set", frame'[u].window = w
      PROVE  frame'[u].got + Outstanding(w)' <= Raised(w)'
  <2>1. CASE u = t
    BY <1>2, <1>4, <1>5, <2>1
  <2>2. CASE u # t
    <3>1. pc[u] = "set" /\ frame[u].window = w /\ frame'[u].got = frame[u].got
      BY <1>5, <2>2 DEF Others
    <3> QED BY <1>1, <1>2, <1>3, <3>1
  <2> QED BY <2>1, <2>2
<1> QED BY <1>4, <1>5 DEF WindowFits

LEMMA CountsFitStep == Base /\ Base' /\ CountsFit /\ [Next]_vars => CountsFit'
<1> SUFFICES ASSUME Base, Base', CountsFit, [Next]_vars, NEW w \in Windows
             PROVE  WindowFits(w)'
  BY DEF CountsFit
<1> USE DEF Base
<1>0. WindowFits(w)
  BY DEF CountsFit
<1>1. CASE UNCHANGED vars
  BY <1>0, <1>1 DEF vars, WindowFits, Outstanding, Owed, Left, Added, Raised
<1>2. ASSUME NEW t \in Threads, Thread(t) PROVE WindowFits(w)'
  <2>1. /\ Owed(t, w) \in Int /\ Added(t, w) \in Int /\ frame[t].tokens \in Int
        /\ frame[t].window \in Windows /\ frame[t].got \in Int
        /\ counts[w] \in Int /\ ledger[w] \in Int /\ refunded \in Nat /\ Raised(w) \in Int
    BY OwedType, OutstandingType
  <2>2. ASSUME Others(t), UNCHANGED <<counts, ledger, refunded>>,
               Owed(t, w) = 0, Owed(t, w)' = 0, pc'[t] # "set"
        PROVE  WindowFits(w)'
    <3>1. Raised(w)' = Raised(w) /\ counts'[w] = counts[w]
      BY <2>2 DEF Raised
    <3> QED BY <1>0, <2>1, <2>2, <3>1, FitsOn
  <2>3. CASE Begin(t) \/ Commit(t)
    <3>1. Others(t) /\ UNCHANGED counts /\ Owed(t, w) = 0 /\ pc'[t] # "set"
      BY <2>3, EnterEffect DEF Owed, Left
    <3>2. ASSUME pc'[t] = "read", UNCHANGED <<ledger, refunded>> PROVE WindowFits(w)'
      BY <2>2, <3>1, <3>2 DEF Owed, Left
    <3>3. ASSUME pc'[t] = "idle", Booked(0, 0), UNCHANGED refunded PROVE WindowFits(w)'
      <4>1. Owed(t, w)' = 0
        BY <3>3 DEF Owed, Left
      <4>2. ledger'[w] = ledger[w]
        BY <2>1, <3>3 DEF Booked
      <4>3. Raised(w)' = Raised(w) /\ counts'[w] = counts[w]
        BY <3>1, <3>3, <4>2 DEF Raised
      <4> QED BY <1>0, <2>1, <3>1, <4>1, <4>3, FitsOn
    <3>4. ASSUME pc'[t] = "incr", frame'[t].method = "commit", frame'[t].window = 2,
                 frame'[t] \in Frame, Booked(0, frame'[t].tokens),
                 refunded' = refunded + (IF frame'[t].tokens < 0
                                         THEN -frame'[t].tokens ELSE 0)
          PROVE  WindowFits(w)'
      <4> DEFINE n == frame'[t].tokens
      <4>1. n \in Int
        BY <3>4 DEF Frame
      <4>2. ledger'[w] = ledger[w] + (IF w = 1 THEN 0 ELSE n)
        BY <3>4 DEF Booked
      <4>3. Left(t, w)' = IF w = 1 THEN 0 ELSE n
        BY <3>4 DEF Left, Added, Windows
      <4>4. Owed(t, w)' = IF w = 1 \/ n < 0 THEN 0 ELSE n
        BY <4>1, <4>3 DEF Owed
      <4>5. Raised(w)' = Raised(w) + (IF w = 1 \/ n < 0 THEN 0 ELSE n)
        BY <2>1, <3>4, <4>1, <4>2 DEF Raised
      <4>6. counts'[w] = counts[w]
        BY <3>1
      <4> HIDE DEF n
      <4> QED BY <1>0, <2>1, <3>1, <4>1, <4>4, <4>5, <4>6, FitsOn
    <3> QED BY <2>3, <3>2, <3>3, <3>4, EnterEffect
  <2>4. CASE ReadWindow(t)
    BY <2>2, <2>4, ReadEffect DEF Owed, Left
  <2>5. CASE Deny(t) \/ Abandon(t)
    BY <2>2, <2>5, LeaveEffect DEF Owed, Left
  <2>6. CASE Grant(t)
    <3>1. /\ Others(t) /\ UNCHANGED <<counts, refunded>> /\ Booked(1, frame[t].tokens)
          /\ pc[t] = "decide" /\ pc'[t] = "incr"
          /\ frame'[t].window = 1 /\ frame'[t].tokens = frame[t].tokens
      BY <2>6, GrantEffect
    <3> DEFINE n == IF w = 1 THEN 1 ELSE frame[t].tokens
    <3>2. frame[t].tokens \in Nat
      <4>1. frame[t].tokens \in Estimates
        BY <3>1 DEF LocalsOK, LocalOK
      <4> QED BY <4>1, ThreadsAssumption
    <3>3. n \in Nat
      BY <3>2
    <3>4. Left(t, w)' = n
      BY <3>1 DEF Left, Added, Windows
    <3>5. Owed(t, w) = 0 /\ Owed(t, w)' = n
      BY <3>1, <3>3, <3>4 DEF Owed, Left
    <3>6. ledger'[w] = ledger[w] + n
      BY <3>1 DEF Booked
    <3>7. Raised(w)' = Raised(w) + n /\ counts'[w] = counts[w]
      BY <2>1, <3>1, <3>3, <3>6 DEF Raised
    <3> HIDE DEF n
    <3> QED BY <1>0, <2>1, <3>1, <3>3, <3>5, <3>7, FitsOn
  <2>7. CASE IncrGet(t)
    <3>1. /\ Others(t) /\ UNCHANGED <<counts, ledger, refunded>>
          /\ pc[t] = "incr" /\ pc'[t] = "set" /\ frame'[t].window = frame[t].window
          /\ frame'[t].tokens = frame[t].tokens
          /\ frame'[t].got = counts[frame[t].window]
      BY <2>7, GetEffect
    <3>2. Owed(t, w)' = Owed(t, w)
      BY <3>1 DEF Owed, Left, Added
    <3>3. Raised(w)' = Raised(w) /\ counts'[w] = counts[w]
      BY <3>1 DEF Raised
    <3>4. pc'[t] = "set" /\ frame'[t].window = w =>
            UNCHANGED counts /\ frame'[t].got = counts[w]
      BY <3>1
    <3> QED BY <1>0, <2>1, <3>1, <3>2, <3>3, <3>4, FitsOn
  <2>8. CASE IncrAtomic(t) \/ IncrSet(t)
    <3> DEFINE v == frame[t].window
    <3>1. /\ Others(t) /\ UNCHANGED <<ledger, refunded>> /\ NextWindow(t)
          /\ \A x \in Windows : x # v => counts'[x] = counts[x]
          /\ pc[t] \in {"incr", "set"}
          /\ \/ counts'[v] = counts[v] + Added(t, v)
             \/ pc[t] = "set" /\ counts'[v] = frame[t].got + Added(t, v)
      BY <2>1, <2>8, IncrEffect DEF TypeOK
    <3>2. /\ pc'[t] # "set"
          /\ \/ v < 3 /\ pc'[t] = "incr" /\ frame'[t].window = v + 1
                /\ frame'[t].tokens = frame[t].tokens
             \/ v = 3 /\ pc'[t] \notin {"incr", "set"}
      BY <2>1, <3>1, NextWindowEffect DEF Windows
    <3>3. Raised(w)' = Raised(w)
      BY <3>1 DEF Raised
    <3>4. CASE w # v
      <4>1. Left(t, w)' = Left(t, w)
        BY <2>1, <3>1, <3>2, <3>4 DEF Left, Added, Windows
      <4>2. Owed(t, w)' = Owed(t, w) /\ counts'[w] = counts[w]
        BY <3>1, <3>4, <4>1 DEF Owed
      <4> QED BY <1>0, <2>1, <3>1, <3>2, <3>3, <4>2, FitsOn
    <3>5. CASE w = v
      <4>1. Left(t, w) = Added(t, w) /\ Left(t, w)' = 0
        BY <2>1, <3>1, <3>2, <3>5 DEF Left, Windows
      <4>2. Owed(t, w)' = 0 /\ Added(t, w) <= Owed(t, w) /\ 0 <= Owed(t, w)
        BY <2>1, <4>1 DEF Owed
      <4>3. \/ counts'[w] + Owed(t, w)' + Raised(w) <= counts[w] + Owed(t, w) + Raised(w)'
            \/ /\ pc[t] = "set" /\ frame[t].window = w
               /\ counts'[w] + Owed(t, w)' + Raised(w)
                    <= frame[t].got + Owed(t, w) + Raised(w)'
        BY <2>1, <3>1, <3>3, <3>5, <4>2
      <4>4. Owed(t, w)' - Owed(t, w) <= Raised(w)' - Raised(w)
        BY <2>1, <3>3, <4>2
      <4> QED BY <1>0, <3>1, <3>2, <4>3, <4>4, FitsOn
    <3> QED BY <3>4, <3>5
  <2> QED BY <1>2, <2>3, <2>4, <2>5, <2>6, <2>7, <2>8 DEF Thread
<1> QED BY <1>1, <1>2 DEF Next

LEMMA CountsFitInvariance == Spec => [](Base /\ CountsFit)
BY BaseInit, BaseStep, CountsFitInit, CountsFitStep, PTL DEF Spec

(* However many threads lose each other's increments, the request counter never *)
(* shows a reservation that was not granted, and a token counter is never       *)
(* further above its account than corrections gave back.                        *)
THEOREM CountsComeFromCharges == Spec => []CountsWereCharged
<1>1. Base /\ CountsFit => CountsWereCharged
  <2> SUFFICES ASSUME Base, CountsFit, NEW w \in Windows
               PROVE  counts[w] <= Raised(w)
    BY DEF CountsWereCharged, Raised
  <2>1. Outstanding(w) \in Nat /\ counts[w] \in Int /\ Raised(w) \in Int
    BY OutstandingType DEF Base
  <2>2. counts[w] + Outstanding(w) <= Raised(w)
    BY DEF CountsFit, WindowFits
  <2> QED BY <2>1, <2>2
<1> QED BY <1>1, CountsFitInvariance, PTL

-------------------------------------------------------------------------------
(* Overshoot *)

(* The most one reservation adds to a window, if no estimate exceeds e. *)
Most(w, e) == IF w = 1 THEN 1 ELSE e

(* The threads that will charge a window, or may, on what they read of it.      *)
Exposed(w) ==
    {t \in Threads :
       \/ /\ (pc[t] = "read" /\ frame[t].window > w) \/ pc[t] = "decide"
          /\ frame[t].seen[w] + Added(t, w) <= Cap[w]
       \/ pc[t] = "incr" /\ frame[t].method = "reserve" /\ frame[t].window <= w}

(* Some of the threads in X may charge its own f and every other one the most,  *)
(* m, on a counter of c, and the limit of n threads holds: the one that read    *)
(* the counter last is such a thread.                                           *)
Fits(c, X, f, m, cap, n) ==
    IF X = {} THEN c <= cap + (n - 1) * m
    ELSE \E t \in X : c + f[t] + (Cardinality(X) - 1) * m <= cap + (n - 1) * m

Charges(w) == [t \in Threads |-> Added(t, w)]

Room(w, e) ==
    Fits(counts[w], Exposed(w), Charges(w), Most(w, e), Cap[w], Cardinality(Threads))

Generous == store = "atomic" /\ NoShortEstimate

RoomForAll ==
    Generous =>
      \A w \in Windows, e \in Estimates : (\A f \in Estimates : f <= e) => Room(w, e)

LEMMA Distribute ==
    ASSUME NEW a \in Int, NEW m \in Int
    PROVE  /\ a * m \in Int
           /\ (a - 1) * m = a * m - m /\ (a - 1) * m \in Int
           /\ (a - 2) * m = a * m - m - m /\ (a - 2) * m \in Int
OBVIOUS

LEMMA NonNegative ==
    ASSUME NEW a \in Nat, NEW m \in Nat
    PROVE  a * m \in Nat
OBVIOUS

LEMMA Monotone ==
    ASSUME NEW a \in Int, NEW b \in Int, NEW m \in Nat, a <= b
    PROVE  a * m <= b * m
OBVIOUS

LEMMA FitsLeave ==
    ASSUME NEW X, IsFiniteSet(X), NEW t \in X, NEW f, NEW g,
           NEW m \in Nat, \A u \in X : f[u] \in 0..m,
           \A u \in X \ {t} : g[u] = f[u],
           NEW c \in Int, NEW d \in Int, d <= c + f[t],
           NEW cap \in Int, NEW n \in Nat,
           Fits(c, X, f, m, cap, n)
    PROVE  Fits(d, X \ {t}, g, m, cap, n)
<1> DEFINE Y == X \ {t}
           k == Cardinality(X)
           l == cap + (n - 1) * m
<1>1. k \in Nat /\ Cardinality(Y) = k - 1 /\ k - 1 \in Nat
  <2>1. IsFiniteSet(Y) /\ Cardinality(Y) = k - 1
    BY FS_RemoveElement
  <2>2. k \in Nat /\ Cardinality(Y) \in Nat
    BY <2>1, FS_CardinalityType
  <2> QED BY <2>1, <2>2
<1>2. l \in Int
  <2>1. n \in Int /\ m \in Int
    OBVIOUS
  <2>2. (n - 1) * m \in Int
    BY <2>1, Distribute
  <2> QED BY <2>2
<1>3. PICK u \in X : c + f[u] + (k - 1) * m <= l
  BY DEF Fits
<1>4. /\ (k - 1) * m \in Nat /\ (k - 2) * m = (k - 1) * m - m /\ (k - 2) * m \in Int
  BY <1>1, Distribute, NonNegative
<1>5. f[t] \in Int /\ f[u] \in Int /\ f[t] <= m /\ f[u] <= m /\ 0 <= f[u] /\ 0 <= f[t]
  BY <1>3
<1>6. CASE Y = {}
  <2>1. u = t
    BY <1>3, <1>6
  <2>2. d <= l
    BY <1>2, <1>3, <1>4, <1>5, <2>1
  <2> QED BY <1>6, <2>2 DEF Fits
<1>7. CASE Y # {}
  <2>1. PICK v \in Y : u # t => v = u
    BY <1>3, <1>7
  <2>2. g[v] = f[v] /\ f[v] \in Int /\ f[v] <= m
    BY <2>1
  <2>3. d + g[v] + (k - 2) * m <= l
    <3>1. CASE u = t
      BY <1>2, <1>3, <1>4, <1>5, <2>2, <3>1
    <3>2. CASE u # t
      BY <1>2, <1>3, <1>4, <1>5, <2>1, <2>2, <3>2
    <3> QED BY <3>1, <3>2
  <2>4. (Cardinality(Y) - 1) * m = (k - 2) * m
    BY <1>1
  <2>5. d + g[v] + (Cardinality(Y) - 1) * m <= cap + (n - 1) * m
    BY <2>3, <2>4
  <2> QED BY <1>7, <2>1, <2>5 DEF Fits
<1> QED BY <1>6, <1>7

LEMMA FitsEnter ==
    ASSUME NEW X, IsFiniteSet(X), NEW t, t \notin X, NEW g,
           NEW m \in Nat, NEW c \in Int, NEW cap \in Int, NEW n \in Nat,
           Cardinality(X) < n, g[t] \in Int, c + g[t] <= cap
    PROVE  Fits(c, X \union {t}, g, m, cap, n)
<1> DEFINE k == Cardinality(X)
<1>1. k \in Nat /\ Cardinality(X \union {t}) = k + 1
  BY FS_AddElement, FS_CardinalityType
<1>2. k * m <= (n - 1) * m /\ k * m \in Int /\ (n - 1) * m \in Int
  BY <1>1, Monotone
<1>3. (Cardinality(X \union {t}) - 1) * m = k * m
  <2>1. Cardinality(X \union {t}) - 1 = k
    BY <1>1
  <2> QED BY <2>1
<1>4. c + g[t] + (Cardinality(X \union {t}) - 1) * m <= cap + (n - 1) * m
  BY <1>2, <1>3
<1> QED BY <1>4 DEF Fits

LEMMA ExposedFinite ==
    ASSUME NEW w \in Windows
    PROVE  /\ Exposed(w) \subseteq Threads /\ IsFiniteSet(Exposed(w))
           /\ Cardinality(Exposed(w)) \in Nat
<1>1. Exposed(w) \in SUBSET Threads
  BY DEF Exposed
<1> QED BY <1>1, ThreadsAssumption, FS_Subset, FS_CardinalityType

LEMMA ThreadCount == Cardinality(Threads) \in Nat \ {0}
BY ThreadsAssumption, FS_CardinalityType, FS_EmptySet

LEMMA CapType == ASSUME NEW w \in Windows PROVE Cap[w] \in Int
BY ThreadsAssumption DEF Cap, Windows

(* What the threads exposed to a window may add to it. *)
LEMMA ChargeBounds ==
    ASSUME Base, NEW w \in Windows, NEW e \in Estimates, \A f \in Estimates : f <= e
    PROVE  /\ Most(w, e) \in Nat
           /\ \A t \in Exposed(w) : Charges(w)[t] \in 0..Most(w, e)
           /\ \A t \in Threads : Added(t, w) \in Int /\ Charges(w)[t] = Added(t, w)
<1>1. e \in Nat /\ Estimates \subseteq Nat
  BY ThreadsAssumption
<1>2. Most(w, e) \in Nat
  BY <1>1 DEF Most
<1>3. ASSUME NEW t \in Threads
      PROVE  Added(t, w) \in Int /\ Charges(w)[t] = Added(t, w)
  BY DEF Base, TypeOK, Frame, Added, Charges
<1>4. ASSUME NEW t \in Exposed(w) PROVE Charges(w)[t] \in 0..Most(w, e)
  <2>1. t \in Threads /\ frame[t].method = "reserve" /\ pc[t] \in {"read", "decide", "incr"}
    BY DEF Exposed, Base, LocalsOK, LocalOK
  <2>2. frame[t].tokens \in Estimates
    BY <2>1 DEF Base, LocalsOK, LocalOK
  <2>3. frame[t].tokens \in Nat /\ frame[t].tokens <= e
    BY <1>1, <2>2
  <2>4. CASE w = 1
    BY <1>3, <2>1, <2>4 DEF Added, Most
  <2>5. CASE w # 1
    BY <1>3, <2>1, <2>3, <2>5 DEF Added, Most
  <2> QED BY <2>4, <2>5
<1> QED BY <1>2, <1>3, <1>4

(* The three ways a step of thread t can change who is exposed to a window.     *)
LEMMA RoomKept ==
    ASSUME Base, NEW w \in Windows, NEW e \in Estimates, \A f \in Estimates : f <= e,
           Room(w, e), Exposed(w)' = Exposed(w), counts'[w] \in Int, counts'[w] <= counts[w],
           \A t \in Exposed(w) : Added(t, w)' = Added(t, w)
    PROVE  Room(w, e)'
<1> DEFINE X == Exposed(w)
           m == Most(w, e)
           n == Cardinality(Threads)
<1>1. /\ counts[w] \in Int /\ X \subseteq Threads /\ Cardinality(X) \in Nat /\ m \in Nat
      /\ n \in Nat /\ Cap[w] \in Int
  BY ExposedFinite, ChargeBounds, ThreadCount, CapType DEF Base, TypeOK
<1>2. (n - 1) * m \in Int /\ (Cardinality(X) - 1) * m \in Int
  BY <1>1, Distribute
<1>3. \A t \in X : /\ Charges(w)[t] = Added(t, w) /\ Charges(w)'[t] = Added(t, w)
                  /\ Added(t, w) \in Int
  BY <1>1, ChargeBounds DEF Charges
<1>4. CASE X = {}
  <2>1. counts[w] <= Cap[w] + (n - 1) * m
    BY <1>4 DEF Room, Fits
  <2>2. counts'[w] <= Cap[w] + (n - 1) * m
    BY <1>1, <1>2, <2>1
  <2> QED BY <1>4, <2>2 DEF Room, Fits, Most
<1>5. CASE X # {}
  <2>1. PICK t \in X :
          counts[w] + Charges(w)[t] + (Cardinality(X) - 1) * m <= Cap[w] + (n - 1) * m
    BY <1>5 DEF Room, Fits
  <2>2. counts'[w] + Charges(w)'[t] + (Cardinality(X) - 1) * m <= Cap[w] + (n - 1) * m
    BY <1>1, <1>2, <1>3, <2>1
  <2> QED BY <1>5, <2>1, <2>2 DEF Room, Fits, Most
<1> QED BY <1>4, <1>5

LEMMA RoomLeft ==
    ASSUME Base, NEW w \in Windows, NEW e \in Estimates, \A f \in Estimates : f <= e,
           Room(w, e), NEW t \in Exposed(w), Exposed(w)' = Exposed(w) \ {t},
           counts'[w] \in Int, counts'[w] <= counts[w] + Added(t, w),
           \A u \in Exposed(w)' : Added(u, w)' = Added(u, w)
    PROVE  Room(w, e)'
<1> DEFINE X == Exposed(w)
           m == Most(w, e)
           n == Cardinality(Threads)
<1>1. /\ counts[w] \in Int /\ X \subseteq Threads /\ IsFiniteSet(X) /\ m \in Nat
      /\ n \in Nat /\ Cap[w] \in Int
      /\ \A u \in X : Charges(w)[u] \in 0..m /\ Charges(w)[u] = Added(u, w)
  BY ExposedFinite, ChargeBounds, ThreadCount, CapType DEF Base, TypeOK
<1>2. \A u \in X \ {t} : Charges(w)'[u] = Charges(w)[u]
  BY <1>1 DEF Charges
<1>3. Fits(counts[w], X, Charges(w), m, Cap[w], n)
  BY DEF Room
<1>4. Fits(counts'[w], X \ {t}, Charges(w)', m, Cap[w], n)
  BY <1>1, <1>2, <1>3, FitsLeave
<1> QED BY <1>4 DEF Room, Most

LEMMA RoomEntered ==
    ASSUME Base, NEW w \in Windows, NEW e \in Estimates, \A f \in Estimates : f <= e,
           NEW t \in Threads, t \notin Exposed(w), Exposed(w)' = Exposed(w) \union {t},
           counts'[w] = counts[w], Added(t, w)' = Added(t, w),
           counts[w] + Added(t, w) <= Cap[w]
    PROVE  Room(w, e)'
<1> DEFINE X == Exposed(w)
           m == Most(w, e)
           n == Cardinality(Threads)
<1>1. /\ counts[w] \in Int /\ IsFiniteSet(X) /\ m \in Nat /\ n \in Nat /\ Cap[w] \in Int
      /\ Charges(w)'[t] = Added(t, w) /\ Added(t, w) \in Int
  BY ExposedFinite, ChargeBounds, ThreadCount, CapType DEF Base, TypeOK, Charges
<1>2. Cardinality(X) < n
  <2>1. X \in SUBSET Threads /\ X # Threads
    BY ExposedFinite
  <2> QED BY <2>1, <1>1, ThreadsAssumption, FS_Subset, FS_CardinalityType
<1>3. Fits(counts[w], X \union {t}, Charges(w)', m, Cap[w], n)
  BY <1>1, <1>2, FitsEnter
<1> QED BY <1>3 DEF Room, Most

LEMMA RoomInit == Init => RoomForAll
<1> SUFFICES ASSUME Init, NEW w \in Windows, NEW e \in Estimates PROVE Room(w, e)
  BY DEF RoomForAll
<1>1. Exposed(w) = {} /\ counts[w] = 0
  BY DEF Init, Exposed
<1>2. Cap[w] \in Nat /\ Most(w, e) \in Nat /\ Cardinality(Threads) - 1 \in Nat
  BY ThreadsAssumption, ThreadCount DEF Cap, Windows, Most
<1>3. (Cardinality(Threads) - 1) * Most(w, e) \in Nat
  BY <1>2, NonNegative
<1>4. counts[w] <= Cap[w] + (Cardinality(Threads) - 1) * Most(w, e)
  BY <1>1, <1>2, <1>3
<1> QED BY <1>1, <1>4 DEF Room, Fits

LEMMA ExposedElse ==
    ASSUME NEW t \in Threads, Others(t), NEW w \in Windows, NEW u \in Threads, u # t
    PROVE  (u \in Exposed(w)' <=> u \in Exposed(w)) /\ Added(u, w)' = Added(u, w)
BY DEF Others, Exposed, Added

(* t is exposed before, and after, as it was: nothing changes.                  *)
LEMMA RoomStep ==
    ASSUME Base, Generous, NEW t \in Threads, Thread(t), UNCHANGED store,
           NEW w \in Windows, NEW e \in Estimates, \A f \in Estimates : f <= e,
           Room(w, e), Others(t), counts' \in [Windows -> Int]
    PROVE  Room(w, e)'
<1> USE DEF Base
<1>1. counts[w] \in Int /\ counts'[w] \in Int /\ Added(t, w) \in Int
  BY ChargeBounds DEF TypeOK
<1>2. ASSUME t \in Exposed(w)' <=> t \in Exposed(w), counts'[w] <= counts[w],
             t \in Exposed(w) => Added(t, w)' = Added(t, w)
      PROVE  Room(w, e)'
  <2>1. Exposed(w)' = Exposed(w)
    BY <1>2, ExposedElse DEF Exposed
  <2>2. \A u \in Exposed(w) : Added(u, w)' = Added(u, w)
    BY <1>2, ExposedElse DEF Exposed
  <2> QED BY <1>1, <1>2, <2>1, <2>2, RoomKept
<1>3. ASSUME t \in Exposed(w), t \notin Exposed(w)', counts'[w] <= counts[w] + Added(t, w)
      PROVE  Room(w, e)'
  <2>1. Exposed(w)' = Exposed(w) \ {t}
    BY <1>3, ExposedElse DEF Exposed
  <2>2. \A u \in Exposed(w)' : Added(u, w)' = Added(u, w)
    BY <1>3, <2>1, ExposedElse DEF Exposed
  <2> QED BY <1>1, <1>3, <2>1, <2>2, RoomLeft
<1>4. CASE Begin(t) \/ Commit(t)
  BY <1>1, <1>2, <1>4, EnterEffect DEF Exposed, NoCall, Call, Windows
<1>5. CASE ReadWindow(t)
  <2> DEFINE v == frame[t].window
  <2>1. /\ v \in Windows /\ UNCHANGED counts
        /\ pc[t] = "read" /\ pc'[t] = (IF v < 3 THEN "read" ELSE "decide")
        /\ frame'[t].tokens = frame[t].tokens
        /\ frame'[t].window = (IF v < 3 THEN v + 1 ELSE 1)
        /\ frame'[t].seen[v] = counts[v]
        /\ \A x \in Windows : x # v => frame'[t].seen[x] = frame[t].seen[x]
    BY <1>5, ReadEffect
  <2>2. Added(t, w)' = Added(t, w)
    BY <2>1 DEF Added
  <2>3. CASE w # v
    <3>1. t \in Exposed(w)' <=> t \in Exposed(w)
      BY <2>1, <2>2, <2>3 DEF Exposed, Windows
    <3> QED BY <1>1, <1>2, <2>1, <2>2, <3>1
  <2>4. CASE w = v
    <3>1. t \notin Exposed(w)
      BY <2>1, <2>4 DEF Exposed, Windows
    <3>2. t \in Exposed(w)' <=> counts[w] + Added(t, w) <= Cap[w]
      BY <2>1, <2>2, <2>4 DEF Exposed, Windows
    <3>3. CASE t \in Exposed(w)'
      <4>1. Exposed(w)' = Exposed(w) \union {t}
        BY <3>3, ExposedElse DEF Exposed
      <4> QED BY <2>1, <2>2, <3>1, <3>2, <3>3, <4>1, RoomEntered
    <3>4. CASE t \notin Exposed(w)'
      BY <1>1, <1>2, <2>1, <3>1, <3>4
    <3> QED BY <3>3, <3>4
  <2> QED BY <2>3, <2>4
<1>6. CASE Deny(t) \/ Abandon(t)
  <2>1. UNCHANGED counts /\ t \notin Exposed(w)'
    BY <1>6, LeaveEffect DEF Exposed
  <2>2. CASE t \in Exposed(w)
    <3>1. 0 <= Added(t, w)
      BY <2>2, ChargeBounds
    <3> QED BY <1>1, <1>3, <2>1, <2>2, <3>1
  <2>3. CASE t \notin Exposed(w)
    BY <1>1, <1>2, <2>1, <2>3
  <2> QED BY <2>2, <2>3
<1>7. CASE Grant(t)
  <2>1. t \in Exposed(w) /\ t \in Exposed(w)' /\ UNCHANGED counts
    BY <1>7, GrantEffect DEF Exposed, Windows
  <2>2. Added(t, w)' = Added(t, w)
    BY <1>7, GrantEffect DEF Added
  <2> QED BY <1>1, <1>2, <2>1, <2>2
<1>8. CASE IncrGet(t)
  BY <1>8, GetEffect DEF Generous
<1>9. CASE IncrAtomic(t) \/ IncrSet(t)
  <2> DEFINE v == frame[t].window
  <2>1. /\ NextWindow(t) /\ v \in Windows /\ pc[t] = "incr"
        /\ counts'[v] = counts[v] + Added(t, v)
        /\ \A x \in Windows : x # v => counts'[x] = counts[x]
    BY <1>9, IncrEffect DEF Generous, TypeOK, LocalsOK, LocalOK
  <2>2. /\ frame'[t] \in Frame
        /\ IF v < 3
           THEN /\ pc'[t] = "incr" /\ frame'[t].window = v + 1
                /\ frame'[t].method = frame[t].method
                /\ frame'[t].tokens = frame[t].tokens
           ELSE /\ pc'[t] = (IF frame[t].method = "reserve" THEN "calling" ELSE "idle")
                /\ frame'[t] = NoCall
    BY <2>1, NextWindowEffect
  <2>3. CASE w # v
    <3>1. t \in Exposed(w)' <=> t \in Exposed(w)
      BY <2>1, <2>2, <2>3 DEF Exposed, Windows
    <3>2. t \in Exposed(w) => Added(t, w)' = Added(t, w)
      BY <2>1, <2>2, <2>3 DEF Exposed, Windows, Added
    <3> QED BY <1>1, <1>2, <2>1, <2>3, <3>1, <3>2
  <2>4. CASE w = v
    <3>1. t \notin Exposed(w)'
      BY <2>1, <2>2, <2>4 DEF Exposed, Windows
    <3>2. CASE t \in Exposed(w)
      BY <1>1, <1>3, <2>1, <2>4, <3>1, <3>2
    <3>3. CASE t \notin Exposed(w)
      <4>1. frame[t].method = "commit" /\ w # 1
        BY <2>1, <2>4, <3>3 DEF Exposed, TypeOK, Frame, LocalsOK, LocalOK, Windows
      <4>2. Added(t, w) <= 0
        BY <4>1 DEF Added, Generous, LocalsOK, LocalOK
      <4> QED BY <1>1, <1>2, <2>1, <2>4, <3>1, <3>3, <4>2
    <3> QED BY <3>2, <3>3
  <2> QED BY <2>3, <2>4
<1> QED BY <1>4, <1>5, <1>6, <1>7, <1>8, <1>9 DEF Thread

LEMMA ThreadEffect ==
    ASSUME Base, NEW t \in Threads, Thread(t)
    PROVE  Others(t) /\ counts' \in [Windows -> Int]
<1> USE DEF Base
<1>1. CASE Begin(t) \/ Commit(t)
  BY <1>1, EnterEffect DEF TypeOK
<1>2. CASE Deny(t) \/ Abandon(t)
  BY <1>2, LeaveEffect DEF TypeOK
<1>3. CASE ReadWindow(t)
  BY <1>3, ReadEffect DEF TypeOK
<1>4. CASE Grant(t)
  BY <1>4, GrantEffect DEF TypeOK
<1>5. CASE IncrAtomic(t) \/ IncrSet(t)
  BY <1>5, IncrEffect DEF TypeOK
<1>6. CASE IncrGet(t)
  BY <1>6, GetEffect DEF TypeOK
<1> QED BY <1>1, <1>2, <1>3, <1>4, <1>5, <1>6 DEF Thread

LEMMA RoomNext == Base /\ RoomForAll /\ [Next]_vars => RoomForAll'
<1> SUFFICES ASSUME Base, RoomForAll, [Next]_vars, Generous',
                    NEW w \in Windows, NEW e \in Estimates, \A f \in Estimates : f <= e
             PROVE  Room(w, e)'
  BY DEF RoomForAll
<1>1. UNCHANGED store
  BY DEF Next, vars
<1>2. Generous
  BY <1>1 DEF Generous, NoShortEstimate
<1>3. Room(w, e)
  BY <1>2 DEF RoomForAll
<1>4. CASE UNCHANGED vars
  <2>1. Exposed(w)' = Exposed(w) /\ Charges(w)' = Charges(w) /\ counts' = counts
    BY <1>4 DEF vars, Exposed, Charges, Added
  <2> QED BY <1>3, <2>1 DEF Room, Most
<1>5. ASSUME NEW t \in Threads, Thread(t) PROVE Room(w, e)'
  BY <1>1, <1>2, <1>3, <1>5, ThreadEffect, RoomStep
<1> QED BY <1>4, <1>5 DEF Next

LEMMA RoomInvariance == Spec => [](Base /\ RoomForAll)
BY BaseInit, BaseStep, RoomInit, RoomNext, PTL DEF Spec

(* However the threads' reads and charges interleave over a store whose incr is *)
(* atomic, each window is overshot by at most one charge per other thread.      *)
THEOREM OvershootIsBounded == Spec => []OvershootByThreads
<1>1. Base /\ RoomForAll => OvershootByThreads
  <2> SUFFICES ASSUME Base, RoomForAll, store = "atomic", NoShortEstimate,
                      NEW w \in Windows, NEW e \in Estimates, \A f \in Estimates : f <= e
               PROVE  counts[w] <= Cap[w] + (Cardinality(Threads) - 1) * Most(w, e)
    BY DEF OvershootByThreads, NoShortEstimate, Most
  <2> DEFINE X == Exposed(w)
             m == Most(w, e)
             n == Cardinality(Threads)
  <2>1. Fits(counts[w], X, Charges(w), m, Cap[w], n)
    BY DEF RoomForAll, Generous, Room
  <2>2. CASE X = {}
    BY <2>1, <2>2 DEF Fits
  <2>3. CASE X # {}
    <3>1. PICK t \in X :
            counts[w] + Charges(w)[t] + (Cardinality(X) - 1) * m <= Cap[w] + (n - 1) * m
      BY <2>1, <2>3 DEF Fits
    <3>2. IsFiniteSet(X) /\ Cardinality(X) \in Nat
      BY ExposedFinite
    <3>3. Cardinality(X) - 1 \in Nat
      BY <2>3, <3>2, FS_EmptySet
    <3>4. m \in Nat /\ Charges(w)[t] \in 0..m
      BY ChargeBounds
    <3>5. (Cardinality(X) - 1) * m \in Nat
      BY <3>3, <3>4, NonNegative
    <3>6. counts[w] \in Int /\ Cap[w] \in Int /\ n \in Int
      BY CapType, ThreadCount DEF Base, TypeOK
    <3>7. (n - 1) * m \in Int
      BY <3>4, <3>6, Distribute
    <3>8. Charges(w)[t] \in Nat
      BY <3>4
    <3> QED BY <3>1, <3>5, <3>6, <3>7, <3>8
  <2> QED BY <2>2, <2>3
<1> QED BY <1>1, RoomInvariance, PTL

-------------------------------------------------------------------------------
(* Exactness *)

(* The windows whose cap a correction cannot exceed. *)
Capped(w) == w = 1 \/ NoShortEstimate

Read(t, w) == pc[t] = "decide" \/ (pc[t] = "read" /\ frame[t].window > w)

(* What the one thread inside knows of a window.                                *)
ExactOn(t, w) ==
    /\ counts[w] + Left(t, w) = ledger[w]
    /\ Read(t, w) => frame[t].seen[w] = counts[w]
    /\ pc[t] = "set" /\ frame[t].window = w => frame[t].got = counts[w]
    /\ Capped(w) => counts[w] <= Cap[w] /\ counts[w] + Left(t, w) <= Cap[w]

ExactAt(t) == \A w \in Windows : ExactOn(t, w)

(* What a window shows when no thread is inside.                                *)
Balanced(w) == counts[w] = ledger[w] /\ (Capped(w) => counts[w] <= Cap[w])

AtRest == \A w \in Windows : Balanced(w)

(* As long as calls do not overlap, one thread at most is inside, and what it   *)
(* read is still so.                                                            *)
Exact ==
    ~overlapped =>
      /\ \A t, u \in Inside(pc) : t = u
      /\ \A t \in Inside(pc) : ExactAt(t)
      /\ Inside(pc) = {} => AtRest

LEMMA AtMostOne ==
    ASSUME NEW S, IsFiniteSet(S), ~(Cardinality(S) > 1), NEW a \in S, NEW b \in S
    PROVE  a = b
<1>1. IsFiniteSet(S \ {a}) /\ Cardinality(S \ {a}) = Cardinality(S) - 1
  BY FS_RemoveElement
<1>2. Cardinality(S) \in Nat /\ Cardinality(S \ {a}) \in Nat
  BY <1>1, FS_CardinalityType
<1>3. Cardinality(S \ {a}) = 0
  BY <1>1, <1>2
<1>4. S \ {a} = {}
  BY <1>1, <1>3, FS_EmptySet
<1> QED BY <1>4

LEMMA ExactInit == Init => Exact
<1> SUFFICES ASSUME Init PROVE Exact
  OBVIOUS
<1>1. Inside(pc) = {}
  BY DEF Init, Inside
<1>2. \A w \in Windows : Cap[w] \in Nat
  BY ThreadsAssumption DEF Cap, Windows
<1>3. AtRest
  BY <1>2 DEF Init, AtRest, Balanced
<1> QED BY <1>1, <1>3 DEF Exact

LEMMA ExactStep == Base /\ Base' /\ Exact /\ [Next]_vars => Exact'
<1> SUFFICES ASSUME Base, Base', Exact, [Next]_vars, ~overlapped' PROVE Exact'
  BY DEF Exact
<1> USE DEF Base
<1>0. NoShortEstimate' = NoShortEstimate /\ \A w \in Windows : Capped(w)' = Capped(w)
  BY DEF NoShortEstimate, Capped
<1>1. CASE UNCHANGED vars
  <2>1. Inside(pc') = Inside(pc) /\ overlapped' = overlapped
    BY <1>1 DEF vars
  <2>2. \A t, w : ExactOn(t, w)' = ExactOn(t, w)
    BY <1>1 DEF vars, ExactOn, Left, Added, Read, Capped, NoShortEstimate
  <2>3. AtRest' = AtRest
    BY <1>1 DEF vars, AtRest, Balanced, Capped, NoShortEstimate
  <2> QED BY <2>1, <2>2, <2>3 DEF Exact, ExactAt
<1>2. ASSUME NEW t \in Threads, Thread(t),
             overlapped' = (overlapped \/ Cardinality(Inside(pc')) > 1)
      PROVE  Exact'
  <2>1. /\ \A u \in Inside(pc) : u = t \/ t \notin Inside(pc)
        /\ \A u \in Inside(pc) : ExactAt(u)
        /\ Inside(pc) = {} => AtRest
    BY <1>2 DEF Exact
  <2>2. \A u, v \in Inside(pc') : u = v
    <3>1. ~(Cardinality(Inside(pc')) > 1)
      BY <1>2
    <3>2. IsFiniteSet(Inside(pc'))
      <4>1. Inside(pc') \in SUBSET Threads
        BY DEF Inside
      <4> QED BY <4>1, ThreadsAssumption, FS_Subset
    <3> QED BY <3>1, <3>2, AtMostOne
  <2>3. Others(t)
    BY <1>2, ThreadEffect
  <2>4. \A w \in Windows : /\ counts[w] \in Int /\ ledger[w] \in Int /\ Cap[w] \in Int
                           /\ Added(t, w) \in Int
    BY CapType, OwedType DEF TypeOK
  <2>5. ASSUME t \in Inside(pc'), ExactAt(t)' PROVE Exact'
    BY <2>2, <2>5 DEF Exact, Inside
  <2>6. ASSUME t \in Inside(pc), t \notin Inside(pc'), AtRest'
        PROVE  Exact'
    <3>1. Inside(pc') = {}
      BY <2>1, <2>3, <2>6 DEF Others, Inside
    <3> QED BY <2>6, <3>1 DEF Exact, Inside
  <2>7. ASSUME t \notin Inside(pc), t \notin Inside(pc'), UNCHANGED counts,
               \A w \in Windows : ledger'[w] = ledger[w]
        PROVE  Exact'
    <3>1. Inside(pc') = Inside(pc)
      BY <2>3, <2>7 DEF Others, Inside
    <3>2. \A u \in Inside(pc) : pc'[u] = pc[u] /\ frame'[u] = frame[u]
      BY <2>3, <2>7 DEF Others, Inside
    <3>3. \A u \in Inside(pc), w \in Windows : ExactOn(u, w) => ExactOn(u, w)'
      BY <1>0, <2>7, <3>2 DEF ExactOn, Left, Added, Read
    <3>4. \A u \in Inside(pc) : ExactAt(u)'
      BY <2>1, <3>3 DEF ExactAt
    <3>5. AtRest => AtRest'
      BY <1>0, <2>7 DEF AtRest, Balanced
    <3> QED BY <2>1, <2>2, <3>1, <3>4, <3>5 DEF Exact, Inside
  <2>8. ASSUME t \notin Inside(pc), t \in Inside(pc')
        PROVE  AtRest
    <3>1. Inside(pc) = {}
      BY <2>2, <2>3, <2>8 DEF Others, Inside
    <3> QED BY <2>1, <3>1
  <2>9. t \in Inside(pc) => ExactAt(t)
    BY <2>1
  <2>10. CASE Begin(t) \/ Commit(t)
    <3>1. UNCHANGED counts /\ t \notin Inside(pc) /\ frame'[t] \in Frame
      BY <2>10, EnterEffect DEF Inside
    <3>2. ASSUME pc'[t] = "idle", Booked(0, 0) PROVE Exact'
      <4>1. \A w \in Windows : ledger'[w] = ledger[w]
        BY <2>4, <3>2 DEF Booked
      <4> QED BY <2>7, <3>1, <3>2, <4>1 DEF Inside
    <3>3. ASSUME pc'[t] = "read", frame'[t].window = 1, UNCHANGED ledger
          PROVE  Exact'
      <4>1. t \in Inside(pc')
        BY <3>3 DEF Inside
      <4>2. AtRest
        BY <2>8, <3>1, <4>1
      <4>3. ASSUME NEW w \in Windows PROVE ExactOn(t, w)'
        <5>1. Balanced(w) /\ Left(t, w)' = 0 /\ ~Read(t, w)'
          BY <3>3, <4>2 DEF AtRest, Left, Read, Windows
        <5> QED BY <1>0, <2>4, <3>1, <3>3, <5>1 DEF Balanced, ExactOn
      <4> QED BY <2>5, <4>1, <4>3 DEF ExactAt
    <3>4. ASSUME pc'[t] = "incr", frame'[t].method = "commit", frame'[t].window = 2,
                 Booked(0, frame'[t].tokens)
          PROVE  Exact'
      <4>1. t \in Inside(pc')
        BY <3>4 DEF Inside
      <4>2. AtRest
        BY <2>8, <3>1, <4>1
      <4>3. frame'[t].tokens \in Int /\ (NoShortEstimate => frame'[t].tokens <= 0)
        BY <1>0, <3>1, <3>4 DEF Frame, LocalsOK, LocalOK
      <4>4. ASSUME NEW w \in Windows PROVE ExactOn(t, w)'
        <5>1. Balanced(w) /\ ~Read(t, w)'
          BY <3>4, <4>2 DEF AtRest, Read
        <5>2. Left(t, w)' = IF w = 1 THEN 0 ELSE frame'[t].tokens
          BY <3>4 DEF Left, Added, Windows
        <5>3. ledger'[w] = ledger[w] + Left(t, w)'
          BY <3>4, <5>2 DEF Booked
        <5>4. Capped(w) => Left(t, w)' <= 0
          BY <4>3, <5>2 DEF Capped
        <5>5. Left(t, w)' \in Int
          BY <4>3, <5>2
        <5> QED BY <1>0, <2>4, <3>1, <3>4, <5>1, <5>3, <5>4, <5>5 DEF Balanced, ExactOn
      <4> QED BY <2>5, <4>1, <4>4 DEF ExactAt
    <3> QED BY <2>10, <3>2, <3>3, <3>4, EnterEffect
  <2>11. CASE ReadWindow(t)
    <3> DEFINE v == frame[t].window
    <3>1. /\ UNCHANGED <<counts, ledger>> /\ v \in Windows
          /\ pc[t] = "read" /\ pc'[t] = (IF v < 3 THEN "read" ELSE "decide")
          /\ frame'[t].window = (IF v < 3 THEN v + 1 ELSE 1)
          /\ frame'[t].seen[v] = counts[v]
          /\ \A w \in Windows : w # v => frame'[t].seen[w] = frame[t].seen[w]
      BY <2>11, ReadEffect
    <3>2. t \in Inside(pc) /\ t \in Inside(pc')
      BY <3>1 DEF Inside
    <3>3. ASSUME NEW w \in Windows PROVE ExactOn(t, w)'
      <4>1. ExactOn(t, w) /\ Left(t, w) = 0 /\ Left(t, w)' = 0
        BY <2>9, <3>1, <3>2 DEF ExactAt, Left
      <4>2. Read(t, w)' => w = v \/ Read(t, w)
        BY <3>1 DEF Read, Windows
      <4>3. Read(t, w)' => frame'[t].seen[w] = counts[w]
        BY <3>1, <4>1, <4>2 DEF ExactOn
      <4>4. pc'[t] # "set"
        BY <3>1
      <4> QED BY <1>0, <3>1, <4>1, <4>3, <4>4 DEF ExactOn
    <3> QED BY <2>5, <3>2, <3>3 DEF ExactAt
  <2>12. CASE Deny(t)
    <3>1. /\ UNCHANGED <<counts, ledger>> /\ pc[t] = "decide"
          /\ t \in Inside(pc) /\ t \notin Inside(pc')
      BY <2>12, LeaveEffect DEF Inside, Deny
    <3>2. ASSUME NEW w \in Windows PROVE Balanced(w)'
      <4>1. ExactOn(t, w) /\ Left(t, w) = 0
        BY <2>9, <3>1 DEF ExactAt, Left
      <4> QED BY <1>0, <2>4, <3>1, <4>1 DEF ExactOn, Balanced
    <3> QED BY <2>6, <3>1, <3>2 DEF AtRest
  <2>13. CASE Abandon(t)
    <3>1. UNCHANGED <<counts, ledger>> /\ t \notin Inside(pc) /\ t \notin Inside(pc')
      BY <2>13, LeaveEffect DEF Inside, Abandon
    <3> QED BY <2>7, <3>1
  <2>14. CASE Grant(t)
    <3>1. /\ UNCHANGED counts /\ Booked(1, frame[t].tokens)
          /\ pc[t] = "decide" /\ pc'[t] = "incr"
          /\ \A w \in Windows : frame[t].seen[w] + Added(t, w) <= Cap[w]
          /\ frame'[t].window = 1 /\ frame'[t].tokens = frame[t].tokens
      BY <2>14, GrantEffect
    <3>2. t \in Inside(pc) /\ t \in Inside(pc')
      BY <3>1 DEF Inside
    <3>3. ASSUME NEW w \in Windows PROVE ExactOn(t, w)'
      <4>1. ExactOn(t, w) /\ Left(t, w) = 0 /\ Read(t, w) /\ ~Read(t, w)'
        BY <2>9, <3>1, <3>2 DEF ExactAt, Left, Read
      <4>2. counts[w] = ledger[w] /\ counts[w] + Added(t, w) <= Cap[w]
        BY <2>4, <3>1, <4>1 DEF ExactOn
      <4>3. Left(t, w)' = Added(t, w) /\ ledger'[w] = ledger[w] + Added(t, w)
        BY <3>1 DEF Left, Added, Windows, Booked
      <4>4. Capped(w) => counts[w] <= Cap[w]
        BY <4>1 DEF ExactOn
      <4> QED BY <1>0, <2>4, <3>1, <4>1, <4>2, <4>3, <4>4 DEF ExactOn
    <3> QED BY <2>5, <3>2, <3>3 DEF ExactAt
  <2>15. CASE IncrGet(t)
    <3>1. /\ UNCHANGED <<counts, ledger>> /\ pc[t] = "incr" /\ pc'[t] = "set"
          /\ frame'[t].window = frame[t].window /\ frame'[t].tokens = frame[t].tokens
          /\ frame'[t].got = counts[frame[t].window]
      BY <2>15, GetEffect
    <3>2. t \in Inside(pc) /\ t \in Inside(pc')
      BY <3>1 DEF Inside
    <3>3. ASSUME NEW w \in Windows PROVE ExactOn(t, w)'
      <4>1. ExactOn(t, w) /\ Left(t, w)' = Left(t, w) /\ ~Read(t, w)'
        BY <2>9, <3>1, <3>2 DEF ExactAt, Left, Added, Read
      <4> QED BY <1>0, <3>1, <4>1 DEF ExactOn
    <3> QED BY <2>5, <3>2, <3>3 DEF ExactAt
  <2>16. CASE IncrAtomic(t) \/ IncrSet(t)
    <3> DEFINE v == frame[t].window
    <3>1. /\ NextWindow(t) /\ UNCHANGED ledger /\ v \in Windows /\ pc[t] \in {"incr", "set"}
          /\ \/ counts'[v] = counts[v] + Added(t, v)
             \/ pc[t] = "set" /\ counts'[v] = frame[t].got + Added(t, v)
          /\ \A w \in Windows : w # v => counts'[w] = counts[w]
      BY <2>16, IncrEffect DEF TypeOK
    <3>2. \/ v < 3 /\ pc'[t] = "incr" /\ frame'[t].window = v + 1
             /\ frame'[t].tokens = frame[t].tokens
          \/ v = 3 /\ pc'[t] \in {"calling", "idle"}
      BY <3>1, NextWindowEffect DEF Windows
    <3>3. t \in Inside(pc) /\ ExactAt(t)
      BY <2>9, <3>1 DEF Inside
    <3>4. ASSUME NEW w \in Windows
          PROVE  /\ counts'[w] + Left(t, w)' = ledger[w]
                 /\ Capped(w) => counts'[w] <= Cap[w] /\ counts'[w] + Left(t, w)' <= Cap[w]
      <4>1. ExactOn(t, w)
        BY <3>3 DEF ExactAt
      <4>2. CASE w = v
        <5>1. Left(t, w) = Added(t, w) /\ Left(t, w)' = 0
          BY <3>1, <3>2, <4>2 DEF Left, Windows
        <5>2. counts'[w] = counts[w] + Added(t, w)
          BY <3>1, <4>1, <4>2 DEF ExactOn
        <5> QED BY <2>4, <4>1, <5>1, <5>2 DEF ExactOn
      <4>3. CASE w # v
        <5>1. Left(t, w)' = Left(t, w)
          BY <3>1, <3>2, <4>3 DEF Left, Added, Windows
        <5> QED BY <3>1, <4>1, <4>3, <5>1 DEF ExactOn
      <4> QED BY <4>2, <4>3
    <3>5. CASE v < 3
      <4>1. t \in Inside(pc') /\ pc'[t] = "incr"
        BY <3>2, <3>5 DEF Inside
      <4>2. ASSUME NEW w \in Windows PROVE ExactOn(t, w)'
        BY <1>0, <3>1, <3>4, <4>1 DEF ExactOn, Read
      <4> QED BY <2>5, <4>1, <4>2 DEF ExactAt
    <3>6. CASE ~(v < 3)
      <4>1. t \notin Inside(pc') /\ pc'[t] \in {"calling", "idle"}
        BY <3>2, <3>6 DEF Inside
      <4>2. ASSUME NEW w \in Windows PROVE Balanced(w)'
        <5>1. Left(t, w)' = 0 /\ counts'[w] \in Int
          BY <4>1 DEF Left, TypeOK
        <5> QED BY <1>0, <3>1, <3>4, <5>1 DEF Balanced
      <4> QED BY <2>6, <3>3, <4>1, <4>2 DEF AtRest
    <3> QED BY <3>5, <3>6
  <2> QED BY <1>2, <2>10, <2>11, <2>12, <2>13, <2>14, <2>15, <2>16 DEF Thread
<1> QED BY <1>1, <1>2 DEF Next

LEMMA ExactInvariance == Spec => [](Base /\ Exact)
BY BaseInit, BaseStep, ExactInit, ExactStep, PTL DEF Spec

(* Until two calls of the manager overlap, every counter of either store is     *)
(* between calls what was granted and corrected; no request and, unless an      *)
(* answer takes more than was estimated, no token exceeds its cap.              *)
THEOREM SequentialCallsAreExact == Spec => []ExactWithoutOverlap
<1>1. Base /\ Exact => ExactWithoutOverlap
  <2> SUFFICES ASSUME Base, Exact, ~overlapped
               PROVE  /\ Inside(pc) = {} => counts = ledger
                      /\ \A w \in Windows : Capped(w) => counts[w] <= Cap[w]
    BY DEF ExactWithoutOverlap, Capped
  <2>1. counts \in [Windows -> Int] /\ ledger \in [Windows -> Int]
    BY DEF Base, TypeOK
  <2>2. CASE Inside(pc) = {}
    <3>1. \A w \in Windows : counts[w] = ledger[w] /\ (Capped(w) => counts[w] <= Cap[w])
      BY <2>2 DEF Exact, AtRest, Balanced
    <3> QED BY <2>1, <3>1
  <2>3. CASE Inside(pc) # {}
    <3>1. PICK t \in Inside(pc) : ExactAt(t)
      BY <2>3 DEF Exact
    <3> QED BY <2>3, <3>1 DEF ExactAt, ExactOn
  <2> QED BY <2>2, <2>3
<1> QED BY <1>1, ExactInvariance, PTL

===============================================================================
