------------------------------ MODULE WindowMeter ------------------------------
(* What the quota counters promise: a grant fits under every cap and charges    *)
(* all windows, a correction moves the two token windows alike, and a counter   *)
(* is zero again exactly when the clock passes the end of its period.           *)
EXTENDS Integers

CONSTANTS RequestCap, MinuteCap, DayCap, MinutesPerDay

VARIABLES now, used

vars == <<now, used>>

Init ==
    /\ now = 0
    /\ used = [w \in {"requests_per_min", "tokens_per_min", "tokens_per_day"} |-> 0]

Meters(requests, minute, day) ==
    used' = [w \in {"requests_per_min", "tokens_per_min", "tokens_per_day"} |->
               CASE w = "requests_per_min" -> requests
                 [] w = "tokens_per_min"   -> minute
                 [] w = "tokens_per_day"   -> day]

Grant ==
    /\ now' = now
    /\ used'["requests_per_min"] \in 0..RequestCap
    /\ used'["tokens_per_min"] <= MinuteCap
    /\ used'["tokens_per_day"] <= DayCap
    /\ LET tokens == used'["tokens_per_min"] - used["tokens_per_min"]
       IN  /\ tokens >= 0
           /\ Meters(used["requests_per_min"] + 1, used["tokens_per_min"] + tokens,
                     used["tokens_per_day"] + tokens)

Correct ==
    /\ now' = now
    /\ LET delta == used'["tokens_per_min"] - used["tokens_per_min"]
       IN  Meters(used["requests_per_min"], used["tokens_per_min"] + delta,
                  used["tokens_per_day"] + delta)

PassMinute ==
    /\ now' = now + 1
    /\ Meters(0, 0, IF now' % MinutesPerDay = 0 THEN 0 ELSE used["tokens_per_day"])

Next == Grant \/ Correct \/ PassMinute

Spec == Init /\ [][Next]_vars

===============================================================================
