------------------------------ MODULE Conditions ------------------------------
(* The failure taxonomy of types.ErrorClass and the three predicates the       *)
(* fallback handlers classify it with (fallback/conditions.py).                *)

ErrorClass == {"rate_limit", "quota", "auth", "transient", "invalid", "content"}

(* The same provider and key may be tried again after a backoff. *)
IsRetryable(class) == class = "transient"

(* The provider is healthy but unavailable to this caller right now. *)
IsFallbackWorthy(class) == class \in {"rate_limit", "quota"}

===============================================================================
