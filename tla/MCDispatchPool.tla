---------------------------- MODULE MCDispatchPool ----------------------------
(* A small instance of DispatchPool for TLC: more callers than workers, so that *)
(* dispatches queue behind hung ones and outlive their callers.                 *)
EXTENDS DispatchPool

===============================================================================
