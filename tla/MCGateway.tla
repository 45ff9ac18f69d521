------------------------------- MODULE MCGateway -------------------------------
(* Small instances of Gateway for TLC: three names, one of which may be         *)
(* registered again with another tier and capability, and the default policy.   *)
EXTENDS Gateway

CONSTANTS mini, local, large

MCCatalog ==
    {[name |-> mini, tier |-> 1, tools |-> FALSE],
     [name |-> mini, tier |-> 3, tools |-> TRUE],
     [name |-> local, tier |-> 1, tools |-> TRUE],
     [name |-> large, tier |-> 3, tools |-> TRUE]}

MCFloor == [trivial |-> 0, simple |-> 1, moderate |-> 2, complex |-> 3]

===============================================================================
