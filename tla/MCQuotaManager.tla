----------------------------- MODULE MCQuotaManager ----------------------------
(* Small instances of QuotaManager for TLC. *)
EXTENDS QuotaManager

CONSTANTS d1, d2

MCDispatches == {d1, d2}

===============================================================================
