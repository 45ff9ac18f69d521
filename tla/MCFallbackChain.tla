--------------------------- MODULE MCFallbackChain ---------------------------
(* Small instances of FallbackChain for TLC.  Routes are cheapest first, as    *)
(* the router sorts them; the empty one is what it returns when nothing fits.  *)
EXTENDS FallbackChain

CONSTANTS free1, free2, paid

MCProviders == {free1, free2, paid}
MCFree == {free1, free2}

PairRoutes == {<<>>, <<paid>>, <<free1, free2>>, <<free1, paid>>}

===============================================================================
