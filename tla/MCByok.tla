-------------------------------- MODULE MCByok --------------------------------
(* Small instances of Byok for TLC: a cheap and a dearer vendor whose specs are *)
(* listed the other way round, and visitors that paste nothing, a blank, a key  *)
(* beside a blank, or two keys.                                                 *)
EXTENDS Byok

MCSpecs == <<"openai", "gemini">>

MCProviders == {"openai", "gemini"}

MCRoutes == {<<>>, <<"gemini">>, <<"openai">>, <<"gemini", "openai">>}

MCPasted == {<<>>, <<Blank>>, <<"k1">>, <<Blank, "k2">>, <<"k1", "k2">>}

===============================================================================
