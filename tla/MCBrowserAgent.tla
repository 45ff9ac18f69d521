---------------------------- MODULE MCBrowserAgent ----------------------------
(* Small instances of BrowserAgent for TLC: one or two providers with none, an  *)
(* empty, one or two pooled keys, and the keyless Ollama.                       *)
EXTENDS BrowserAgent

Pool(provider, keys) == [provider |-> provider, apiKeys |-> keys]

MCCredentials ==
    {Pool("gemini", keys) : keys \in {<<>>, <<"">>, <<"g1">>, <<"g1", "g2">>}}
      \union {Pool("openai", <<"", "o1">>), Pool("ollama", <<>>)}

MCConfigs ==
    {<<>>} \union {<<c>> : c \in MCCredentials}
      \union {s \in MCCredentials \X MCCredentials : s[1].provider # s[2].provider}

===============================================================================
