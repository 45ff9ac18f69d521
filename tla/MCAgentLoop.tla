------------------------------ MODULE MCAgentLoop ------------------------------
(* Small instances of AgentLoop for TLC: one usable tool and one nobody         *)
(* registered a handler for, answers with up to two calls, a history that ends  *)
(* with the user's question and may hold an earlier answer.                     *)
EXTENDS AgentLoop

MCRoutes == {<<>>, <<1, 1>>}

MCToolNames == {"search", "missing"}

MCRegistries ==
    {[search |-> h, missing |-> "unknown"] : h \in Handlers \ {"unknown"}}

(* A caller may hand over a conversation with tool calls, ids and all. *)
Called == [id |-> <<0, 0>>, name |-> "search"]

MCHistories ==
    {<<>>, <<Text("user", 1)>>,
     <<Text("system", 0), Text("user", 0), Assistant(<<Called>>, 0),
       ToolResult(Called, FALSE, 0), Assistant(<<>>, 0), Text("user", 1)>>}

MCVendorAt == <<"gemini", "openai">>

MCCallLists == {<<>>, <<"missing">>, <<"search", "missing">>}

===============================================================================
