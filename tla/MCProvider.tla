------------------------------ MODULE MCProvider ------------------------------
(* Values for the constants of ProviderCall. *)
EXTENDS ProviderCall

Of(d, s, e, f) == [dialect |-> d, streams |-> s, effort |-> e, fallback |-> f]

AllSetups ==
    {Of("claude", TRUE, TRUE, TRUE), Of("claude", TRUE, FALSE, FALSE), Of("claude", FALSE, FALSE, TRUE),
     Of("chat", TRUE, FALSE, FALSE), Of("chat", FALSE, FALSE, FALSE),
     Of("responses", TRUE, FALSE, FALSE)}

OnlyResponses == {Of("responses", TRUE, FALSE, FALSE)}

Text(n)     == [kind |-> "text", size |-> n]
Tool(n)     == [kind |-> "tool", size |-> n]
Thinking(n) == [kind |-> "thinking", size |-> n]

Given(blocks) == [blocks |-> blocks, cut |-> FALSE, silent |-> FALSE]

Sent(d) ==
    {Given(<<Text(1), Tool(2)>>), [Given(<<Text(1), Tool(2)>>) EXCEPT !.cut = TRUE]}
      \union (CASE d = "claude"    -> {Given(<<Thinking(1), Text(1)>>)}
                [] d = "responses" -> {Given(<<Tool(1), Tool(2)>>)}
                [] d = "chat"      -> {[Given(<<Tool(1), Tool(2)>>) EXCEPT !.silent = TRUE]})
=============================================================================
