------------------------- MODULE MCPromptExecution -------------------------
(* The pane's loop on small instances: the budgets that may be armed. *)
EXTENDS PromptExecution

(* Two legs of one iteration, then a finalizer with the built-in share. *)
Steps == [total |-> 2, interval |-> 1, tokens |-> 0, timed |-> FALSE,
          finalizer |-> TRUE, finIter |-> 0, finTokens |-> 0]

(* Two tokens and a deadline, and a finalizer with a share of its own. *)
Limits == [total |-> 1, interval |-> 0, tokens |-> 2, timed |-> TRUE,
           finalizer |-> TRUE, finIter |-> 2, finTokens |-> 1]

StepBudget  == {Steps}
LimitBudget == {Limits}
AllBudgets  == {Steps, Limits}
=============================================================================
