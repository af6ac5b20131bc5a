\* Two requests at a time, answered by two panes, with timeouts, cancels and a failing subscription; two requests over the publisher; a tree of sub-agents.
SPECIFICATION MCSpec
CONSTANTS
    Group = {"g1", "g2"}
    Owner <- MainAndChild
    Decision = {"yes", "no"}
    Says <- Disagree
    SubscribeOK = {TRUE, FALSE}
    MaxQueue = 1
    Actor = {"a1", "a2"}
    MaxRequests = 2
    MaxAgents = 3
    RootCaps = {9, 30, 60}
INVARIANTS OwnAnswer AnswersSettle RepliesSafe TreeSafe
PROPERTIES AnswerHeard DelegationEnds
CHECK_DEADLOCK FALSE
