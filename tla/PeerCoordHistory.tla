-------------------------- MODULE PeerCoordHistory --------------------------
(***************************************************************************)
(* The board with a history variable, for what its present state no longer *)
(* tells: which executions are still running on some machine.              *)
(***************************************************************************)
EXTENDS PeerCoord

VARIABLES
    live       \* <<task, attempt>> claimed, and not yet reported as ended

hvars == <<vars, live>>

(* An execution begins with its claim.  It ends when its worker says so    *)
(* (result, failure, confirmed cancellation) or when the operator confirms *)
(* it with task.resolve; a word of the leader alone stops nothing.         *)
Began == {<<t, task[t].attempt>> : t \in {u \in Task :
             task'[u].state = "claimed" /\ task[u].state # "claimed"}}

Ended == {<<t, task[t].attempt>> : t \in {u \in Task :
             \/ IsActive(u) /\ task'[u].state \in {"result_submitted", "failed"}
             \/ /\ task[u].state = "cancel_requested"
                /\ task'[u].state = "cancelled"}}

HInit == Init /\ live = {}

HNext ==
    /\ Next
    /\ live' = (live \ Ended) \cup Began

HSpec == HInit /\ [][HNext]_hvars

(* At most one execution of a task runs anywhere, and it is the one the    *)
(* board tracks: retry, cancel, rejoin and reassignment never leave an     *)
(* older execution running beside a newer one.                             *)
OneExecution ==
    \A e \in live : IsActive(e[1]) /\ e[2] = task[e[1]].attempt
=============================================================================
