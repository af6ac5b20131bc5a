------------------------------ MODULE Exchanges ------------------------------
(***************************************************************************)
(* Exchanges between actors.  In the scene "approval" panes answer the     *)
(* approvals that tool calls wait for; in the scene "request" calls of     *)
(* Request or Send reach some actors; in the scene "tree" orchestrators    *)
(* delegate to sub-agents.  The scenes share no state.                     *)
(***************************************************************************)
EXTENDS ApprovalGate, Integers

CONSTANTS
    Actor,         \* the actors that requests reach
    MaxRequests,   \* how many calls of Request and Send there are
    MaxAgents,     \* how many agents a tree may have
    RootCaps       \* the iterations a root may be configured with

ASSUME ExchangeAssumption == MaxAgents \in Nat \ {0} /\ RootCaps \subseteq Int

VARIABLES
    scene,         \* which exchange the behaviour is about
    pc, token, respNext, respWait, chan, outcome, reply, bridges, unread, inbox, routing,
    agent, mail, pending, acks, results, stop, stopped

Requests == INSTANCE RequestReply
    WITH slot <- chan, result <- outcome, answer <- reply, pending <- unread

requests == <<pc, token, respNext, respWait, chan, outcome, reply, bridges, unread, inbox, routing>>

Tree == INSTANCE SubAgents WITH cancelled <- stop

tree == <<agent, mail, pending, acks, results, stop, stopped>>

-----------------------------------------------------------------------------
EInit ==
    /\ Init /\ Requests!Init /\ Tree!Init
    /\ scene \in {"approval", "request", "tree"}

ENext ==
    /\ UNCHANGED scene
    /\ \/ scene = "approval" /\ Next /\ UNCHANGED <<requests, tree>>
       \/ scene = "request" /\ Requests!Next /\ UNCHANGED <<vars, tree>>
       \/ scene = "tree" /\ Tree!Next /\ UNCHANGED <<vars, requests>>

ESpec == EInit /\ [][ENext]_<<vars, requests, tree, scene>>

-----------------------------------------------------------------------------
(* Properties. *)

(* Replies reach their own callers and leave no trace (publisher.go:127).  *)
RepliesSafe == Requests!RepliesSafe

(* Children's results are theirs, whole and bounded (orchestrator.go:455). *)
TreeSafe == Tree!TreeSafe

(* A spawn request is answered, and a cancelled or finished tree ends as a *)
(* whole (orchestrator.go:2286, :2368).                                    *)
DelegationEnds == Tree!DelegationEnds
=============================================================================
