---------------------------- MODULE ApprovalGate ----------------------------
(***************************************************************************)
(* An approval between an orchestrator and the humans that look at it.     *)
(* The orchestrator publishes the request, then subscribes to the pane's   *)
(* response subject and waits.  The execution actor's bridge listens to    *)
(* the same subject: the actor forwards what it hears to the active        *)
(* orchestrator, whose handler publishes it on that subject again.         *)
(*                                                                         *)
(* Two orchestrators may ask at a time: the active one, and the child of   *)
(* a delegation that timed out and runs on.  Each subscription has its own *)
(* queue and its own callback goroutine, as in nats.go; the mailboxes of   *)
(* the actor and of the orchestrator are part of the bridge's queue.       *)
(***************************************************************************)
EXTENDS Naturals, Sequences, FiniteSets

CONSTANTS
    Group,        \* the pane groups that show requests, or the one TUI
    Owner,        \* the owner of each request: "main" or "child"
    Decision,     \* what a human may answer
    Says,         \* the answers that the human at a group may give to a request
    SubscribeOK,  \* what Subscribe may return: TRUE, or FALSE for an error
    MaxQueue      \* bound on the responses queued for a subscription

Request == DOMAIN Owner

ASSUME OwnerAssumption == /\ Request = 1 .. Cardinality(Request)
                          /\ \A r \in Request : Owner[r] \in {"main", "child"}
ASSUME QueueAssumption == MaxQueue \in Nat \ {0} /\ SubscribeOK \subseteq BOOLEAN

(* The ends of a wait without an answer are named apart from the answers. *)
ASSUME DecisionAssumption == Decision \cap {"none", "failed", "timeout", "interrupted"} = {}

VARIABLES
    state,      \* how far waitForApproval is with each request
    panes,      \* the approval panes on display: pairs of group and request
    bridge,     \* responses on their way to the actor and the orchestrator
    queue,      \* responses queued for the subscription of each request
    slot,       \* the channel of capacity one of each waiting request
    blocked,    \* requests whose callback is blocked on a full channel
    result,     \* what waitForApproval returned
    active,     \* the actor's activeOrch is not nil
    cancelled,  \* the run's context is cancelled
    given,      \* the answers given to each request, in their order
    early       \* requests first answered before they were subscribed

vars == <<state, panes, bridge, queue, slot, blocked, result, active, cancelled,
          given, early>>

Waiting  == {"waiting", "returning"}
Response == [id : Request, decision : Decision]

Init ==
    /\ state = [r \in Request |-> "none"]
    /\ panes = {} /\ bridge = <<>>
    /\ queue = [r \in Request |-> <<>>] /\ slot = [r \in Request |-> <<>>]
    /\ blocked = {} /\ result = [r \in Request |-> "none"]
    /\ active = TRUE /\ cancelled = FALSE
    /\ given = [r \in Request |-> <<>>] /\ early = {}

-----------------------------------------------------------------------------
(* A message on the response subject reaches every subscription there is.  *)
Room == \A r \in Request : state[r] \in Waiting => Len(queue[r]) < MaxQueue

Queued(m) == [r \in Request |-> IF state[r] \in Waiting THEN Append(queue[r], m)
                                                       ELSE queue[r]]

-----------------------------------------------------------------------------
(* The waiting goroutine. *)

(* publishApprovalRequest shows the request in every group.  An            *)
(* orchestrator has one request at a time; the main one only while it is   *)
(* the active orchestrator.                                                *)
Publish(r) ==
    /\ state[r] = "none"
    /\ \A q \in Request : q < r => state[q] # "none"
    /\ \A q \in Request : Owner[q] = Owner[r] => state[q] \in {"none", "closed"}
    /\ Owner[r] = "main" => active
    /\ ~cancelled
    /\ state' = [state EXCEPT ![r] = "published"]
    /\ panes' = panes \cup (Group \X {r})
    /\ UNCHANGED <<bridge, queue, slot, blocked, result, active, cancelled, given, early>>

Return(r, d) ==
    /\ state' = [state EXCEPT ![r] = "returning"]
    /\ result' = [result EXCEPT ![r] = d]

(* Subscribing comes after publishing; when it fails the answer is no. *)
Subscribe(r) ==
    /\ state[r] = "published"
    /\ \E ok \in SubscribeOK :
         IF ok THEN state' = [state EXCEPT ![r] = "waiting"] /\ UNCHANGED result
               ELSE Return(r, "failed")
    /\ UNCHANGED <<panes, bridge, queue, slot, blocked, active, cancelled, given, early>>

(* The select: a response, five minutes, or the cancelled context. *)
Receive(r) ==
    /\ state[r] = "waiting" /\ slot[r] # <<>>
    /\ Return(r, Head(slot[r]))
    /\ slot' = [slot EXCEPT ![r] = <<>>]
    /\ UNCHANGED <<panes, bridge, queue, blocked, active, cancelled, given, early>>

Timeout(r) ==
    /\ state[r] = "waiting"
    /\ Return(r, "timeout")
    /\ UNCHANGED <<panes, bridge, queue, slot, blocked, active, cancelled, given, early>>

Interrupt(r) ==
    /\ state[r] = "waiting" /\ cancelled
    /\ Return(r, "interrupted")
    /\ UNCHANGED <<panes, bridge, queue, slot, blocked, active, cancelled, given, early>>

CloseOnDisplay(r) ==
    /\ state[r] = "returning"
    /\ state' = [state EXCEPT ![r] = "none"]
    /\ UNCHANGED <<panes, queue, bridge, slot, blocked, result, active, cancelled, given, early>>

(* Unsubscribing drops what is queued; then the panes are destroyed. *)
Close(r) ==
    /\ state[r] = "returning"
    /\ state' = [state EXCEPT ![r] = "closed"]
    /\ queue' = [queue EXCEPT ![r] = <<>>]
    /\ panes' = panes \ (Group \X {r})
    /\ UNCHANGED <<bridge, slot, blocked, result, active, cancelled, given, early>>

-----------------------------------------------------------------------------
(* The callback of a subscription: other requests' answers are skipped,    *)
(* its own go into the channel, and a full channel blocks the callback     *)
(* until the waiting goroutine reads it, which it does once.               *)
KeepLatest(r) ==
    /\ slot' = [slot EXCEPT ![r] = <<Head(queue[r]).decision>>]
    /\ UNCHANGED blocked

SendUnbuffered(r) ==
    /\ blocked' = blocked \cup {r}
    /\ UNCHANGED slot

Send(r) ==
    IF slot[r] = <<>>
      THEN slot' = [slot EXCEPT ![r] = <<Head(queue[r]).decision>>] /\ UNCHANGED blocked
      ELSE blocked' = blocked \cup {r} /\ UNCHANGED slot

AnyAnswer(r) == TRUE

Mine(r) == Head(queue[r]).id = r

Callback(r) ==
    /\ state[r] \in Waiting /\ r \notin blocked
    /\ queue[r] # <<>>
    /\ IF Mine(r) THEN Send(r) ELSE UNCHANGED <<slot, blocked>>
    /\ queue' = [queue EXCEPT ![r] = Tail(@)]
    /\ UNCHANGED <<state, panes, bridge, result, active, cancelled, given, early>>

-----------------------------------------------------------------------------
(* The actor forwards the response, and the active orchestrator publishes  *)
(* it again, which brings it back to the bridge.                           *)
DropForwarded ==
    /\ bridge # <<>>
    /\ bridge' = Tail(bridge)
    /\ UNCHANGED <<state, panes, queue, slot, blocked, result, active, cancelled,
                   given, early>>

Forward ==
    /\ bridge # <<>>
    /\ IF active
         THEN /\ Room
              /\ bridge' = Append(Tail(bridge), Head(bridge))
              /\ queue' = Queued(Head(bridge))
         ELSE bridge' = Tail(bridge) /\ UNCHANGED queue
    /\ UNCHANGED <<state, panes, slot, blocked, result, active, cancelled, given, early>>

-----------------------------------------------------------------------------
(* The humans: a pane answers while it is on display, once.  The run ends  *)
(* or is cancelled.                                                        *)
Answer(g, r, d) ==
    /\ <<g, r>> \in panes /\ <<g, r, d>> \in Says
    /\ Room
    /\ panes' = panes \ {<<g, r>>}
    /\ given' = [given EXCEPT ![r] = Append(@, d)]
    /\ early' = IF given[r] = <<>> /\ state[r] = "published" THEN early \cup {r} ELSE early
    /\ bridge' = Append(bridge, [id |-> r, decision |-> d])
    /\ queue' = Queued([id |-> r, decision |-> d])
    /\ UNCHANGED <<state, slot, blocked, result, active, cancelled>>

Cancel ==
    /\ active /\ ~cancelled
    /\ cancelled' = TRUE
    /\ UNCHANGED <<state, panes, bridge, queue, slot, blocked, result, active, given, early>>

RunEnds ==
    /\ active
    /\ \A r \in Request : Owner[r] = "main" => state[r] \in {"none", "closed"}
    /\ active' = FALSE
    /\ UNCHANGED <<state, panes, bridge, queue, slot, blocked, result, cancelled,
                   given, early>>

Wait(r) == Publish(r) \/ Subscribe(r) \/ Receive(r) \/ Timeout(r) \/ Interrupt(r) \/ Close(r)

Next ==
    \/ \E r \in Request : Wait(r) \/ Callback(r)
    \/ Forward
    \/ \E g \in Group, r \in Request, d \in Decision : Answer(g, r, d)
    \/ Cancel
    \/ RunEnds

Spec == Init /\ [][Next]_vars

(* The goroutine, the callbacks and the mailboxes make progress.  Nothing  *)
(* makes a human answer, and the timeout is left out: it must not be what  *)
(* ends the wait of an answered request.                                   *)
Fairness ==
    /\ \A r \in Request : /\ WF_vars(Subscribe(r)) /\ WF_vars(Receive(r))
                          /\ WF_vars(Close(r)) /\ WF_vars(Callback(r))
    /\ WF_vars(Forward)
LiveSpec == Spec /\ Fairness

-----------------------------------------------------------------------------
(* Properties. *)

(* The gate's state keeps its shape. *)
TypeOK ==
    /\ state \in [Request -> Waiting \cup {"none", "published", "closed"}]
    /\ panes \subseteq Group \X Request
    /\ bridge \in Seq(Response)
    /\ \A r \in Request : queue[r] \in Seq(Response) /\ Len(queue[r]) <= MaxQueue
    /\ \A r \in Request : slot[r] \in Seq(Decision) /\ Len(slot[r]) <= 1
    /\ blocked \subseteq Request /\ early \subseteq Request
    /\ result \in [Request -> Decision \cup {"none", "failed", "timeout", "interrupted"}]
    /\ \A r \in Request : (result[r] = "none") = (state[r] \in {"none", "published", "waiting"})

(* What decides a request is an answer that a human gave to it: no late    *)
(* answer to one request, echoed or queued, decides another.               *)
OwnAnswer ==
    \A r \in Request : result[r] \in Decision => \E i \in DOMAIN given[r] : given[r][i] = result[r]

(* When several panes answer, the first answer counts: the echoes and the  *)
(* second answers never overtake it, unless it came before the             *)
(* subscription.                                                           *)
FirstAnswerWins ==
    \A r \in Request : result[r] \in Decision /\ r \notin early => result[r] = given[r][1]

(* A callback that blocks on the full channel holds up nobody: its request *)
(* has its answer, in the channel or as its result.                        *)
BlockedHarmless == \A r \in blocked : slot[r] # <<>> \/ result[r] # "none"

(* An answer is heard while the run lasts, also one that comes between the *)
(* publishing and the subscription, which only the echo brings back.       *)
AnswerHeard ==
    \A r \in Request : given[r] # <<>> ~> result[r] # "none" \/ ~active

(* An answered request is settled by the first answer it got, and what     *)
(* comes after it holds up nobody (orchestrator.go:1461).                  *)
AnswersSettle == TypeOK /\ FirstAnswerWins /\ BlockedHarmless
=============================================================================
