----------------------------- MODULE SubAgents -----------------------------
(***************************************************************************)
(* Sub-agents.  The loop of an orchestrator runs in a goroutine; a         *)
(* sub_agent call sends a spawn request to the actor's own mailbox, where  *)
(* the child is started and its waiter registered, and waits for the       *)
(* acknowledgement and then for the child's completion, which comes to the *)
(* same mailbox.  All agents of a tree share one context.                  *)
(*                                                                         *)
(* An agent is a number, 1 the top-level one; a child has its number from  *)
(* the request on.  The file an agent changes is named by its number.      *)
(***************************************************************************)
EXTENDS Integers, Sequences, FiniteSets, SequencesExt

CONSTANTS
    MaxAgents,        \* bound: agents in a tree
    RootCaps          \* iteration caps of the top-level agent

MaxSubAgentDepth             == 2
DefaultSubAgentMaxIterations == 25

Agents == 1 .. MaxAgents

VARIABLES
    agent,       \* [parent, depth, cap, pc, child, files, gaveUp]
    mail,        \* the actors' mailboxes: <<"spawn" or "done", child>>
    pending,     \* pendingSubAgents
    acks,        \* the channels of a request, by its child: spawnedCh or spawnErr
    results,     \* and doneCh
    cancelled,   \* the shared context
    stopped      \* the actors were stopped

vars == <<agent, mail, pending, acks, results, cancelled, stopped>>

Absent(p, d, c) ==
    [parent |-> p, depth |-> d, cap |-> c, pc |-> "none", child |-> 0, files |-> {}, gaveUp |-> FALSE]

Init ==
    /\ \E cap \in RootCaps : agent = <<[Absent(0, 0, cap) EXCEPT !.pc = "run"]>>
    /\ mail = [a \in Agents |-> <<>>] /\ pending = [a \in Agents |-> {}]
    /\ acks = [a \in Agents |-> <<>>] /\ results = [a \in Agents |-> <<>>]
    /\ cancelled = FALSE /\ stopped = FALSE

Known == DOMAIN agent
At(a, pc) == a \in Known /\ agent[a].pc = pc

-----------------------------------------------------------------------------
(* handleSubAgent. *)
DefaultCap(cap) == DefaultSubAgentMaxIterations

ChildCap(cap) ==
    LET half  == cap \div 2
        least == IF half < 5 THEN 5 ELSE half
    IN  IF cap > 0 /\ cap < 2 * DefaultSubAgentMaxIterations /\ least < DefaultSubAgentMaxIterations
          THEN least ELSE DefaultSubAgentMaxIterations

MayDelegate(a) == agent[a].depth < MaxSubAgentDepth

HandleSubAgent(a) ==
    /\ At(a, "run") /\ MayDelegate(a) /\ Len(agent) < MaxAgents
    /\ LET c == Len(agent) + 1
       IN  /\ agent' = Append([agent EXCEPT ![a].pc = "spawning", ![a].child = c],
                              Absent(a, agent[a].depth + 1, ChildCap(agent[a].cap)))
           /\ mail' = [mail EXCEPT ![a] = Append(@, <<"spawn", c>>)]
    /\ UNCHANGED <<pending, acks, results, cancelled, stopped>>

Back(a, files, gaveUp) ==
    agent' = [agent EXCEPT ![a].pc = "run", ![a].child = 0, ![a].files = @ \union files,
                           ![a].gaveUp = @ \/ gaveUp]

(* The wait for the acknowledgement has no timeout. *)
Acknowledged(a) ==
    /\ At(a, "spawning") /\ acks[agent[a].child] # <<>>
    /\ IF Head(acks[agent[a].child]) = "spawned"
         THEN agent' = [agent EXCEPT ![a].pc = "waiting"]
         ELSE Back(a, {}, FALSE)
    /\ acks' = [acks EXCEPT ![agent[a].child] = Tail(@)]
    /\ UNCHANGED <<mail, pending, results, cancelled, stopped>>

Forgotten(a, c) == {}

Carried(a, c) == Head(results[c])

Completed(a) ==
    /\ At(a, "waiting") /\ results[agent[a].child] # <<>>
    /\ Back(a, Carried(a, agent[a].child), FALSE)
    /\ results' = [results EXCEPT ![agent[a].child] = Tail(@)]
    /\ UNCHANGED <<mail, pending, acks, cancelled, stopped>>

TimedOut(a) ==
    /\ At(a, "waiting") /\ Back(a, {}, TRUE)
    /\ UNCHANGED <<mail, pending, acks, results, cancelled, stopped>>

GivenUp(a) ==
    /\ cancelled /\ (At(a, "spawning") \/ At(a, "waiting")) /\ Back(a, {}, TRUE)
    /\ UNCHANGED <<mail, pending, acks, results, cancelled, stopped>>

-----------------------------------------------------------------------------
(* The actor.  Receive blocks where a channel is full: each has one place. *)
Silent(c) == <<>>

SpawnError(c) == <<"failed">>

HandleSubAgentSpawn(a) ==
    /\ ~stopped /\ mail[a] # <<>> /\ Head(mail[a])[1] = "spawn"
    /\ LET c == Head(mail[a])[2]
       IN  \/ /\ agent' = [agent EXCEPT ![c].pc = "run"]
              /\ pending' = [pending EXCEPT ![a] = @ \union {c}]
              /\ acks' = [acks EXCEPT ![c] = Append(@, "spawned")]
           \/ /\ acks' = [acks EXCEPT ![c] = @ \o SpawnError(c)]
              /\ UNCHANGED <<agent, pending>>
    /\ mail' = [mail EXCEPT ![a] = Tail(@)]
    /\ UNCHANGED <<results, cancelled, stopped>>

ToTheWaiter(a, c) == IF agent[a].child # 0 THEN {agent[a].child} ELSE {}

Routed(a, c) == {c} \intersect pending[a]

HandleDone(a) ==
    /\ ~stopped /\ mail[a] # <<>> /\ Head(mail[a])[1] = "done"
    /\ LET c == Head(mail[a])[2]
       IN  /\ results' = [r \in Agents |-> IF r \in Routed(a, c) /\ results[r] = <<>>
                                             THEN <<agent[c].files>> ELSE results[r]]
           /\ pending' = [pending EXCEPT ![a] = @ \ {c}]
    /\ mail' = [mail EXCEPT ![a] = Tail(@)]
    /\ UNCHANGED <<agent, acks, cancelled, stopped>>

-----------------------------------------------------------------------------
(* The rest of the loop: a tool changes a file; the run ends, by its caps  *)
(* or when the context is cancelled, and tells the parent.                 *)
Write(a) ==
    /\ At(a, "run") /\ a \notin agent[a].files
    /\ agent' = [agent EXCEPT ![a].files = @ \union {a}]
    /\ UNCHANGED <<mail, pending, acks, results, cancelled, stopped>>

End(a) ==
    /\ At(a, "run")
    /\ agent' = [agent EXCEPT ![a].pc = "ended"]
    /\ mail' = IF agent[a].parent = 0 THEN mail
               ELSE [mail EXCEPT ![agent[a].parent] = Append(@, <<"done", a>>)]
    /\ UNCHANGED <<pending, acks, results, cancelled, stopped>>

(* The prompt actor cancels, or cleans up when the top-level run has       *)
(* ended: it stops the actor, and with it the children, and cancels.       *)
Cancel ==
    /\ ~cancelled /\ cancelled' = TRUE
    /\ UNCHANGED <<agent, mail, pending, acks, results, stopped>>

LeftRunning == cancelled

Interrupted == TRUE

CleanUp ==
    /\ agent[1].pc = "ended" /\ ~stopped
    /\ stopped' = TRUE /\ cancelled' = Interrupted
    /\ UNCHANGED <<agent, mail, pending, acks, results>>

Receive(a) == HandleSubAgentSpawn(a) \/ HandleDone(a)
Resume(a)  == Acknowledged(a) \/ Completed(a) \/ TimedOut(a) \/ GivenUp(a)

Next ==
    \/ Cancel \/ CleanUp
    \/ \E a \in Agents : HandleSubAgent(a) \/ Receive(a) \/ Resume(a) \/ Write(a) \/ End(a)

Spec == Init /\ [][Next]_vars

(* Actors handle their mail, goroutines go on, and a run ends once its     *)
(* context is cancelled; it need not before.  There are finitely many of   *)
(* these steps, so that it is enough that some agent goes on.              *)
Fairness ==
    /\ WF_vars(CleanUp)
    /\ WF_vars(\E a \in Agents : Receive(a))
    /\ WF_vars(\E a \in Agents : Resume(a))
    /\ WF_vars(cancelled /\ \E a \in Agents : End(a))

LiveSpec == Spec /\ Fairness

-----------------------------------------------------------------------------
(* Properties. *)
(* The completion a waiter gets is its own child's, also when a child it   *)
(* gave up on completes while it waits for the next.                       *)
OwnResult == \A c \in Agents : results[c] # <<>> => At(c, "ended") /\ Head(results[c]) = agent[c].files

(* "So the parent's final summary reflects all writes performed under its  *)
(* umbrella" (handleSubAgent): of a run that never gave up waiting, and    *)
(* its children have ended.                                                *)
FilesCarried ==
    \A a \in Known : At(a, "ended") /\ ~agent[a].gaveUp =>
        \A c \in Known : agent[c].parent = a /\ agent[c].pc # "none"
                            => At(c, "ended") /\ agent[c].files \subseteq agent[a].files

(* "A small parent never spawns a child with more iterations than itself": *)
(* true of parents with five iterations or more.                           *)
CapsShrink ==
    \A c \in Known : agent[c].parent # 0 /\ agent[agent[c].parent].cap >= 5
                        => agent[c].cap <= agent[agent[c].parent].cap

(* A sub_agent call returns, although the wait for its start has no        *)
(* timeout of its own.                                                     *)
SpawnAnswered ==
    (\E a \in Known : At(a, "spawning")) ~> (\A a \in Known : ~At(a, "spawning"))

(* "A parent cancel propagates straight through" (handleSubAgentSpawn):    *)
(* once the run is cancelled or has ended, every agent of the tree ends,   *)
(* those whose start was under way and those given up on too.              *)
TreeEnds ==
    (cancelled \/ At(1, "ended")) ~> (\A a \in Known : agent[a].pc \in {"none", "ended"})

(* What a parent learns of its children, also of those it gave up on, is   *)
(* theirs and whole, and none has more iterations than allowed.            *)
TreeSafe == OwnResult /\ FilesCarried /\ CapsShrink

(* Nobody waits for an agent that never starts, and none outlives the tree *)
(* (orchestrator.go:2368).                                                 *)
DelegationEnds == SpawnAnswered /\ TreeEnds
=============================================================================
