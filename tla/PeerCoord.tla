----------------------------- MODULE PeerCoord -----------------------------
(***************************************************************************)
(* The peer coordination board of package peercoord: the reducer           *)
(* Apply(store, auth, request, now) of engine.go, one action per operation *)
(* of the protocol.  A refused request returns the original store, so it   *)
(* is a stuttering step and has no action.  Every action takes from its    *)
(* request the fields a late, duplicated or reordered request can get      *)
(* wrong (incarnation, term, attempt number, task version); the operator   *)
(* that guards the action compares them with the board as the code does.   *)
(*                                                                         *)
(* Abstractions.  A registration is identified by its session: join keeps  *)
(* one Peer per (user, session) for ever.  An endpoint is identified by    *)
(* its (peer, name), and the profile it registered with never changes, so  *)
(* profiles are constants.  A credential is represented by the presence of *)
(* its hash in the store.  A lease is the time left on it: every test in   *)
(* the code compares a lease with the current time and with nothing else.  *)
(* Texts, labels, timestamps and the returned events are left out.         *)
(***************************************************************************)
EXTENDS Naturals, FiniteSets

CONSTANTS
    Peer,              \* sessions that may register with the board
    Admins,            \* sessions of workspace owners and admins
    Agent,             \* endpoints, each of one session
    AgentPeer,         \* the session an endpoint belongs to
    AgentRole,         \* "worker" or "leader"
    MaxActive,         \* how many attempts an endpoint may run at once
    Project,           \* (project, runner) pairs a task can ask for
    Offers,            \* the pairs an endpoint offers
    Task,              \* tasks that may be assigned
    Incarnation,       \* daemon incarnations
    None,              \* no endpoint, no incarnation
    LeaseDuration,     \* types.go LeaseDuration, in clock ticks
    MaxPeers,          \* engine.go:144, 100 registrations
    MaxAgents,         \* types.go MaxAgents
    MaxPendingTasks,   \* types.go MaxPendingTasks
    MaxAttempts,       \* engine.go:580, 20 attempts of a task
    MaxStandbys,       \* engine.go:316, ten standbys
    MaxTerm,           \* bound on the leadership terms explored
    MaxVersion         \* bound on the task versions explored

ASSUME IdentitiesAssumption ==
    /\ Admins \subseteq Peer
    /\ AgentPeer \in [Agent -> Peer]
    /\ AgentRole \in [Agent -> {"worker", "leader"}]
    /\ Offers \in [Agent -> SUBSET Project]
    /\ None \notin Agent /\ None \notin Incarnation

ASSUME LimitsAssumption ==
    /\ MaxActive \in [Agent -> Nat \ {0}]
    /\ {LeaseDuration, MaxPeers, MaxAgents, MaxPendingTasks, MaxAttempts,
        MaxTerm, MaxVersion} \subseteq Nat \ {0}
    /\ MaxStandbys \in Nat

ASSUME TaskFinite == IsFiniteSet(Task)

VARIABLES
    enabled,       \* State.Enabled
    paused,        \* State.Paused
    peer,          \* State.Peers: state, incarnation and lease left
    peerSecrets,   \* PeerSecrets: sessions whose credential hash is stored
    agents,        \* State.Agents: the registered endpoints
    ready,         \* the endpoints whose Ready flag is set
    lead,          \* State.Leadership
    task,          \* State.Tasks, each with its current attempt
    execSecrets    \* ExecutionSecrets: <<task, attempt>> with a stored hash

vars == <<enabled, paused, peer, peerSecrets, agents, ready, lead, task,
          execSecrets>>
boardVars == <<enabled, paused>>
peerVars  == <<peer, peerSecrets>>
agentVars == <<agents, ready>>
taskVars  == <<task, execSecrets>>

-----------------------------------------------------------------------------
(* Task states (types.go).  The engine never sets "starting" or "expired". *)

Open     == {"offered", "queued"}
Terminal == {"completed", "failed", "cancelled", "expired"}
Active   == {"claimed", "starting", "running", "blocked",
             "waiting_local_input", "cancel_requested",
             "needs_reconciliation"}
States   == {"none", "result_submitted"} \cup Open \cup Terminal \cup Active
Progress == {"running", "blocked", "waiting_local_input"}

PeerStates == {"none", "registered", "ready", "paused", "revoked"}
Lease      == 0 .. LeaseDuration
Standbys   == UNION {[1 .. n -> Agent] : n \in 0 .. MaxStandbys}

PeerRecord == [state : PeerStates, inc : Incarnation \cup {None}, lease : Lease]

LeadRecord == [agent : Agent \cup {None}, term : Nat, lease : Lease,
               standbys : Standbys, auto : BOOLEAN]

TaskRecord == [state : States, agent : Agent \cup {None}, term : Nat,
               version : Nat, project : Project \cup {None},
               deps : SUBSET Task, attempt : Nat,
               inc : Incarnation \cup {None}, lease : Lease]

NoTask == [state |-> "none", agent |-> None, term |-> 0, version |-> 0,
           project |-> None, deps |-> {}, attempt |-> 0, inc |-> None,
           lease |-> 0]

Exists(t)   == task[t].state # "none"
IsOpen(t)   == task[t].state \in Open
IsActive(t) == task[t].state \in Active

(* Attempts that occupy worker a, as task.claim counts them. *)
RunningOn(a) == {t \in Task : task[t].agent = a /\ IsActive(t)}
Pending      == {t \in Task : Exists(t) /\ task[t].state \notin Terminal}

AgentsOf(p) == {a \in agents : AgentPeer[a] = p}

-----------------------------------------------------------------------------
(* Initial board: NewStore, nothing enabled and nobody registered. *)

NoPeer == [state |-> "none", inc |-> None, lease |-> 0]

Init ==
    /\ enabled = FALSE /\ paused = FALSE
    /\ peer = [p \in Peer |-> NoPeer]
    /\ peerSecrets = {}
    /\ agents = {} /\ ready = {}
    /\ lead = [agent |-> None, term |-> 0, lease |-> 0,
               standbys |-> <<>>, auto |-> FALSE]
    /\ task = [t \in Task |-> NoTask]
    /\ execSecrets = {}

-----------------------------------------------------------------------------
(* Who may ask.  Each guard compares a field of the request with the board. *)

(* peer(): the registration's credential and its current incarnation. *)
PeerOK(p, i) ==
    /\ enabled
    /\ p \in peerSecrets
    /\ peer[p].state # "revoked"
    /\ i = peer[p].inc

(* ownAgent(): the endpoint belongs to the authenticated registration. *)
OwnAgent(a, i) ==
    /\ a \in agents
    /\ PeerOK(AgentPeer[a], i)

(* leader(): the current leader, of the current term, under a live lease. *)
Leads(a, i, term) ==
    /\ OwnAgent(a, i)
    /\ a = lead.agent
    /\ term = lead.term
    /\ lead.lease > 0
    /\ ~paused

LeadsFrom(p, i, term) == \E a \in Agent : AgentPeer[a] = p /\ Leads(a, i, term)

AdminOK(p, i) == PeerOK(p, i) /\ p \in Admins

(* The endpoint can carry out work for project j. *)
Suits(a, j) == a \in agents /\ AgentRole[a] = "worker" /\ j \in Offers[a]

-----------------------------------------------------------------------------
(* Registration. *)

(* join(): a first registration needs room; a later one needs the stored   *)
(* credential, and a revoked registration can never come back.             *)
MayJoin(p) ==
    IF peer[p].state = "none"
      THEN Cardinality({q \in Peer : peer[q].state # "none"}) < MaxPeers
      ELSE peer[p].state # "revoked" /\ p \in peerSecrets

MayRegister(p, a) ==
    /\ AgentPeer[a] = p
    /\ a \in agents \/ Cardinality(agents) < MaxAgents

JoinAs(p, i) ==
    /\ MayJoin(p)
    /\ peer' = [peer EXCEPT ![p] = [state |-> "registered", inc |-> i,
                                    lease |-> LeaseDuration]]
    /\ peerSecrets' = peerSecrets \cup {p}
    /\ ready' = ready \ AgentsOf(p)

(* appoint(): a new term; every open offer moves to it with a new version. *)
RetermedLater(r, k)       == r
RetermedUnversioned(r, k) == [r EXCEPT !.term = k]

Retermed(r, k) == [r EXCEPT !.term = k, !.version = @ + 1]

Appoint(a) ==
    /\ lead.term < MaxTerm
    /\ \A t \in Task : IsOpen(t) => task[t].version < MaxVersion
    /\ lead' = [lead EXCEPT !.agent = a, !.term = @ + 1,
                            !.lease = LeaseDuration]
    /\ task' = [t \in Task |-> IF IsOpen(t) THEN Retermed(task[t], lead.term + 1)
                                           ELSE task[t]]

(* init: an admin enables the board and becomes its first leader. *)
InitBoard(p, i, a) ==
    /\ ~enabled
    /\ p \in Admins
    /\ AgentRole[a] = "leader"
    /\ MayRegister(p, a)
    /\ JoinAs(p, i)
    /\ enabled' = TRUE
    /\ agents' = agents \cup {a}
    /\ Appoint(a)
    /\ UNCHANGED <<paused, execSecrets>>

(* join, with the endpoint it may register in the same request. *)
Join(p, i, new) ==
    /\ enabled
    /\ \A a \in new : MayRegister(p, a)
    /\ JoinAs(p, i)
    /\ agents' = agents \cup new
    /\ UNCHANGED <<boardVars, lead, taskVars>>

Register(p, i, a) ==
    /\ PeerOK(p, i)
    /\ MayRegister(p, a)
    /\ agents' = agents \cup {a}
    /\ UNCHANGED <<boardVars, peerVars, ready, lead, taskVars>>

(* heartbeat: up is r.Ready, on r.ActiveAgents, run r.Running. *)
Renewed(r) == [r EXCEPT !.lease = LeaseDuration]

RenewsAny(p, t, run) ==
    IsActive(t) /\ AgentPeer[task[t].agent] = p /\ t \in run

Renews(p, t, run) ==
    /\ IsActive(t)
    /\ task[t].inc = peer[p].inc
    /\ AgentPeer[task[t].agent] = p
    /\ t \in run
    /\ task[t].lease > 0

Heartbeat(p, i, up, on, term, run) ==
    LET nowReady == IF up THEN (ready \ AgentsOf(p)) \cup (on \cap AgentsOf(p))
                          ELSE ready \ AgentsOf(p)
    IN  /\ PeerOK(p, i)
        /\ peer' = [peer EXCEPT ![p] =
                      [@ EXCEPT !.state = IF up THEN "ready" ELSE "paused",
                                !.lease = LeaseDuration]]
        /\ ready' = nowReady
        /\ lead' = IF /\ lead.agent \in AgentsOf(p) \cap nowReady
                      /\ term = lead.term
                     THEN Renewed(lead)
                     ELSE lead
        /\ task' = [t \in Task |->
                      IF Renews(p, t, run)
                        THEN Renewed(task[t])
                        ELSE task[t]]
        /\ UNCHANGED <<boardVars, peerSecrets, agents, execSecrets>>

(* leave: refused while an attempt of this registration is active. *)
DrainedClaims(p) ==
    \A t \in Task : task[t].state = "claimed" => task[t].agent \notin AgentsOf(p)

Drained(p) == \A t \in Task : IsActive(t) => task[t].agent \notin AgentsOf(p)

Leave(p, i) ==
    /\ PeerOK(p, i)
    /\ Drained(p)
    /\ peer' = [peer EXCEPT ![p] = [@ EXCEPT !.state = "revoked", !.lease = 0]]
    /\ peerSecrets' = peerSecrets \ {p}
    /\ ready' = ready \ AgentsOf(p)
    /\ lead' = IF lead.agent \in AgentsOf(p) THEN [lead EXCEPT !.lease = 0]
                                             ELSE lead
    /\ UNCHANGED <<boardVars, agents, taskVars>>

-----------------------------------------------------------------------------
(* Leadership and admission. *)

(* leader.handover: by an admin or the current leader, to any enrolled     *)
(* leader endpoint, ready or not.                                          *)
Handover(p, i, term, a) ==
    /\ PeerOK(p, i)
    /\ p \in Admins \/ LeadsFrom(p, i, term)
    /\ a \in agents /\ AgentRole[a] = "leader"
    /\ peer[AgentPeer[a]].state # "revoked"
    /\ Appoint(a)
    /\ UNCHANGED <<boardVars, peerVars, agentVars, execSecrets>>

(* leader.standbys: the request's list with its repetitions dropped. *)
SetStandbys(p, i, list, auto) ==
    /\ AdminOK(p, i)
    /\ \A k \in DOMAIN list : list[k] \in agents /\ AgentRole[list[k]] = "leader"
    /\ lead' = [lead EXCEPT !.standbys = list, !.auto = auto]
    /\ UNCHANGED <<boardVars, peerVars, agentVars, taskVars>>

Eligible(a) ==
    /\ a \in ready
    /\ peer[AgentPeer[a]].state = "ready"
    /\ peer[AgentPeer[a]].lease > 0

(* a is the first ready approved standby. *)
FirstStandby(a) ==
    \E k \in DOMAIN lead.standbys :
        /\ lead.standbys[k] = a
        /\ Eligible(a)
        /\ \A j \in 1 .. k - 1 : ~Eligible(lead.standbys[j])

(* leader.acquire: automatic failover once the leader's lease has run out. *)
Acquire(a, i) ==
    /\ OwnAgent(a, i)
    /\ lead.auto
    /\ lead.lease = 0
    /\ FirstStandby(a)
    /\ Appoint(a)
    /\ UNCHANGED <<boardVars, peerVars, agentVars, execSecrets>>

(* board.pause *)
Pause(p, i, b) ==
    /\ AdminOK(p, i)
    /\ paused' = b
    /\ UNCHANGED <<enabled, peerVars, agentVars, lead, taskVars>>

-----------------------------------------------------------------------------
(* The leader's operations on tasks. *)

(* change(): the new state, with the version bumped. *)
Changed(r, s) == [r EXCEPT !.state = s, !.version = @ + 1]

Change(t, s) ==
    /\ task[t].version < MaxVersion
    /\ task' = [task EXCEPT ![t] = Changed(@, s)]

DepsKnown(t) == \A d \in task[t].deps : Exists(d)
DepsMet(t) == \A d \in task[t].deps : task[d].state = "completed"

(* task.assign: queued rather than offered when a dependency is open. *)
Assign(l, i, term, t, a, j, deps) ==
    /\ Leads(l, i, term)
    /\ ~Exists(t)
    /\ Suits(a, j)
    /\ Cardinality(Pending) < MaxPendingTasks
    /\ \A d \in deps : Exists(d)
    /\ task' = [task EXCEPT ![t] =
         [NoTask EXCEPT !.state = IF \A d \in deps : task[d].state = "completed"
                                    THEN "offered" ELSE "queued",
                        !.agent = a, !.term = lead.term, !.version = 1,
                        !.project = j, !.deps = deps, !.attempt = 1]]
    /\ UNCHANGED <<boardVars, peerVars, agentVars, lead, execSecrets>>

(* task.review *)
Review(l, i, term, t, v, good) ==
    /\ Leads(l, i, term)
    /\ task[t].state = "result_submitted"
    /\ v = task[t].version
    /\ Change(t, IF good THEN "completed" ELSE "failed")
    /\ UNCHANGED <<boardVars, peerVars, agentVars, lead, execSecrets>>

(* task.cancel: an attempt that runs has to confirm that it stopped. *)
CancelAtOnce(t) == "cancelled"

CancelState(t) ==
    IF IsOpen(t) \/ task[t].state = "result_submitted"
      THEN "cancelled" ELSE "cancel_requested"

Cancel(p, i, term, t) ==
    /\ AdminOK(p, i) \/ LeadsFrom(p, i, term)
    /\ Exists(t) /\ task[t].state \notin Terminal
    /\ Change(t, CancelState(t))
    /\ UNCHANGED <<boardVars, peerVars, agentVars, lead, execSecrets>>

KeepSecret(t) == execSecrets' = execSecrets
DropSecret(t) == execSecrets' = execSecrets \ {<<t, task[t].attempt>>}

(* task.resolve: the operator confirms that the execution stopped. *)
Resolve(p, i, t) ==
    /\ AdminOK(p, i)
    /\ IsActive(t)
    /\ Change(t, "failed")
    /\ DropSecret(t)
    /\ UNCHANGED <<boardVars, peerVars, agentVars, lead>>

(* task.retry: a fresh attempt, perhaps of another worker.  Unlike assign  *)
(* it does not look at the pending limit.                                  *)
Retryable(t) == task[t].state \in Terminal \ {"completed"}

Retried(r, a, k) ==
    [r EXCEPT !.state = "offered", !.agent = a, !.term = k,
              !.version = @ + 1, !.attempt = @ + 1, !.inc = None, !.lease = 0]

Retry(l, i, term, t, a) ==
    /\ Leads(l, i, term)
    /\ Retryable(t)
    /\ Suits(a, task[t].project)
    /\ task[t].attempt < MaxAttempts /\ task[t].version < MaxVersion
    /\ task' = [task EXCEPT ![t] = Retried(@, a, lead.term)]
    /\ DropSecret(t)
    /\ UNCHANGED <<boardVars, peerVars, agentVars, lead>>

-----------------------------------------------------------------------------
(* The worker's operations on its current attempt. *)

(* task.claim *)
HasRoomUpTo(a) == Cardinality(RunningOn(a)) <= MaxActive[a]
HasRoom(a)     == Cardinality(RunningOn(a)) < MaxActive[a]

Claimed(r, i) == [r EXCEPT !.state = "claimed", !.version = @ + 1,
                           !.inc = i, !.lease = LeaseDuration]

Claim(a, i, t, n, v) ==
    /\ OwnAgent(a, i)
    /\ a = task[t].agent /\ n = task[t].attempt
    /\ ~paused
    /\ Eligible(a)
    /\ v = task[t].version /\ IsOpen(t)
    /\ task[t].term = lead.term /\ lead.lease > 0
    /\ DepsMet(t)
    /\ HasRoom(a)
    /\ task[t].version < MaxVersion
    /\ task' = [task EXCEPT ![t] = Claimed(@, i)]
    /\ execSecrets' = execSecrets \cup {<<t, task[t].attempt>>}
    /\ UNCHANGED <<boardVars, peerVars, agentVars, lead>>

(* execution(): the credential of the task's current attempt, and a task   *)
(* that is neither terminal nor submitted.  adopt alone may come from an   *)
(* incarnation other than the attempt's.                                   *)
Holds(a, i, t, n) ==
    /\ OwnAgent(a, i)
    /\ a = task[t].agent /\ n = task[t].attempt
    /\ <<t, n>> \in execSecrets
    /\ task[t].state \notin Terminal \cup {"result_submitted"}

Executes(a, i, t, n) == Holds(a, i, t, n) /\ i = task[t].inc

Adopted(r, i) == [r EXCEPT !.inc = i, !.lease = LeaseDuration]

Adopt(a, i, t, n) ==
    /\ Holds(a, i, t, n)
    /\ IsActive(t)
    /\ task' = [task EXCEPT ![t] = Adopted(@, i)]
    /\ UNCHANGED <<boardVars, peerVars, agentVars, lead, execSecrets>>

(* What a worker reports moves the task to the state s(t). *)
Report(t, s) ==
    /\ Change(t, s)
    /\ UNCHANGED <<boardVars, peerVars, agentVars, lead, execSecrets>>

Start(a, i, t, n) ==
    /\ Executes(a, i, t, n)
    /\ task[t].state = "claimed" /\ task[t].lease > 0
    /\ Report(t, "running")

(* task.progress: an empty r.Name repeats the task's own state. *)
MakeProgress(a, i, t, n, s) ==
    /\ Executes(a, i, t, n)
    /\ task[t].state # "cancel_requested" /\ task[t].lease > 0
    /\ Report(t, s)

Result(a, i, t, n) ==
    /\ Executes(a, i, t, n)
    /\ task[t].state # "cancel_requested" /\ task[t].lease > 0
    /\ Report(t, "result_submitted")

Failed(a, i, t, n) == Executes(a, i, t, n) /\ Report(t, "failed")

Cancelled(a, i, t, n) ==
    /\ Executes(a, i, t, n)
    /\ task[t].state = "cancel_requested"
    /\ Report(t, "cancelled")

Uncertain(a, i, t, n) ==
    Executes(a, i, t, n) /\ Report(t, "needs_reconciliation")

-----------------------------------------------------------------------------
(* Time: every lease on the board runs down together. *)

Down(n) == IF n > 0 THEN n - 1 ELSE 0

Aged(r) == [r EXCEPT !.lease = Down(@)]

Tick ==
    /\ peer' = [p \in Peer |-> Aged(peer[p])]
    /\ lead' = Aged(lead)
    /\ task' = [t \in Task |-> Aged(task[t])]
    /\ UNCHANGED <<boardVars, peerSecrets, agentVars, execSecrets>>

-----------------------------------------------------------------------------
(* What a request may carry.  Terms, versions and attempts are compared    *)
(* for equality only.  A heartbeat's lists are read through the peer's own *)
(* endpoints and the active attempts, and term 0 stands for any stale one. *)
Term    == 0 .. MaxTerm
Version == 0 .. MaxVersion
Attempt == 1 .. MaxAttempts

(* leader.standbys keeps one copy of each endpoint, so lists do not repeat. *)
StandbyLists ==
    {l \in Standbys : \A j, k \in DOMAIN l : l[j] = l[k] => j = k}

PeerStep(p, i) ==
    \/ \E a \in Agent : InitBoard(p, i, a)
    \/ \E new \in {{}} \cup {{a} : a \in Agent} : Join(p, i, new)
    \/ \E a \in Agent : Register(p, i, a)
    \/ \E up \in BOOLEAN, on \in SUBSET AgentsOf(p), term \in {0, lead.term},
          run \in SUBSET {t \in Task : IsActive(t)} :
            Heartbeat(p, i, up, on, term, run)
    \/ Leave(p, i)

LeadershipStep(p, i) ==
    \/ \E term \in Term, a \in Agent : Handover(p, i, term, a)
    \/ \E list \in StandbyLists, auto \in BOOLEAN : SetStandbys(p, i, list, auto)
    \/ \E a \in Agent : Acquire(a, i)
    \/ \E b \in BOOLEAN : Pause(p, i, b)

LeaderStep(i, t) ==
    \/ \E p \in Peer, term \in Term : Cancel(p, i, term, t)
    \/ \E p \in Peer : Resolve(p, i, t)
    \/ \E l \in Agent, term \in Term :
         \/ \E a \in Agent, j \in Project, deps \in SUBSET Task :
              Assign(l, i, term, t, a, j, deps)
         \/ \E v \in Version, good \in BOOLEAN : Review(l, i, term, t, v, good)
         \/ \E a \in Agent : Retry(l, i, term, t, a)

WorkerStep(i, t) ==
    \E a \in Agent, n \in Attempt :
         \/ \E v \in Version : Claim(a, i, t, n, v)
         \/ Adopt(a, i, t, n)
         \/ Start(a, i, t, n)
         \/ \E s \in Progress : MakeProgress(a, i, t, n, s)
         \/ Result(a, i, t, n)
         \/ Failed(a, i, t, n)
         \/ Cancelled(a, i, t, n)
         \/ Uncertain(a, i, t, n)

Next ==
    \/ \E p \in Peer, i \in Incarnation : PeerStep(p, i) \/ LeadershipStep(p, i)
    \/ \E i \in Incarnation, t \in Task : LeaderStep(i, t) \/ WorkerStep(i, t)
    \/ Tick

Spec == Init /\ [][Next]_vars

-----------------------------------------------------------------------------
(* Properties. *)

(* Every part of the store has its shape: in particular a lease left never *)
(* falls below zero or above LeaseDuration, and a task that exists is      *)
(* addressed to a registered endpoint.                                     *)
TypeOK ==
    /\ enabled \in BOOLEAN /\ paused \in BOOLEAN
    /\ peer \in [Peer -> PeerRecord]
    /\ peerSecrets \in SUBSET Peer
    /\ agents \in SUBSET Agent
    /\ ready \in SUBSET agents
    /\ lead \in LeadRecord
    /\ task \in [Task -> TaskRecord]
    /\ execSecrets \in SUBSET (Task \X Nat)
    /\ \A t \in Task : Exists(t) => task[t].agent \in agents

(* An open offer always carries the leader's current term: a change of     *)
(* leader never strands an offer that no worker could claim any more       *)
(* (appoint re-terms the offers that task.claim fences by term).           *)
OpenOffersCurrent == \A t \in Task : IsOpen(t) => task[t].term = lead.term

(* Execution credentials fence attempts: a stored credential belongs to    *)
(* the task's latest attempt and to one that was claimed, so the worker of *)
(* a superseded attempt can never act; and an active attempt never loses   *)
(* the credential its worker needs to report.                              *)
CredentialsCurrent ==
    /\ \A e \in execSecrets :
         /\ e[2] = task[e[1]].attempt
         /\ Exists(e[1]) /\ ~IsOpen(e[1])
    /\ \A t \in Task : IsActive(t) => <<t, task[t].attempt>> \in execSecrets

(* Work never starts before its dependencies completed, and no dependency  *)
(* is un-completed under work that started, submitted or completed.        *)
DepsComplete ==
    \A t \in Task :
        task[t].state \in Active \cup {"result_submitted", "completed"}
            => \A d \in task[t].deps : task[d].state = "completed"

(* An endpoint never runs more attempts than it registered for, over every *)
(* interleaving of claims, retries and reassignments.                      *)
CapacityRespected ==
    \A a \in Agent : Cardinality(RunningOn(a)) <= MaxActive[a]

(* A registration that left leaves nothing behind: no credential, no ready *)
(* endpoint, no running attempt and no live leader lease.                  *)
RevokedIdle ==
    \A p \in Peer : peer[p].state = "revoked" =>
        /\ p \notin peerSecrets
        /\ \A a \in AgentsOf(p) : a \notin ready /\ RunningOn(a) = {}
        /\ lead.agent \in AgentsOf(p) => lead.lease = 0

(* A finished attempt is never reopened: a terminal task changes only when *)
(* a new attempt replaces the old one, and a completed one never changes,  *)
(* whatever late report, review, cancel or retry arrives.                  *)
FinishedStays ==
    [][\A t \in Task : task[t].state \in Terminal =>
         \/ /\ task'[t].state = task[t].state
            /\ task'[t].attempt = task[t].attempt
         \/ /\ task[t].state # "completed"
            /\ task'[t].state = "offered"
            /\ task'[t].attempt = task[t].attempt + 1]_vars

(* The version fences readers: whatever a client decided from a version of *)
(* a task (claim, review) still holds while the version is the same, since *)
(* a change of state, attempt, worker or term always raises it.            *)
VersionFences ==
    [][\A t \in Task : Exists(t) =>
         \/ task'[t].version > task[t].version
         \/ /\ task'[t].version = task[t].version
            /\ task'[t].state = task[t].state
            /\ task'[t].attempt = task[t].attempt
            /\ task'[t].agent = task[t].agent
            /\ task'[t].term = task[t].term]_vars

(* An execution lease is granted or renewed only to the daemon incarnation *)
(* that owns the registration: after a rejoin the old incarnation's        *)
(* attempt runs out unless it is adopted, however the heartbeats fall.     *)
LeaseNeedsIncarnation ==
    [][\A t \in Task : task'[t].lease > task[t].lease =>
         task'[t].inc = peer'[AgentPeer[task'[t].agent]].inc]_vars

(* The board implements the abstract life of a task: each request moves at *)
(* most one task, along the edges of TaskLifecycle, and the execution      *)
(* credentials are exactly its rights to report.                           *)
PhaseOf(s) ==
    CASE s = "none"             -> "none"
      [] s \in Open             -> "open"
      [] s \in Active           -> "active"
      [] s = "result_submitted" -> "submitted"
      [] s = "completed"        -> "done"
      [] OTHER                  -> "ended"

Life == INSTANCE TaskLifecycle WITH
          phase   <- [t \in Task |-> PhaseOf(task[t].state)],
          attempt <- [t \in Task |-> task[t].attempt],
          fence   <- execSecrets

ImplementsLifecycle == Life!LSpec

(* MaxPendingTasks bounds the tasks that are not terminal. *)
PendingBounded == Cardinality(Pending) <= MaxPendingTasks

=============================================================================
