--------------------------- MODULE PeerCoordProofs ---------------------------
(***************************************************************************)
(* Proofs about the coordination board, for any number of sessions,        *)
(* endpoints, tasks and incarnations and any value of the limits.          *)
(***************************************************************************)
EXTENDS PeerCoordHistory, FiniteSetTheorems, TLAPS

-----------------------------------------------------------------------------
(* What the operators that update a record return. *)

(* A full lease and an expired one are leases, and a lease is a number. *)
LEMMA LeaseBounds ==
    LeaseDuration \in Lease /\ 0 \in Lease /\ Lease \subseteq Nat
  BY LimitsAssumption DEF Lease

(* A tick takes a lease to a lease. *)
LEMMA DownBounds ==
  ASSUME NEW n \in Lease
  PROVE  Down(n) \in Lease /\ Down(n) <= n
  BY LimitsAssumption DEF Lease, Down

(* The fields of a task record have their types. *)
LEMMA TaskFields ==
  ASSUME NEW r \in TaskRecord
  PROVE  /\ r.state \in States /\ r.agent \in Agent \cup {None}
         /\ r.term \in Nat /\ r.version \in Nat /\ r.version + 1 \in Nat
         /\ r.project \in Project \cup {None} /\ r.deps \in SUBSET Task
         /\ r.attempt \in Nat /\ r.attempt + 1 \in Nat
         /\ r.inc \in Incarnation \cup {None} /\ r.lease \in Lease
  BY DEF TaskRecord

(* A re-termed offer: only term and version move. *)
LEMMA RetermedFacts ==
  ASSUME NEW r \in TaskRecord, NEW k \in Nat
  PROVE  /\ Retermed(r, k) \in TaskRecord
         /\ Retermed(r, k).state = r.state
         /\ Retermed(r, k).agent = r.agent
         /\ Retermed(r, k).term = k
         /\ Retermed(r, k).version = r.version + 1
         /\ Retermed(r, k).project = r.project
         /\ Retermed(r, k).deps = r.deps
         /\ Retermed(r, k).attempt = r.attempt
         /\ Retermed(r, k).inc = r.inc
         /\ Retermed(r, k).lease = r.lease
<1>1. ASSUME NEW x \in Nat
      PROVE  [r EXCEPT !.term = k, !.version = x] \in TaskRecord
  BY DEF TaskRecord
<1>2. Retermed(r, k) \in TaskRecord
  BY <1>1, TaskFields DEF Retermed
<1> QED
  BY <1>2 DEF Retermed, TaskRecord

(* change: only state and version move. *)
LEMMA ChangedFacts ==
  ASSUME NEW r \in TaskRecord, NEW s \in States
  PROVE  /\ Changed(r, s) \in TaskRecord
         /\ Changed(r, s).state = s
         /\ Changed(r, s).agent = r.agent
         /\ Changed(r, s).term = r.term
         /\ Changed(r, s).version = r.version + 1
         /\ Changed(r, s).project = r.project
         /\ Changed(r, s).deps = r.deps
         /\ Changed(r, s).attempt = r.attempt
         /\ Changed(r, s).inc = r.inc
         /\ Changed(r, s).lease = r.lease
<1>1. ASSUME NEW x \in Nat
      PROVE  [r EXCEPT !.state = s, !.version = x] \in TaskRecord
  BY DEF TaskRecord
<1>2. Changed(r, s) \in TaskRecord
  BY <1>1, TaskFields DEF Changed
<1> QED
  BY <1>2 DEF Changed, TaskRecord

(* A retried task: a fresh, unclaimed attempt. *)
LEMMA RetriedFacts ==
  ASSUME NEW r \in TaskRecord, NEW a \in Agent, NEW k \in Nat
  PROVE  /\ Retried(r, a, k) \in TaskRecord
         /\ Retried(r, a, k).state = "offered"
         /\ Retried(r, a, k).agent = a
         /\ Retried(r, a, k).term = k
         /\ Retried(r, a, k).version = r.version + 1
         /\ Retried(r, a, k).project = r.project
         /\ Retried(r, a, k).deps = r.deps
         /\ Retried(r, a, k).attempt = r.attempt + 1
         /\ Retried(r, a, k).inc = None
         /\ Retried(r, a, k).lease = 0
<1>1. ASSUME NEW x \in Nat, NEW y \in Nat
      PROVE  [r EXCEPT !.state = "offered", !.agent = a, !.term = k, !.version = x, !.attempt = y, !.inc = None, !.lease = 0] \in TaskRecord
  BY LeaseBounds DEF TaskRecord, States, Open
<1>2. Retried(r, a, k) \in TaskRecord
  BY <1>1, TaskFields DEF Retried
<1> QED
  BY <1>2 DEF Retried, TaskRecord

(* A claimed task. *)
LEMMA ClaimedFacts ==
  ASSUME NEW r \in TaskRecord, NEW i \in Incarnation
  PROVE  /\ Claimed(r, i) \in TaskRecord
         /\ Claimed(r, i).state = "claimed"
         /\ Claimed(r, i).agent = r.agent
         /\ Claimed(r, i).term = r.term
         /\ Claimed(r, i).version = r.version + 1
         /\ Claimed(r, i).project = r.project
         /\ Claimed(r, i).deps = r.deps
         /\ Claimed(r, i).attempt = r.attempt
         /\ Claimed(r, i).inc = i
         /\ Claimed(r, i).lease = LeaseDuration
<1>1. ASSUME NEW x \in Nat
      PROVE  [r EXCEPT !.state = "claimed", !.version = x, !.inc = i, !.lease = LeaseDuration] \in TaskRecord
  BY LeaseBounds DEF TaskRecord, States, Active
<1>2. Claimed(r, i) \in TaskRecord
  BY <1>1, TaskFields DEF Claimed
<1> QED
  BY <1>2 DEF Claimed, TaskRecord

(* An adopted execution: only incarnation and lease move. *)
LEMMA AdoptedFacts ==
  ASSUME NEW r \in TaskRecord, NEW i \in Incarnation
  PROVE  /\ Adopted(r, i) \in TaskRecord
         /\ Adopted(r, i).state = r.state
         /\ Adopted(r, i).agent = r.agent
         /\ Adopted(r, i).term = r.term
         /\ Adopted(r, i).version = r.version
         /\ Adopted(r, i).project = r.project
         /\ Adopted(r, i).deps = r.deps
         /\ Adopted(r, i).attempt = r.attempt
         /\ Adopted(r, i).inc = i
         /\ Adopted(r, i).lease = LeaseDuration
  BY LeaseBounds DEF Adopted, TaskRecord

(* A renewed execution lease. *)
LEMMA RenewedFacts ==
  ASSUME NEW r \in TaskRecord
  PROVE  /\ Renewed(r) \in TaskRecord
         /\ Renewed(r).state = r.state
         /\ Renewed(r).agent = r.agent
         /\ Renewed(r).term = r.term
         /\ Renewed(r).version = r.version
         /\ Renewed(r).project = r.project
         /\ Renewed(r).deps = r.deps
         /\ Renewed(r).attempt = r.attempt
         /\ Renewed(r).inc = r.inc
         /\ Renewed(r).lease = LeaseDuration
  BY LeaseBounds DEF Renewed, TaskRecord

(* A tick on a task. *)
LEMMA AgedFacts ==
  ASSUME NEW r \in TaskRecord
  PROVE  /\ Aged(r) \in TaskRecord
         /\ Aged(r).state = r.state
         /\ Aged(r).agent = r.agent
         /\ Aged(r).term = r.term
         /\ Aged(r).version = r.version
         /\ Aged(r).project = r.project
         /\ Aged(r).deps = r.deps
         /\ Aged(r).attempt = r.attempt
         /\ Aged(r).inc = r.inc
         /\ Aged(r).lease = Down(r.lease)
  BY DownBounds DEF Aged, TaskRecord

-----------------------------------------------------------------------------
(* The six reports of a worker differ in their guards and in the state     *)
(* they lead to; this is what they have in common.                         *)

Reports(a, i, t, n, s) ==
    /\ Executes(a, i, t, n)
    /\ s \in Progress \cup {"result_submitted", "failed", "cancelled",
                            "needs_reconciliation"}
    /\ s = "cancelled" => task[t].state = "cancel_requested"
    /\ Report(t, s)

(* A step of a worker is a claim, an adoption or a report. *)
LEMMA WorkerSteps ==
  ASSUME NEW i \in Incarnation, NEW t \in Task, WorkerStep(i, t)
  PROVE  \E a \in Agent, n \in Attempt :
           \/ \E v \in Version : Claim(a, i, t, n, v)
           \/ Adopt(a, i, t, n)
           \/ \E s \in States : Reports(a, i, t, n, s)
<1>1. PICK a \in Agent, n \in Attempt :
         \/ \E v \in Version : Claim(a, i, t, n, v)
         \/ Adopt(a, i, t, n)
         \/ Start(a, i, t, n)
         \/ \E s \in Progress : MakeProgress(a, i, t, n, s)
         \/ Result(a, i, t, n)
         \/ Failed(a, i, t, n)
         \/ Cancelled(a, i, t, n)
         \/ Uncertain(a, i, t, n)
  BY DEF WorkerStep
<1>2. {"running", "result_submitted", "failed", "cancelled",
       "needs_reconciliation"} \cup Progress \subseteq States
  BY DEF States, Active, Terminal, Progress
<1>3. CASE Start(a, i, t, n)
  <2>1. Reports(a, i, t, n, "running")
    BY <1>3 DEF Start, Reports, Progress
  <2> QED
    BY <1>2, <2>1
<1>4. CASE \E s \in Progress : MakeProgress(a, i, t, n, s)
  <2>1. PICK s \in Progress : Reports(a, i, t, n, s)
    BY <1>4 DEF MakeProgress, Reports, Progress
  <2> QED
    BY <1>2, <2>1
<1>5. CASE Result(a, i, t, n)
  <2>1. Reports(a, i, t, n, "result_submitted")
    BY <1>5 DEF Result, Reports
  <2> QED
    BY <1>2, <2>1
<1>6. CASE Failed(a, i, t, n)
  <2>1. Reports(a, i, t, n, "failed")
    BY <1>6 DEF Failed, Reports
  <2> QED
    BY <1>2, <2>1
<1>7. CASE Cancelled(a, i, t, n)
  <2>1. Reports(a, i, t, n, "cancelled")
    BY <1>7 DEF Cancelled, Reports
  <2> QED
    BY <1>2, <2>1
<1>8. CASE Uncertain(a, i, t, n)
  <2>1. Reports(a, i, t, n, "needs_reconciliation")
    BY <1>8 DEF Uncertain, Reports
  <2> QED
    BY <1>2, <2>1
<1> QED
  BY <1>1, <1>3, <1>4, <1>5, <1>6, <1>7, <1>8

(* appoint: leadership and tasks stay well formed, the term grows by one,  *)
(* and only open offers change, in their term and version.                 *)
LEMMA AppointFacts ==
  ASSUME TypeOK, NEW a \in Agent, Appoint(a)
  PROVE  /\ lead' \in LeadRecord
         /\ lead'.agent = a /\ lead'.term = lead.term + 1
         /\ task' \in [Task -> TaskRecord]
         /\ \A t \in Task :
              /\ task'[t].state = task[t].state
              /\ task'[t].agent = task[t].agent
              /\ task'[t].deps = task[t].deps
              /\ task'[t].attempt = task[t].attempt
              /\ task'[t].inc = task[t].inc
              /\ task'[t].lease = task[t].lease
              /\ IsOpen(t) => /\ task'[t].term = lead'.term
                              /\ task'[t].version = task[t].version + 1
              /\ ~IsOpen(t) => task'[t] = task[t]
<1>1. lead.term \in Nat /\ lead.term + 1 \in Nat
  BY DEF TypeOK, LeadRecord
<1>2. ASSUME NEW k \in Nat
      PROVE  [lead EXCEPT !.agent = a, !.term = k, !.lease = LeaseDuration]
               \in LeadRecord
  BY LeaseBounds DEF TypeOK, LeadRecord
<1>3. lead' \in LeadRecord
  BY <1>1, <1>2 DEF Appoint
<1>4. lead'.agent = a /\ lead'.term = lead.term + 1
  BY DEF TypeOK, LeadRecord, Appoint
<1>5. ASSUME NEW t \in Task
      PROVE  /\ task[t] \in TaskRecord
             /\ task'[t] = IF IsOpen(t) THEN Retermed(task[t], lead.term + 1)
                                        ELSE task[t]
  BY DEF TypeOK, Appoint
<1>6. task' \in [Task -> TaskRecord]
  BY <1>1, RetermedFacts DEF TypeOK, Appoint
<1>7. ASSUME NEW t \in Task
      PROVE  /\ task'[t].state = task[t].state
             /\ task'[t].agent = task[t].agent
             /\ task'[t].deps = task[t].deps
             /\ task'[t].attempt = task[t].attempt
             /\ task'[t].inc = task[t].inc
             /\ task'[t].lease = task[t].lease
             /\ IsOpen(t) => /\ task'[t].term = lead'.term
                             /\ task'[t].version = task[t].version + 1
             /\ ~IsOpen(t) => task'[t] = task[t]
  <2> DEFINE k == lead.term + 1
  <2>1. k \in Nat /\ lead'.term = k /\ task[t] \in TaskRecord
    BY <1>1, <1>4, <1>5
  <2>2. task'[t] = IF IsOpen(t) THEN Retermed(task[t], k) ELSE task[t]
    BY <1>5
  <2> HIDE DEF k
  <2>3. CASE IsOpen(t)
    BY <2>1, <2>2, <2>3, RetermedFacts
  <2>4. CASE ~IsOpen(t)
    BY <2>2, <2>4
  <2> QED
    BY <2>3, <2>4
<1> QED
  BY <1>3, <1>4, <1>6, <1>7

-----------------------------------------------------------------------------
(* Type correctness. *)

(* Every action of the board keeps the store well formed. *)
LEMMA TypeStep == TypeOK /\ [Next]_vars => TypeOK'
<1> SUFFICES ASSUME TypeOK, [Next]_vars PROVE TypeOK'
  OBVIOUS
<1>a. \A t \in Task : task[t] \in TaskRecord
  BY DEF TypeOK
<1>1. ASSUME NEW p \in Peer, NEW i \in Incarnation, NEW a \in Agent,
             InitBoard(p, i, a)
      PROVE  TypeOK'
  BY <1>1, AppointFacts, LeaseBounds
     DEF TypeOK, InitBoard, JoinAs, PeerRecord, PeerStates, Exists, AgentsOf
<1>2. ASSUME NEW p \in Peer, NEW i \in Incarnation,
             NEW new \in {{}} \cup {{a} : a \in Agent}, Join(p, i, new)
      PROVE  TypeOK'
  BY <1>2, LeaseBounds
     DEF TypeOK, Join, JoinAs, PeerRecord, PeerStates, Exists, AgentsOf,
         boardVars, taskVars
<1>3. ASSUME NEW p \in Peer, NEW i \in Incarnation, NEW a \in Agent,
             Register(p, i, a)
      PROVE  TypeOK'
  BY <1>3 DEF TypeOK, Register, Exists, boardVars, peerVars, taskVars
<1>4. ASSUME NEW p \in Peer, NEW i \in Incarnation, NEW up \in BOOLEAN,
             NEW on \in SUBSET AgentsOf(p), NEW term \in {0, lead.term},
             NEW run \in SUBSET {t \in Task : IsActive(t)},
             Heartbeat(p, i, up, on, term, run)
      PROVE  TypeOK'
  <2>1. peer' \in [Peer -> PeerRecord]
    <3>1. ASSUME NEW s \in PeerStates
          PROVE  [peer[p] EXCEPT !.state = s, !.lease = LeaseDuration]
                   \in PeerRecord
      BY LeaseBounds DEF TypeOK, PeerRecord
    <3> QED
      BY <1>4, <3>1 DEF TypeOK, Heartbeat, PeerStates
  <2>2. lead' \in LeadRecord
    BY <1>4, LeaseBounds DEF TypeOK, Heartbeat, LeadRecord, Renewed
  <2>3. task' \in [Task -> TaskRecord]
    BY <1>4, RenewedFacts DEF TypeOK, Heartbeat
  <2>4. \A t \in Task : /\ task'[t].state = task[t].state
                        /\ task'[t].agent = task[t].agent
    BY <1>4, RenewedFacts DEF TypeOK, Heartbeat
  <2>5. ready' \in SUBSET agents
    BY <1>4 DEF TypeOK, Heartbeat, AgentsOf
  <2> QED
    BY <1>4, <2>1, <2>2, <2>3, <2>4, <2>5
       DEF TypeOK, Heartbeat, Exists, boardVars
<1>5. ASSUME NEW p \in Peer, NEW i \in Incarnation, Leave(p, i)
      PROVE  TypeOK'
  <2>1. [peer[p] EXCEPT !.state = "revoked", !.lease = 0] \in PeerRecord
    BY LeaseBounds DEF TypeOK, PeerRecord, PeerStates
  <2>2. lead' \in LeadRecord
    BY <1>5, LeaseBounds DEF TypeOK, Leave, LeadRecord
  <2> QED
    BY <1>5, <2>1, <2>2 DEF TypeOK, Leave, Exists, boardVars, taskVars
<1>6. ASSUME NEW p \in Peer, NEW i \in Incarnation, NEW term \in Term,
             NEW a \in Agent, Handover(p, i, term, a)
      PROVE  TypeOK'
  BY <1>6, AppointFacts
     DEF TypeOK, Handover, Exists, boardVars, peerVars, agentVars
<1>7. ASSUME NEW p \in Peer, NEW i \in Incarnation,
             NEW list \in StandbyLists, NEW auto \in BOOLEAN,
             SetStandbys(p, i, list, auto)
      PROVE  TypeOK'
  BY <1>7 DEF TypeOK, SetStandbys, StandbyLists, LeadRecord, Exists,
              boardVars, peerVars, agentVars, taskVars
<1>8. ASSUME NEW i \in Incarnation, NEW a \in Agent, Acquire(a, i)
      PROVE  TypeOK'
  BY <1>8, AppointFacts
     DEF TypeOK, Acquire, Exists, boardVars, peerVars, agentVars
<1>9. ASSUME NEW p \in Peer, NEW i \in Incarnation, NEW b \in BOOLEAN,
             Pause(p, i, b)
      PROVE  TypeOK'
  BY <1>9 DEF TypeOK, Pause, Exists, peerVars, agentVars, taskVars
<1>10. ASSUME NEW t \in Task, NEW s \in States \ {"none"}, Exists(t),
              Change(t, s), execSecrets' \in SUBSET execSecrets,
              UNCHANGED <<boardVars, peerVars, agentVars, lead>>
       PROVE  TypeOK'
  BY <1>a, <1>10, ChangedFacts
     DEF TypeOK, Change, Exists, boardVars, peerVars, agentVars
<1>11. ASSUME NEW p \in Peer, NEW i \in Incarnation, NEW term \in Term,
              NEW t \in Task, Cancel(p, i, term, t)
       PROVE  TypeOK'
  BY <1>10, <1>11 DEF Cancel, CancelState, States, Terminal, Active
<1>12. ASSUME NEW p \in Peer, NEW i \in Incarnation, NEW t \in Task,
              Resolve(p, i, t)
       PROVE  TypeOK'
  BY <1>10, <1>12
     DEF Resolve, DropSecret, IsActive, Exists, States, Terminal, Active
<1>13. ASSUME NEW l \in Agent, NEW i \in Incarnation, NEW term \in Term,
              NEW t \in Task, NEW a \in Agent, NEW j \in Project,
              NEW deps \in SUBSET Task, Assign(l, i, term, t, a, j, deps)
       PROVE  TypeOK'
  <2>1. ASSUME NEW s \in Open
        PROVE  [NoTask EXCEPT !.state = s, !.agent = a, !.term = lead.term,
                              !.version = 1, !.project = j, !.deps = deps,
                              !.attempt = 1] \in TaskRecord
    BY LeaseBounds DEF TypeOK, LeadRecord, NoTask, TaskRecord, States
  <2>2. task' \in [Task -> TaskRecord]
    BY <1>13, <2>1 DEF TypeOK, Assign, Open
  <2>3. task'[t].agent = a
    BY <1>13 DEF TypeOK, Assign, NoTask
  <2>4. \A u \in Task \ {t} : task'[u] = task[u]
    BY <1>13 DEF TypeOK, Assign
  <2> QED
    BY <1>13, <2>2, <2>3, <2>4
       DEF TypeOK, Assign, Suits, Exists, boardVars, peerVars, agentVars
<1>14. ASSUME NEW l \in Agent, NEW i \in Incarnation, NEW term \in Term,
              NEW t \in Task, NEW v \in Version, NEW good \in BOOLEAN,
              Review(l, i, term, t, v, good)
       PROVE  TypeOK'
  BY <1>10, <1>14 DEF Review, Exists, States, Terminal
<1>15. ASSUME NEW l \in Agent, NEW i \in Incarnation, NEW term \in Term,
              NEW t \in Task, NEW a \in Agent, Retry(l, i, term, t, a)
       PROVE  TypeOK'
  <2>1. task' = [task EXCEPT ![t] = Retried(task[t], a, lead.term)]
    BY <1>15 DEF Retry
  <2>2. lead.term \in Nat
    BY DEF TypeOK, LeadRecord
  <2>3. /\ Retried(task[t], a, lead.term) \in TaskRecord
        /\ Retried(task[t], a, lead.term).agent = a
    BY <1>a, <2>2, RetriedFacts
  <2> QED
    BY <1>15, <2>1, <2>3
       DEF TypeOK, Retry, Suits, DropSecret, Exists, boardVars, peerVars,
           agentVars
<1>16. ASSUME NEW a \in Agent, NEW i \in Incarnation, NEW t \in Task,
              NEW n \in Attempt, NEW v \in Version, Claim(a, i, t, n, v)
       PROVE  TypeOK'
  BY <1>a, <1>16, ClaimedFacts, TaskFields
     DEF TypeOK, Claim, OwnAgent, Exists, boardVars, peerVars, agentVars
<1>17. ASSUME NEW a \in Agent, NEW i \in Incarnation, NEW t \in Task,
              NEW n \in Attempt, Adopt(a, i, t, n)
       PROVE  TypeOK'
  BY <1>a, <1>17, AdoptedFacts
     DEF TypeOK, Adopt, Exists, boardVars, peerVars, agentVars
<1>18. ASSUME NEW a \in Agent, NEW i \in Incarnation, NEW t \in Task,
              NEW n \in Attempt, NEW s \in States, Reports(a, i, t, n, s)
       PROVE  TypeOK'
  BY <1>a, <1>18, ChangedFacts
     DEF TypeOK, Reports, Report, Executes, Holds, OwnAgent, Change, Exists,
         Progress, boardVars, peerVars, agentVars
<1>19. CASE Tick
  <2>1. peer' \in [Peer -> PeerRecord]
    BY <1>19, DownBounds DEF TypeOK, Tick, PeerRecord, Aged
  <2>2. lead' \in LeadRecord
    BY <1>19, DownBounds DEF TypeOK, Tick, LeadRecord, Aged
  <2> QED
    BY <1>a, <1>19, <2>1, <2>2, AgedFacts
       DEF TypeOK, Tick, Exists, boardVars, agentVars
<1>20. CASE UNCHANGED vars
  BY <1>20 DEF TypeOK, vars, Exists
<1> QED
  BY <1>1, <1>2, <1>3, <1>4, <1>5, <1>6, <1>7, <1>8, <1>9, <1>11, <1>12,
     <1>13, <1>14, <1>15, <1>16, <1>17, <1>18, <1>19, <1>20, WorkerSteps
     DEF Next, PeerStep, LeadershipStep, LeaderStep

(* Type correctness of the board: whatever is requested, in whatever       *)
(* order, the store keeps its shape.                                       *)
THEOREM TypeCorrect == Spec => []TypeOK
<1>1. Init => TypeOK
  <2> SUFFICES ASSUME Init PROVE TypeOK
    OBVIOUS
  <2>1. <<>> \in Standbys
    <3>1. <<>> \in [1 .. 0 -> Agent] /\ 0 \in 0 .. MaxStandbys
      BY LimitsAssumption
    <3> QED
      BY <3>1 DEF Standbys
  <2>2. lead \in LeadRecord
    BY <2>1, LeaseBounds DEF Init, LeadRecord
  <2>3. NoPeer \in PeerRecord /\ NoTask \in TaskRecord
    BY LeaseBounds DEF NoPeer, NoTask, PeerRecord, PeerStates, TaskRecord, States
  <2> QED
    BY <2>2, <2>3 DEF Init, TypeOK, NoTask, Exists
<1> QED
  BY <1>1, TypeStep, PTL DEF Spec

-----------------------------------------------------------------------------
(* What a step does to tasks and execution credentials.  Either it is calm *)
(* (no task changes state, worker, dependencies or attempt), or exactly    *)
(* one task moves along one of six edges and nothing else does.            *)

Keeps(t) == /\ task'[t].agent = task[t].agent
            /\ task'[t].deps = task[t].deps
            /\ task'[t].attempt = task[t].attempt

Stays(t) == /\ Keeps(t)
            /\ task'[t].state = task[t].state
            /\ \/ /\ IsOpen(t)
                  /\ task'[t].term = lead'.term
                  /\ task'[t].version > task[t].version
               \/ /\ task'[t].term = task[t].term
                  /\ task'[t].version = task[t].version
                  /\ IsOpen(t) => lead'.term = lead.term

Calm == /\ execSecrets' = execSecrets
        /\ \A t \in Task : Stays(t)

Assigns(t) == /\ ~Exists(t)
              /\ task'[t].state \in Open
              /\ task'[t].attempt = 1
              /\ task'[t].term = lead.term
              /\ execSecrets' = execSecrets

Claims(t) == /\ IsOpen(t) /\ Keeps(t)
             /\ task'[t].state = "claimed"
             /\ DepsMet(t)
             /\ HasRoom(task[t].agent)
             /\ Eligible(task[t].agent)
             /\ execSecrets' = execSecrets \cup {<<t, task[t].attempt>>}

Works(t) == /\ IsActive(t) /\ Keeps(t)
            /\ task'[t].state \in
                 Active \cup {"result_submitted", "failed", "cancelled"}
            /\ task'[t].state = "cancelled"
                 => task[t].state = "cancel_requested"
            /\ <<t, task[t].attempt>> \in execSecrets
            /\ execSecrets' = execSecrets

Reviews(t) == /\ task[t].state = "result_submitted" /\ Keeps(t)
              /\ task'[t].state \in {"completed", "failed"}
              /\ execSecrets' = execSecrets

Ends(t) == /\ IsOpen(t) \/ task[t].state = "result_submitted" \/ IsActive(t)
           /\ Keeps(t)
           /\ task'[t].state \in {"failed", "cancelled"}
           /\ IsActive(t) => task'[t].state = "failed"
           /\ execSecrets' \in {execSecrets,
                                execSecrets \ {<<t, task[t].attempt>>}}

Retries(t) == /\ Retryable(t)
              /\ task'[t].state = "offered"
              /\ task'[t].attempt = task[t].attempt + 1
              /\ task'[t].deps = task[t].deps
              /\ task'[t].term = lead.term
              /\ execSecrets' = execSecrets \ {<<t, task[t].attempt>>}

Moves(t) ==
    /\ UNCHANGED <<boardVars, peerVars, agentVars, lead>>
    /\ \A u \in Task \ {t} : task'[u] = task[u]
    /\ Exists(t) => task'[t].version > task[t].version
    /\ \/ Assigns(t) \/ Claims(t) \/ Works(t)
       \/ Reviews(t) \/ Ends(t) \/ Retries(t)

(* Every step of the board is calm or moves one task.  The credentials     *)
(* invariant is what shows that a worker's report finds its task active.   *)
LEMMA TaskSteps ==
  ASSUME TypeOK, CredentialsCurrent, [Next]_vars
  PROVE  Calm \/ \E t \in Task : Moves(t)
<1>a. \A t \in Task : task[t] \in TaskRecord
  BY DEF TypeOK
<1>b. lead.term \in Nat
  BY DEF TypeOK, LeadRecord
<1>1. ASSUME NEW p \in Peer, NEW i \in Incarnation, PeerStep(p, i)
      PROVE  Calm
  <2>1. ASSUME NEW a \in Agent, InitBoard(p, i, a)
        PROVE  Calm
    BY <1>a, <2>1, AppointFacts, TaskFields DEF InitBoard, Calm, Stays, Keeps
  <2>2. ASSUME NEW up \in BOOLEAN, NEW on \in SUBSET AgentsOf(p),
               NEW term \in {0, lead.term},
               NEW run \in SUBSET {t \in Task : IsActive(t)},
               Heartbeat(p, i, up, on, term, run)
        PROVE  Calm
    <3>1. lead'.term = lead.term
      BY <2>2 DEF TypeOK, LeadRecord, Heartbeat, Renewed
    <3> QED
      BY <1>a, <2>2, <3>1, RenewedFacts DEF Heartbeat, Calm, Stays, Keeps
  <2>3. ASSUME Leave(p, i)
        PROVE  Calm
    <3>1. lead'.term = lead.term
      BY <2>3 DEF TypeOK, LeadRecord, Leave
    <3> QED
      BY <2>3, <3>1 DEF Leave, taskVars, Calm, Stays, Keeps
  <2>4. ASSUME UNCHANGED <<lead, taskVars>>
        PROVE  Calm
    BY <2>4 DEF taskVars, Calm, Stays, Keeps
  <2> QED
    BY <1>1, <2>1, <2>2, <2>3, <2>4 DEF PeerStep, Join, Register
<1>2. ASSUME NEW p \in Peer, NEW i \in Incarnation, LeadershipStep(p, i)
      PROVE  Calm
  <2>1. ASSUME NEW a \in Agent, Appoint(a), UNCHANGED execSecrets
        PROVE  Calm
    BY <1>a, <2>1, AppointFacts, TaskFields DEF Calm, Stays, Keeps
  <2>2. ASSUME UNCHANGED taskVars, lead'.term = lead.term
        PROVE  Calm
    BY <2>2 DEF taskVars, Calm, Stays, Keeps
  <2>3. ASSUME NEW list \in StandbyLists, NEW auto \in BOOLEAN,
               SetStandbys(p, i, list, auto)
        PROVE  UNCHANGED taskVars /\ lead'.term = lead.term
    BY <2>3 DEF TypeOK, LeadRecord, SetStandbys
  <2> QED
    BY <1>2, <2>1, <2>2, <2>3 DEF LeadershipStep, Handover, Acquire, Pause
<1>3. ASSUME NEW t \in Task, NEW s \in States, Change(t, s)
      PROVE  /\ Keeps(t)
             /\ task'[t].state = s
             /\ task'[t].version > task[t].version
             /\ \A u \in Task \ {t} : task'[u] = task[u]
  BY <1>a, <1>3, ChangedFacts, TaskFields DEF TypeOK, Change, Keeps
<1>4. ASSUME NEW i \in Incarnation, NEW t \in Task, LeaderStep(i, t)
      PROVE  Moves(t)
  <2>1. ASSUME NEW p \in Peer, NEW term \in Term, Cancel(p, i, term, t)
        PROVE  Moves(t)
    <3>1. CancelState(t) \in {"cancelled", "cancel_requested"} \cap States
      BY DEF CancelState, States, Terminal, Active
    <3>2. /\ Keeps(t) /\ task'[t].state = CancelState(t)
          /\ task'[t].version > task[t].version
          /\ \A u \in Task \ {t} : task'[u] = task[u]
          /\ UNCHANGED <<boardVars, peerVars, agentVars, lead, execSecrets>>
          /\ Exists(t) /\ task[t].state \notin Terminal
      BY <1>3, <2>1, <3>1 DEF Cancel
    <3>3. CASE IsOpen(t) \/ task[t].state = "result_submitted"
      <4>1. Ends(t)
        BY <3>2, <3>3 DEF CancelState, Ends, IsOpen, IsActive, Open, Active
      <4> QED
        BY <3>2, <4>1 DEF Moves
    <3>4. CASE ~(IsOpen(t) \/ task[t].state = "result_submitted")
      <4>1. IsActive(t)
        BY <1>a, <3>2, <3>4, TaskFields DEF States, Exists, IsOpen, IsActive
      <4>2. Works(t)
        BY <3>2, <3>4, <4>1
           DEF CancelState, Works, CredentialsCurrent, Active
      <4> QED
        BY <3>2, <4>2 DEF Moves
    <3> QED
      BY <3>3, <3>4
  <2>2. ASSUME NEW p \in Peer, Resolve(p, i, t)
        PROVE  Moves(t)
    <3>1. Keeps(t) /\ task'[t].state = "failed"
          /\ task'[t].version > task[t].version
          /\ \A u \in Task \ {t} : task'[u] = task[u]
      BY <1>3, <2>2 DEF Resolve, States, Terminal
    <3>2. Ends(t)
      BY <2>2, <3>1 DEF Resolve, Ends, DropSecret
    <3> QED
      BY <2>2, <3>1, <3>2 DEF Resolve, Moves
  <2>3. ASSUME NEW l \in Agent, NEW term \in Term, NEW a \in Agent,
               NEW j \in Project, NEW deps \in SUBSET Task,
               Assign(l, i, term, t, a, j, deps)
        PROVE  Moves(t)
    <3>1. task'[t].state \in Open /\ task'[t].attempt = 1
          /\ task'[t].term = lead.term
      BY <2>3 DEF TypeOK, Assign, NoTask, Open
    <3>2. \A u \in Task \ {t} : task'[u] = task[u]
      BY <2>3 DEF TypeOK, Assign
    <3> QED
      BY <2>3, <3>1, <3>2 DEF Assign, Moves, Assigns
  <2>4. ASSUME NEW l \in Agent, NEW term \in Term, NEW v \in Version,
               NEW good \in BOOLEAN, Review(l, i, term, t, v, good)
        PROVE  Moves(t)
    <3>1. Keeps(t) /\ task'[t].state \in {"completed", "failed"}
          /\ task'[t].version > task[t].version
          /\ \A u \in Task \ {t} : task'[u] = task[u]
      BY <1>3, <2>4 DEF Review, States, Terminal
    <3> QED
      BY <2>4, <3>1 DEF Review, Moves, Reviews
  <2>5. ASSUME NEW l \in Agent, NEW term \in Term, NEW a \in Agent,
               Retry(l, i, term, t, a)
        PROVE  Moves(t)
    <3>1. task'[t] = Retried(task[t], a, lead.term)
      BY <2>5 DEF TypeOK, Retry
    <3>2. \A u \in Task \ {t} : task'[u] = task[u]
      BY <2>5 DEF TypeOK, Retry
    <3>3. Retries(t)
      BY <1>a, <1>b, <2>5, <3>1, RetriedFacts DEF Retry, Retries, DropSecret
    <3>4. task'[t].version > task[t].version
      <4>1. task'[t].version = task[t].version + 1 /\ task[t].version \in Nat
        BY <1>a, <1>b, <3>1, RetriedFacts, TaskFields
      <4> QED
        BY <4>1
    <3> QED
      BY <2>5, <3>2, <3>3, <3>4 DEF Retry, Moves
  <2> QED
    BY <1>4, <2>1, <2>2, <2>3, <2>4, <2>5 DEF LeaderStep
<1>5. ASSUME NEW a \in Agent, NEW i \in Incarnation, NEW t \in Task,
             NEW n \in Attempt, NEW v \in Version, Claim(a, i, t, n, v)
      PROVE  Moves(t)
  <2>1. task'[t] = Claimed(task[t], i)
    BY <1>5 DEF TypeOK, Claim
  <2>2. \A u \in Task \ {t} : task'[u] = task[u]
    BY <1>5 DEF TypeOK, Claim
  <2>3. /\ Keeps(t) /\ task'[t].state = "claimed"
        /\ task'[t].version > task[t].version
    BY <1>a, <2>1, ClaimedFacts, TaskFields DEF Keeps
  <2>4. Claims(t)
    BY <1>5, <2>3 DEF Claim, Claims
  <2> QED
    BY <1>5, <2>2, <2>3, <2>4 DEF Claim, Moves
<1>6. ASSUME NEW a \in Agent, NEW i \in Incarnation, NEW t \in Task,
             NEW n \in Attempt, Adopt(a, i, t, n)
      PROVE  Calm
  BY <1>a, <1>6, AdoptedFacts DEF TypeOK, Adopt, Calm, Stays, Keeps
<1>7. ASSUME NEW a \in Agent, NEW i \in Incarnation, NEW t \in Task,
             NEW n \in Attempt, NEW s \in States, Reports(a, i, t, n, s)
      PROVE  Moves(t)
  <2>1. /\ Keeps(t) /\ task'[t].state = s
        /\ task'[t].version > task[t].version
        /\ \A u \in Task \ {t} : task'[u] = task[u]
        /\ UNCHANGED <<boardVars, peerVars, agentVars, lead, execSecrets>>
    BY <1>3, <1>7 DEF Reports, Report
  <2>2. <<t, task[t].attempt>> \in execSecrets
    BY <1>7 DEF Reports, Executes, Holds
  <2>3. Exists(t) /\ ~IsOpen(t)
    BY <2>2 DEF CredentialsCurrent
  <2>4. IsActive(t)
    BY <1>a, <1>7, <2>3, TaskFields
       DEF Reports, Executes, Holds, States, Exists, IsOpen, IsActive
  <2>5. /\ s \in Active \cup {"result_submitted", "failed", "cancelled"}
        /\ s = "cancelled" => task[t].state = "cancel_requested"
    BY <1>7 DEF Reports, Progress, Active
  <2>6. Works(t)
    BY <2>1, <2>2, <2>4, <2>5 DEF Works
  <2> QED
    BY <2>1, <2>6 DEF Moves
<1>8. CASE Tick
  <2>1. lead'.term = lead.term
    BY <1>8 DEF TypeOK, LeadRecord, Tick, Aged
  <2> QED
    BY <1>a, <1>8, <2>1, AgedFacts DEF Tick, Calm, Stays, Keeps
<1>9. CASE UNCHANGED vars
  BY <1>9 DEF vars, Calm, Stays, Keeps
<1> QED
  BY <1>1, <1>2, <1>4, <1>5, <1>6, <1>7, <1>8, <1>9, WorkerSteps DEF Next

-----------------------------------------------------------------------------
(* Execution credentials. *)

(* A calm step and each of the six moves keep the credentials current. *)
LEMMA CredentialsStep ==
    TypeOK /\ CredentialsCurrent /\ [Next]_vars => CredentialsCurrent'
<1> SUFFICES ASSUME TypeOK, CredentialsCurrent, [Next]_vars
             PROVE  CredentialsCurrent'
  OBVIOUS
<1>a. execSecrets \in SUBSET (Task \X Nat)
  BY DEF TypeOK
<1>b. \A t \in Task : task[t].attempt \in Nat
  BY TaskFields DEF TypeOK
<1>1. CASE Calm
  BY <1>1, <1>a DEF Calm, Stays, Keeps, CredentialsCurrent, Exists, IsOpen, IsActive
<1>2. ASSUME NEW t \in Task, Moves(t)
      PROVE  CredentialsCurrent'
  <2>1. \A u \in Task \ {t} : task'[u] = task[u]
    BY <1>2 DEF Moves
  <2>2. CASE Assigns(t)
    BY <1>a, <2>1, <2>2
       DEF Assigns, CredentialsCurrent, Exists, IsOpen, IsActive, Open, Active
  <2>3. CASE Claims(t)
    <3>1. \A e \in execSecrets : e[1] # t
      BY <2>3, <1>a DEF Claims, CredentialsCurrent
    <3> QED
      BY <1>a, <1>b, <2>1, <2>3, <3>1
         DEF Claims, Keeps, CredentialsCurrent, Exists, IsOpen, IsActive, Open
  <2>4. CASE Works(t)
    BY <1>a, <2>1, <2>4
       DEF Works, Keeps, CredentialsCurrent, Exists, IsOpen, IsActive, Open,
           Active
  <2>5. CASE Reviews(t)
    BY <1>a, <2>1, <2>5
       DEF Reviews, Keeps, CredentialsCurrent, Exists, IsOpen, IsActive, Open,
           Active
  <2>6. CASE Ends(t)
    <3>1. task'[t].state \notin Open \cup Active \cup {"none"}
      BY <2>6 DEF Ends, Open, Active
    <3> QED
      BY <1>a, <1>b, <2>1, <2>6, <3>1
         DEF Ends, Keeps, CredentialsCurrent, Exists, IsOpen, IsActive
  <2>7. CASE Retries(t)
    <3>1. \A e \in execSecrets' : e[1] # t
      BY <1>a, <1>b, <2>7 DEF Retries, CredentialsCurrent
    <3> QED
      BY <1>a, <2>1, <2>7, <3>1
         DEF Retries, CredentialsCurrent, Exists, IsOpen, IsActive, Active
  <2> QED
    BY <1>2, <2>2, <2>3, <2>4, <2>5, <2>6, <2>7 DEF Moves
<1> QED
  BY <1>1, <1>2, TaskSteps

(* A superseded attempt can never report: a stored execution credential    *)
(* belongs to the latest attempt of its task, and an active attempt always *)
(* has one.                                                                *)
THEOREM CredentialsSafe == Spec => [](TypeOK /\ CredentialsCurrent)
<1>1. Init => CredentialsCurrent
  BY DEF Init, CredentialsCurrent, NoTask, IsActive, Active
<1>2. Spec => []TypeOK
  BY TypeCorrect
<1> QED
  BY <1>1, <1>2, CredentialsStep, PTL DEF Spec

-----------------------------------------------------------------------------
(* The board implements the abstract life of a task. *)

(* Each step is a step of TaskLifecycle or leaves its variables alone. *)
LEMMA LifecycleStep ==
  ASSUME TypeOK, CredentialsCurrent, [Next]_vars
  PROVE  [Life!LNext]_(Life!lvars)
<1> DEFINE ph == [t \in Task |-> PhaseOf(task[t].state)]
           at == [t \in Task |-> task[t].attempt]
<1>a. \A s \in States : /\ PhaseOf(s) = "none" <=> s = "none"
                        /\ s \in Open => PhaseOf(s) = "open"
                        /\ s \in Active => PhaseOf(s) = "active"
                        /\ s = "result_submitted" => PhaseOf(s) = "submitted"
                        /\ s = "completed" => PhaseOf(s) = "done"
                        /\ s \in {"failed", "cancelled", "expired"}
                             => PhaseOf(s) = "ended"
  BY DEF PhaseOf, States, Open, Active, Terminal
<1>b. \A t \in Task : task[t].state \in States /\ task'[t].state \in States
  BY TaskFields, TypeStep DEF TypeOK
<1>1. CASE Calm
  BY <1>1 DEF Calm, Stays, Keeps, Life!lvars
<1>2. ASSUME NEW t \in Task, Moves(t)
      PROVE  Life!LNext \/ UNCHANGED Life!lvars
  <2>1. \A u \in Task \ {t} : task'[u] = task[u]
    BY <1>2 DEF Moves
  <2>2. ph' = [ph EXCEPT ![t] = PhaseOf(task'[t].state)]
    BY <2>1
  <2>3. at' = [at EXCEPT ![t] = task'[t].attempt]
    BY <2>1
  <2>k. Keeps(t) => at' = at
    BY <2>1 DEF Keeps
  <2>4. CASE Assigns(t)
    <3>1. ph[t] = "none" /\ PhaseOf(task'[t].state) = "open"
      BY <1>a, <1>b, <2>4 DEF Assigns, Exists
    <3>2. Life!Offer(t)
      BY <2>2, <2>3, <2>4, <3>1 DEF Assigns, Life!Offer, Life!Move
    <3> QED
      BY <3>2 DEF Life!LNext
  <2>5. CASE Claims(t)
    <3>1. ph[t] = "open" /\ PhaseOf(task'[t].state) = "active"
      BY <1>a, <1>b, <2>5 DEF Claims, IsOpen, Active
    <3>2. Life!TakeUp(t)
      BY <2>2, <2>k, <2>5, <3>1 DEF Claims, Life!TakeUp, Life!Move
    <3> QED
      BY <3>2 DEF Life!LNext
  <2>6. CASE Works(t) /\ task'[t].state \in Active
    <3>1. PhaseOf(task'[t].state) = ph[t]
      BY <1>a, <1>b, <2>6 DEF Works, IsActive
    <3>2. ph' = ph
      BY <2>2, <3>1
    <3> QED
      BY <2>6, <2>k, <3>2 DEF Works, Life!lvars
  <2>7. CASE Works(t) /\ task'[t].state = "result_submitted"
    <3>1. ph[t] = "active" /\ PhaseOf(task'[t].state) = "submitted"
      BY <1>a, <1>b, <2>7 DEF Works, IsActive
    <3>2. Life!Submit(t)
      BY <2>2, <2>k, <2>7, <3>1 DEF Works, Life!Submit, Life!Move
    <3> QED
      BY <3>2 DEF Life!LNext
  <2>8. CASE Reviews(t) /\ task'[t].state = "completed"
    <3>1. ph[t] = "submitted" /\ PhaseOf(task'[t].state) = "done"
      BY <1>a, <1>b, <2>8 DEF Reviews
    <3>2. Life!Accept(t)
      BY <2>2, <2>k, <2>8, <3>1 DEF Reviews, Life!Accept, Life!Move
    <3> QED
      BY <3>2 DEF Life!LNext
  <2>9. CASE \/ Works(t) /\ task'[t].state \in {"failed", "cancelled"}
             \/ Reviews(t) /\ task'[t].state = "failed"
             \/ Ends(t)
    <3>1. /\ ph[t] \in {"open", "active", "submitted"}
          /\ PhaseOf(task'[t].state) = "ended"
      BY <1>a, <1>b, <2>9 DEF Works, Reviews, Ends, IsOpen, IsActive
    <3>2. /\ Keeps(t)
          /\ execSecrets' \in {execSecrets,
                               execSecrets \ {<<t, task[t].attempt>>}}
      BY <2>9 DEF Works, Reviews, Ends
    <3>3. Life!End(t)
      BY <2>2, <2>k, <3>1, <3>2 DEF Life!End, Life!Move
    <3> QED
      BY <3>3 DEF Life!LNext
  <2>10. CASE Retries(t)
    <3>1. ph[t] = "ended" /\ PhaseOf(task'[t].state) = "open"
      BY <1>a, <1>b, <2>10 DEF Retries, Retryable, Terminal, Open
    <3>2. Life!Reopen(t)
      BY <2>2, <2>3, <2>10, <3>1 DEF Retries, Life!Reopen, Life!Move
    <3> QED
      BY <3>2 DEF Life!LNext
  <2> QED
    BY <1>2, <2>4, <2>5, <2>6, <2>7, <2>8, <2>9, <2>10
       DEF Moves, Works, Reviews
<1> QED
  BY <1>1, <1>2, TaskSteps

(* The board implements TaskLifecycle. *)
THEOREM LifecycleImplemented == Spec => ImplementsLifecycle
<1>1. Init => Life!LInit
  BY DEF Init, Life!LInit, NoTask, PhaseOf, Open, Active
<1>2. Spec => [](TypeOK /\ CredentialsCurrent)
  BY CredentialsSafe
<1> QED
  BY <1>1, <1>2, LifecycleStep, PTL DEF Spec, ImplementsLifecycle, Life!LSpec

-----------------------------------------------------------------------------
(* Offers, dependencies and capacity. *)

(* Open offers always carry the leader's current term. *)
THEOREM OffersSafe == Spec => []OpenOffersCurrent
<1>1. Init => OpenOffersCurrent
  BY DEF Init, OpenOffersCurrent, NoTask, IsOpen, Open
<1>2. ASSUME TypeOK, CredentialsCurrent, OpenOffersCurrent, [Next]_vars
      PROVE  OpenOffersCurrent'
  <2>1. CASE Calm
    BY <1>2, <2>1 DEF Calm, Stays, OpenOffersCurrent, IsOpen
  <2>2. ASSUME NEW t \in Task, Moves(t)
        PROVE  OpenOffersCurrent'
    <3>1. /\ lead' = lead
          /\ \A u \in Task \ {t} : task'[u] = task[u]
      BY <2>2 DEF Moves
    <3>2. task'[t].state \in Open => task'[t].term = lead.term
      BY <2>2 DEF Moves, Assigns, Claims, Works, Reviews, Ends, Retries, Open,
                  Active
    <3> QED
      BY <1>2, <3>1, <3>2 DEF OpenOffersCurrent, IsOpen
  <2> QED
    BY <1>2, <2>1, <2>2, TaskSteps
<1>3. Spec => [](TypeOK /\ CredentialsCurrent)
  BY CredentialsSafe
<1> QED
  BY <1>1, <1>2, <1>3, PTL DEF Spec

(* A completed task stays completed, and work that started keeps its       *)
(* dependencies completed.                                                 *)
THEOREM DependenciesSafe == Spec => []DepsComplete
<1> DEFINE Started == Active \cup {"result_submitted", "completed"}
<1>1. Init => DepsComplete
  BY DEF Init, DepsComplete, NoTask
<1>2. ASSUME TypeOK, CredentialsCurrent, DepsComplete, [Next]_vars
      PROVE  DepsComplete'
  <2>a. \A t \in Task : task[t].deps \in SUBSET Task
    BY <1>2, TaskFields DEF TypeOK
  <2>1. CASE Calm
    BY <1>2, <2>1, <2>a DEF Calm, Stays, Keeps, DepsComplete
  <2>2. ASSUME NEW t \in Task, Moves(t)
        PROVE  DepsComplete'
    <3>1. \A u \in Task \ {t} : task'[u] = task[u]
      BY <2>2 DEF Moves
    <3>2. task[t].state # "completed"
      BY <2>2 DEF Moves, Assigns, Claims, Works, Reviews, Ends, Retries,
                  Exists, IsOpen, IsActive, Open, Active, Retryable
    <3>3. \A d \in Task : task[d].state = "completed" => task'[d].state = "completed"
      BY <3>1, <3>2
    <3>4. ASSUME task'[t].state \in Started
          PROVE  /\ task'[t].deps = task[t].deps
                 /\ \A d \in task[t].deps : task[d].state = "completed"
      <4>1. CASE Claims(t)
        BY <4>1 DEF Claims, Keeps, DepsMet
      <4>2. CASE Works(t)
        BY <1>2, <4>2 DEF Works, Keeps, DepsComplete, IsActive
      <4>3. CASE Reviews(t)
        BY <1>2, <4>3 DEF Reviews, Keeps, DepsComplete
      <4>4. ~(Assigns(t) \/ Ends(t) \/ Retries(t))
        BY <3>4 DEF Assigns, Ends, Retries, Open, Active
      <4> QED
        BY <2>2, <4>1, <4>2, <4>3, <4>4 DEF Moves
    <3> QED
      BY <1>2, <2>a, <3>1, <3>3, <3>4 DEF DepsComplete
  <2> QED
    BY <1>2, <2>1, <2>2, TaskSteps
<1>3. Spec => [](TypeOK /\ CredentialsCurrent)
  BY CredentialsSafe
<1> QED
  BY <1>1, <1>2, <1>3, PTL DEF Spec

(* An endpoint never runs more attempts than it registered for. *)
THEOREM CapacitySafe == Spec => []CapacityRespected
<1>a. ASSUME NEW a \in Agent
      PROVE  MaxActive[a] \in Nat
  BY LimitsAssumption
<1>b. ASSUME NEW S, S \subseteq Task
      PROVE  IsFiniteSet(S) /\ Cardinality(S) \in Nat
  BY <1>b, TaskFinite, FS_Subset, FS_CardinalityType
<1>1. Init => CapacityRespected
  <2> SUFFICES ASSUME Init, NEW a \in Agent
               PROVE  Cardinality(RunningOn(a)) <= MaxActive[a]
    BY DEF CapacityRespected
  <2>1. RunningOn(a) = {}
    BY DEF Init, RunningOn, NoTask, IsActive, Active
  <2> QED
    BY <1>a, <2>1, FS_EmptySet
<1>2. ASSUME TypeOK, CredentialsCurrent, CapacityRespected, [Next]_vars
      PROVE  CapacityRespected'
  <2> SUFFICES ASSUME NEW a \in Agent
               PROVE  Cardinality(RunningOn(a)') <= MaxActive[a]
    BY DEF CapacityRespected
  <2>1. Cardinality(RunningOn(a)) <= MaxActive[a]
    BY <1>2 DEF CapacityRespected
  <2>2. RunningOn(a) \subseteq Task /\ RunningOn(a)' \subseteq Task
    BY DEF RunningOn
  <2>3. ASSUME RunningOn(a)' \subseteq RunningOn(a)
        PROVE  Cardinality(RunningOn(a)') <= MaxActive[a]
    <3>1. Cardinality(RunningOn(a)') <= Cardinality(RunningOn(a))
      BY <1>b, <2>2, <2>3, FS_Subset
    <3> QED
      BY <1>a, <1>b, <2>1, <2>2, <3>1
  <2>4. CASE Calm
    <3>1. RunningOn(a)' \subseteq RunningOn(a)
      BY <2>4 DEF Calm, Stays, Keeps, RunningOn, IsActive
    <3> QED
      BY <2>3, <3>1
  <2>5. ASSUME NEW t \in Task, Moves(t)
        PROVE  Cardinality(RunningOn(a)') <= MaxActive[a]
    <3>1. \A u \in Task \ {t} : task'[u] = task[u]
      BY <2>5 DEF Moves
    <3>2. CASE Claims(t) /\ task[t].agent = a
      <4>1. RunningOn(a)' = RunningOn(a) \cup {t}
        BY <3>1, <3>2 DEF Claims, Keeps, RunningOn, IsActive, Active
      <4>2. t \notin RunningOn(a)
        BY <3>2 DEF Claims, RunningOn, IsOpen, IsActive, Open, Active
      <4>3. Cardinality(RunningOn(a) \cup {t}) = Cardinality(RunningOn(a)) + 1
        BY <1>b, <2>2, <4>2, FS_AddElement
      <4>4. Cardinality(RunningOn(a)) < MaxActive[a]
        BY <3>2 DEF Claims, HasRoom
      <4> QED
        BY <1>a, <1>b, <2>2, <4>1, <4>3, <4>4
    <3>3. CASE ~(Claims(t) /\ task[t].agent = a)
      <4>1. t \in RunningOn(a)' => t \in RunningOn(a)
        BY <2>5, <3>3
           DEF Moves, Assigns, Claims, Works, Reviews, Ends, Retries, Keeps,
               RunningOn, IsActive, Open, Active
      <4>2. RunningOn(a)' \subseteq RunningOn(a)
        BY <3>1, <4>1 DEF RunningOn, IsActive
      <4> QED
        BY <2>3, <4>2
    <3> QED
      BY <3>2, <3>3
  <2> QED
    BY <1>2, <2>4, <2>5, TaskSteps
<1>3. Spec => [](TypeOK /\ CredentialsCurrent)
  BY CredentialsSafe
<1> QED
  BY <1>1, <1>2, <1>3, PTL DEF Spec

-----------------------------------------------------------------------------
(* What a step may never do. *)

(* A finished attempt is never reopened, and completed is for ever. *)
THEOREM FinishedSafe == Spec => FinishedStays
<1> DEFINE Safe == \A t \in Task : task[t].state \in Terminal =>
         \/ /\ task'[t].state = task[t].state
            /\ task'[t].attempt = task[t].attempt
         \/ /\ task[t].state # "completed"
            /\ task'[t].state = "offered"
            /\ task'[t].attempt = task[t].attempt + 1
<1>1. ASSUME TypeOK, CredentialsCurrent, [Next]_vars
      PROVE  Safe
  <2>1. CASE Calm
    BY <2>1 DEF Calm, Stays, Keeps
  <2>2. ASSUME NEW t \in Task, Moves(t)
        PROVE  Safe
    <3>1. \A u \in Task \ {t} : task'[u] = task[u]
      BY <2>2 DEF Moves
    <3>2. ~Retries(t) => task[t].state \notin Terminal
      BY <2>2 DEF Moves, Assigns, Claims, Works, Reviews, Ends, Exists,
                  IsOpen, IsActive, Open, Active, Terminal
    <3> QED
      BY <3>1, <3>2 DEF Retries, Retryable
  <2> QED
    BY <1>1, <2>1, <2>2, TaskSteps
<1>2. Spec => [](TypeOK /\ CredentialsCurrent)
  BY CredentialsSafe
<1> QED
  BY <1>1, <1>2, PTL DEF Spec, FinishedStays

(* A change of state, attempt, worker or term raises the version. *)
THEOREM VersionsSafe == Spec => VersionFences
<1> DEFINE Safe == \A t \in Task : Exists(t) =>
         \/ task'[t].version > task[t].version
         \/ /\ task'[t].version = task[t].version
            /\ task'[t].state = task[t].state
            /\ task'[t].attempt = task[t].attempt
            /\ task'[t].agent = task[t].agent
            /\ task'[t].term = task[t].term
<1>1. ASSUME TypeOK, CredentialsCurrent, [Next]_vars
      PROVE  Safe
  <2>1. CASE Calm
    BY <2>1 DEF Calm, Stays, Keeps
  <2>2. ASSUME NEW t \in Task, Moves(t)
        PROVE  Safe
    BY <2>2 DEF Moves
  <2> QED
    BY <1>1, <2>1, <2>2, TaskSteps
<1>2. Spec => [](TypeOK /\ CredentialsCurrent)
  BY CredentialsSafe
<1> QED
  BY <1>1, <1>2, PTL DEF Spec, VersionFences

-----------------------------------------------------------------------------
(* Registrations. *)

(* RevokedIdle for one registration. *)
Idle(q) ==
    /\ q \notin peerSecrets
    /\ \A a \in AgentsOf(q) : a \notin ready /\ RunningOn(a) = {}
    /\ lead.agent \in AgentsOf(q) => lead.lease = 0

(* A registration that left leaves nothing behind, and nothing that        *)
(* happens afterwards gives it back a lease, an endpoint or an attempt.    *)
THEOREM RevokedSafe == Spec => []RevokedIdle
<1>1. Init => RevokedIdle
  BY DEF Init, RevokedIdle, NoPeer
<1>2. ASSUME TypeOK, CredentialsCurrent, RevokedIdle, [Next]_vars
      PROVE  RevokedIdle'
  <2> SUFFICES ASSUME NEW q \in Peer, peer'[q].state = "revoked"
               PROVE  Idle(q)'
    BY DEF RevokedIdle, Idle
  <2>a. peer[q].state = "revoked" => Idle(q)
    BY <1>2 DEF RevokedIdle, Idle
  <2>b. Calm => \A a \in Agent : RunningOn(a)' = RunningOn(a)
    BY DEF Calm, Stays, Keeps, RunningOn, IsActive
  <2>c. AgentsOf(q) \subseteq Agent
    BY <1>2 DEF TypeOK, AgentsOf
  <2>1. ASSUME NEW t \in Task, Moves(t)
        PROVE  Idle(q)'
    <3>1. /\ UNCHANGED <<peer, peerSecrets, agents, ready, lead>>
          /\ \A u \in Task \ {t} : task'[u] = task[u]
      BY <2>1 DEF Moves, peerVars, agentVars
    <3>2. Idle(q) /\ AgentsOf(q)' = AgentsOf(q)
      BY <2>a, <3>1 DEF AgentsOf
    <3>3. ASSUME NEW a \in AgentsOf(q), NEW u \in RunningOn(a)'
          PROVE  FALSE
      <4>1. u # t => u \in RunningOn(a)
        BY <3>1, <3>3 DEF RunningOn, IsActive
      <4>2. u = t => Works(t) \/ Claims(t)
        BY <2>1, <3>3 DEF Moves, Assigns, Reviews, Ends, Retries, RunningOn,
                          IsActive, Open, Active
      <4>3. Works(t) /\ u = t => u \in RunningOn(a)
        BY <3>3 DEF Works, Keeps, RunningOn
      <4>4. Claims(t) /\ u = t => a \in ready
        BY <3>3 DEF Claims, Keeps, RunningOn, Eligible
      <4> QED
        BY <3>2, <4>1, <4>2, <4>3, <4>4 DEF Idle
    <3> QED
      BY <3>1, <3>2, <3>3 DEF Idle
  <2>2. ASSUME NEW p \in Peer, NEW i \in Incarnation, JoinAs(p, i),
               NEW new \in SUBSET Agent, \A a \in new : AgentPeer[a] = p,
               agents' = agents \cup new, Calm,
               lead' = lead \/ lead'.agent \in new
        PROVE  Idle(q)'
    <3>1. q # p /\ peer[q].state = "revoked"
      BY <1>2, <2>2 DEF TypeOK, PeerRecord, JoinAs
    <3>2. AgentsOf(q)' = AgentsOf(q)
      BY <2>2, <3>1 DEF AgentsOf
    <3>3. lead'.agent \in AgentsOf(q) => lead' = lead
      BY <2>2, <3>1 DEF AgentsOf
    <3> QED
      BY <2>2, <2>a, <2>b, <2>c, <3>1, <3>2, <3>3 DEF Idle, JoinAs
  <2>3. ASSUME NEW p \in Peer, NEW i \in Incarnation, PeerStep(p, i), Calm
        PROVE  Idle(q)'
    <3>1. ASSUME NEW a \in Agent, InitBoard(p, i, a)
          PROVE  Idle(q)'
      <4>1. lead'.agent = a
        BY <1>2, <3>1, AppointFacts DEF InitBoard
      <4>2. {a} \in SUBSET Agent /\ \A b \in {a} : AgentPeer[b] = p
        BY <3>1 DEF InitBoard, MayRegister
      <4>3. agents' = agents \cup {a} /\ JoinAs(p, i)
        BY <3>1 DEF InitBoard
      <4> QED
        BY <2>2, <2>3, <4>1, <4>2, <4>3
    <3>2. ASSUME NEW new \in {{}} \cup {{a} : a \in Agent}, Join(p, i, new)
          PROVE  Idle(q)'
      BY <2>2, <2>3, <3>2 DEF Join, MayRegister
    <3>3. ASSUME NEW a \in Agent, Register(p, i, a)
          PROVE  Idle(q)'
      <4>1. peer' = peer /\ peerSecrets' = peerSecrets /\ ready' = ready
            /\ lead' = lead
        BY <3>3 DEF Register, peerVars
      <4>2. q # p
        BY <3>3, <4>1 DEF Register, PeerOK
      <4>3. AgentsOf(q)' = AgentsOf(q)
        BY <3>3, <4>2 DEF Register, MayRegister, AgentsOf
      <4> QED
        BY <2>3, <2>a, <2>b, <2>c, <4>1, <4>3 DEF Idle
    <3>4. ASSUME NEW up \in BOOLEAN, NEW on \in SUBSET AgentsOf(p),
                 NEW term \in {0, lead.term},
                 NEW run \in SUBSET {t \in Task : IsActive(t)},
                 Heartbeat(p, i, up, on, term, run)
          PROVE  Idle(q)'
      <4>1. q # p /\ peer[q].state = "revoked"
        BY <1>2, <3>4 DEF TypeOK, PeerRecord, Heartbeat
      <4>2. AgentsOf(q)' = AgentsOf(q) /\ AgentsOf(q) \cap AgentsOf(p) = {}
        BY <3>4, <4>1 DEF Heartbeat, AgentsOf
      <4>3. lead'.agent = lead.agent
        BY <1>2, <3>4 DEF TypeOK, LeadRecord, Heartbeat, Renewed
      <4>4. lead.agent \in AgentsOf(q) => lead' = lead
        BY <3>4, <4>2 DEF Heartbeat
      <4>5. \A a \in AgentsOf(q) : a \in ready' => a \in ready
        BY <3>4, <4>2 DEF Heartbeat
      <4>6. peerSecrets' = peerSecrets
        BY <3>4 DEF Heartbeat
      <4> QED
        BY <2>3, <2>a, <2>b, <2>c, <4>1, <4>2, <4>3, <4>4, <4>5, <4>6 DEF Idle
    <3>5. ASSUME Leave(p, i)
          PROVE  Idle(q)'
      <4>1. AgentsOf(q)' = AgentsOf(q)
        BY <3>5 DEF Leave, AgentsOf
      <4>2. q # p => Idle(q)
        BY <1>2, <2>a, <3>5 DEF TypeOK, PeerRecord, Leave
      <4>3. q = p => \A a \in AgentsOf(q) : RunningOn(a) = {}
        BY <3>5 DEF Leave, Drained, RunningOn
      <4>4. /\ lead'.agent = lead.agent
            /\ lead'.lease \in {lead.lease, 0}
            /\ lead.agent \in AgentsOf(p) => lead'.lease = 0
        BY <1>2, <3>5 DEF TypeOK, LeadRecord, Leave
      <4>5. /\ peerSecrets' = peerSecrets \ {p}
            /\ ready' = ready \ AgentsOf(p)
        BY <3>5 DEF Leave
      <4> QED
        BY <2>3, <2>b, <2>c, <4>1, <4>2, <4>3, <4>4, <4>5 DEF Idle
    <3> QED
      BY <2>3, <3>1, <3>2, <3>3, <3>4, <3>5 DEF PeerStep
  <2>4. ASSUME NEW a \in Agent, Appoint(a), peer[AgentPeer[a]].state # "revoked",
               UNCHANGED <<peer, peerSecrets, agents, ready>>, Calm
        PROVE  Idle(q)'
    <3>1. lead'.agent = a
      BY <1>2, <2>4, AppointFacts
    <3>2. AgentsOf(q)' = AgentsOf(q) /\ a \notin AgentsOf(q)
      BY <2>4 DEF AgentsOf
    <3> QED
      BY <2>4, <2>a, <2>b, <2>c, <3>1, <3>2 DEF Idle
  <2>5. ASSUME NEW p \in Peer, NEW i \in Incarnation, LeadershipStep(p, i), Calm
        PROVE  Idle(q)'
    <3>1. ASSUME NEW term \in Term, NEW a \in Agent, Handover(p, i, term, a)
          PROVE  Idle(q)'
      BY <2>4, <2>5, <3>1 DEF Handover, peerVars, agentVars
    <3>2. ASSUME NEW a \in Agent, Acquire(a, i)
          PROVE  Idle(q)'
      BY <2>4, <2>5, <3>2 DEF Acquire, OwnAgent, PeerOK, peerVars, agentVars
    <3>3. ASSUME UNCHANGED <<peerVars, agentVars>>, lead'.agent = lead.agent,
                 lead'.lease = lead.lease
          PROVE  Idle(q)'
      BY <2>5, <2>a, <2>b, <2>c, <3>3 DEF Idle, AgentsOf, peerVars, agentVars
    <3>4. ASSUME NEW list \in StandbyLists, NEW auto \in BOOLEAN,
                 SetStandbys(p, i, list, auto)
          PROVE  Idle(q)'
      BY <1>2, <3>3, <3>4 DEF TypeOK, LeadRecord, SetStandbys
    <3>5. ASSUME NEW b \in BOOLEAN, Pause(p, i, b)
          PROVE  Idle(q)'
      BY <3>3, <3>5 DEF Pause
    <3> QED
      BY <2>5, <3>1, <3>2, <3>4, <3>5 DEF LeadershipStep
  <2>6. ASSUME Calm, UNCHANGED <<peer, peerSecrets, agents, ready, lead>>
        PROVE  Idle(q)'
    BY <2>6, <2>a, <2>b, <2>c DEF Idle, AgentsOf
  <2>7. ASSUME NEW i \in Incarnation, NEW t \in Task,
               LeaderStep(i, t) \/ WorkerStep(i, t), Calm
        PROVE  Idle(q)'
    <3>1. UNCHANGED <<peer, peerSecrets, agents, ready, lead>>
      BY <2>7, WorkerSteps
         DEF LeaderStep, Cancel, Resolve, Assign, Review, Retry, Claim, Adopt,
             Reports, Report, peerVars, agentVars
    <3> QED
      BY <2>6, <2>7, <3>1
  <2>8. CASE Tick /\ Calm
    <3>1. /\ lead'.agent = lead.agent
          /\ lead.lease = 0 => lead'.lease = 0
      BY <1>2, <2>8 DEF TypeOK, LeadRecord, Tick, Aged, Down
    <3>2. peer[q].state = "revoked"
      BY <1>2, <2>8 DEF TypeOK, PeerRecord, Tick, Aged
    <3> QED
      BY <2>8, <2>a, <2>b, <2>c, <3>1, <3>2 DEF Idle, AgentsOf, Tick, agentVars
  <2>9. CASE UNCHANGED vars /\ Calm
    BY <2>6, <2>9 DEF vars
  <2> QED
    BY <1>2, <2>1, <2>3, <2>5, <2>7, <2>8, <2>9, TaskSteps DEF Next
<1>3. Spec => [](TypeOK /\ CredentialsCurrent)
  BY CredentialsSafe
<1> QED
  BY <1>1, <1>2, <1>3, PTL DEF Spec

(* An execution lease is granted or renewed only to the incarnation that   *)
(* owns the registration of its worker.                                    *)
THEOREM LeasesSafe == Spec => LeaseNeedsIncarnation
<1> DEFINE Safe == \A t \in Task : task'[t].lease > task[t].lease =>
                      task'[t].inc = peer'[AgentPeer[task'[t].agent]].inc
<1>1. ASSUME TypeOK, [Next]_vars
      PROVE  Safe
  <2>a. \A t \in Task : task[t] \in TaskRecord /\ task[t].lease \in Nat
    BY <1>1, LeaseBounds, TaskFields DEF TypeOK
  <2>b. lead.term \in Nat
    BY <1>1 DEF TypeOK, LeadRecord
  <2>1. ASSUME \A t \in Task : task'[t].lease <= task[t].lease
        PROVE  Safe
    <3>1. \A t \in Task : task'[t].lease \in Nat
      <4>1. \A t \in Task : task'[t] \in TaskRecord
        BY <1>1, TypeStep DEF TypeOK
      <4> QED
        BY <4>1, LeaseBounds, TaskFields
    <3> QED
      BY <2>a, <2>1, <3>1
  <2>2. ASSUME UNCHANGED task
        PROVE  Safe
    BY <2>a, <2>2
  <2>3. ASSUME NEW a \in Agent, Appoint(a)
        PROVE  Safe
    <3>1. \A t \in Task : task'[t].lease = task[t].lease
      BY <1>1, <2>3, AppointFacts
    <3> QED
      BY <2>1, <2>a, <3>1
  <2>4. ASSUME NEW p \in Peer, NEW i \in Incarnation, NEW up \in BOOLEAN,
               NEW on \in SUBSET AgentsOf(p), NEW term \in {0, lead.term},
               NEW run \in SUBSET {t \in Task : IsActive(t)},
               Heartbeat(p, i, up, on, term, run)
        PROVE  Safe
    <3>1. peer'[p].inc = peer[p].inc
      BY <1>1, <2>4 DEF TypeOK, PeerRecord, Heartbeat
    <3>2. ASSUME NEW t \in Task
          PROVE  \/ task'[t] = task[t]
                 \/ /\ task'[t] = Renewed(task[t])
                    /\ task[t].inc = peer[p].inc
                    /\ AgentPeer[task[t].agent] = p
      BY <2>4 DEF Heartbeat, Renews
    <3> QED
      BY <2>a, <3>1, <3>2, RenewedFacts
  <2>5. ASSUME NEW t \in Task, NEW s \in States, Change(t, s)
        PROVE  Safe
    <3>1. \A u \in Task : task'[u].lease = task[u].lease
      BY <1>1, <2>a, <2>5, ChangedFacts DEF TypeOK, Change
    <3> QED
      BY <2>1, <2>a, <3>1
  <2>6. ASSUME NEW l \in Agent, NEW i \in Incarnation, NEW term \in Term,
               NEW t \in Task, NEW a \in Agent, NEW j \in Project,
               NEW deps \in SUBSET Task, Assign(l, i, term, t, a, j, deps)
        PROVE  Safe
    <3>1. task'[t].lease = 0 /\ \A u \in Task \ {t} : task'[u] = task[u]
      BY <1>1, <2>6 DEF TypeOK, Assign, NoTask
    <3> QED
      BY <2>1, <2>a, <3>1
  <2>7. ASSUME NEW l \in Agent, NEW i \in Incarnation, NEW term \in Term,
               NEW t \in Task, NEW a \in Agent, Retry(l, i, term, t, a)
        PROVE  Safe
    <3>1. /\ task'[t] = Retried(task[t], a, lead.term)
          /\ \A u \in Task \ {t} : task'[u] = task[u]
      BY <1>1, <2>7 DEF TypeOK, Retry
    <3>2. task'[t].lease = 0
      BY <2>a, <2>b, <3>1, RetriedFacts
    <3> QED
      BY <2>1, <2>a, <3>1, <3>2
  <2>8. ASSUME NEW i \in Incarnation, NEW t \in Task, LeaderStep(i, t)
        PROVE  Safe
    <3>1. ASSUME NEW p \in Peer, NEW term \in Term, Cancel(p, i, term, t)
          PROVE  Safe
      <4>1. CancelState(t) \in States
        BY DEF CancelState, States, Terminal, Active
      <4> QED
        BY <2>5, <3>1, <4>1 DEF Cancel
    <3>2. ASSUME NEW p \in Peer, Resolve(p, i, t)
          PROVE  Safe
      BY <2>5, <3>2 DEF Resolve, States, Terminal
    <3>3. ASSUME NEW l \in Agent, NEW term \in Term, NEW v \in Version,
                 NEW good \in BOOLEAN, Review(l, i, term, t, v, good)
          PROVE  Safe
      BY <2>5, <3>3 DEF Review, States, Terminal
    <3> QED
      BY <2>6, <2>7, <2>8, <3>1, <3>2, <3>3 DEF LeaderStep
  <2>9. ASSUME NEW i \in Incarnation, NEW t \in Task, WorkerStep(i, t)
        PROVE  Safe
    <3>1. PICK a \in Agent, n \in Attempt :
            \/ \E v \in Version : Claim(a, i, t, n, v)
            \/ Adopt(a, i, t, n)
            \/ \E s \in States : Reports(a, i, t, n, s)
      BY <2>9, WorkerSteps
    <3>2. CASE \E v \in Version : Claim(a, i, t, n, v)
      <4>1. /\ task'[t] = Claimed(task[t], i) /\ task[t].agent = a
            /\ \A u \in Task \ {t} : task'[u] = task[u]
            /\ peer' = peer /\ i = peer[AgentPeer[a]].inc
        BY <1>1, <3>2 DEF TypeOK, Claim, OwnAgent, PeerOK, peerVars
      <4>2. task'[t].inc = i /\ task'[t].agent = a
        BY <2>a, <4>1, ClaimedFacts
      <4> QED
        BY <2>a, <4>1, <4>2
    <3>3. CASE Adopt(a, i, t, n)
      <4>1. /\ task'[t] = Adopted(task[t], i) /\ task[t].agent = a
            /\ \A u \in Task \ {t} : task'[u] = task[u]
            /\ peer' = peer /\ i = peer[AgentPeer[a]].inc
        BY <1>1, <3>3 DEF TypeOK, Adopt, Holds, OwnAgent, PeerOK, peerVars
      <4>2. task'[t].inc = i /\ task'[t].agent = a
        BY <2>a, <4>1, AdoptedFacts
      <4> QED
        BY <2>a, <4>1, <4>2
    <3>4. CASE \E s \in States : Reports(a, i, t, n, s)
      BY <2>5, <3>4 DEF Reports, Report
    <3> QED
      BY <3>1, <3>2, <3>3, <3>4
  <2>10. CASE Tick
    <3>1. \A t \in Task : task'[t].lease <= task[t].lease
      BY <2>10, <2>a, AgedFacts, DownBounds, TaskFields DEF Tick
    <3> QED
      BY <2>1, <3>1
  <2>11. ASSUME NEW p \in Peer, NEW i \in Incarnation, PeerStep(p, i)
         PROVE  Safe
    BY <2>2, <2>3, <2>4, <2>11
       DEF PeerStep, InitBoard, Join, Register, Leave, taskVars
  <2>12. ASSUME NEW p \in Peer, NEW i \in Incarnation, LeadershipStep(p, i)
         PROVE  Safe
    BY <2>2, <2>3, <2>12
       DEF LeadershipStep, Handover, SetStandbys, Acquire, Pause, taskVars
  <2> QED
    BY <1>1, <2>2, <2>8, <2>9, <2>10, <2>11, <2>12 DEF Next, vars
<1>2. Spec => []TypeOK
  BY TypeCorrect
<1> QED
  BY <1>1, <1>2, PTL DEF Spec, LeaseNeedsIncarnation

-----------------------------------------------------------------------------
(* Executions.  The history variable only observes: a step of the history  *)
(* specification is a step of the board or a stutter.                      *)

Running == live \subseteq Task \X Nat /\ OneExecution

(* An execution in live goes on, as the current attempt of an active task, *)
(* or is one of those the step ends; one that begins is claimed.           *)
LEMMA RunningStep ==
    TypeOK /\ CredentialsCurrent /\ Running /\ [HNext]_hvars => Running'
<1> SUFFICES ASSUME TypeOK, CredentialsCurrent, Running, [HNext]_hvars
             PROVE  Running'
  OBVIOUS
<1>a. \A t \in Task : task[t].attempt \in Nat
  BY TaskFields DEF TypeOK
<1>1. CASE UNCHANGED hvars
  BY <1>1 DEF hvars, vars, Running, OneExecution, IsActive
<1>2. CASE HNext
  <2>1. ASSUME NEW t \in Task, IsActive(t), <<t, task[t].attempt>> \notin Ended
        PROVE  IsActive(t)' /\ task'[t].attempt = task[t].attempt
    <3>1. CASE Calm
      BY <2>1, <3>1 DEF Calm, Stays, Keeps, IsActive
    <3>2. ASSUME NEW u \in Task, Moves(u), u # t
          PROVE  task'[t] = task[t]
      BY <3>2 DEF Moves
    <3>3. CASE Moves(t)
      <4>1. /\ task'[t].state \notin {"result_submitted", "failed"}
            /\ task[t].state = "cancel_requested"
                 => task'[t].state # "cancelled"
        BY <2>1 DEF Ended
      <4>2. Works(t)
        BY <2>1, <3>3, <4>1
           DEF Moves, Assigns, Claims, Reviews, Ends, Retries, Exists,
               IsOpen, IsActive, Retryable, Open, Active, Terminal
      <4> QED
        BY <4>1, <4>2 DEF Works, Keeps, IsActive
    <3> QED
      BY <1>2, <2>1, <3>1, <3>2, <3>3, TaskSteps DEF HNext, IsActive
  <2>2. ASSUME NEW e \in Began
        PROVE  /\ e \in Task \X Nat /\ IsActive(e[1])'
               /\ e[2] = task'[e[1]].attempt
    <3>1. PICK t \in Task : /\ e = <<t, task[t].attempt>>
                            /\ task'[t].state = "claimed"
                            /\ task[t].state # "claimed"
      BY DEF Began
    <3>2. ~Calm
      BY <3>1 DEF Calm, Stays
    <3>3. Moves(t)
      BY <1>2, <3>1, <3>2, TaskSteps DEF HNext, Moves
    <3>4. task'[t].attempt = task[t].attempt
      BY <3>1, <3>3 DEF Moves, Assigns, Claims, Works, Reviews, Ends, Retries,
                        Keeps, Open
    <3> QED
      BY <1>a, <3>1, <3>4 DEF IsActive, Active
  <2>3. ASSUME NEW e \in live \ Ended
        PROVE  /\ e \in Task \X Nat /\ IsActive(e[1])'
               /\ e[2] = task'[e[1]].attempt
    <3>1. /\ e \in Task \X Nat /\ e[1] \in Task /\ IsActive(e[1])
          /\ e[2] = task[e[1]].attempt /\ e = <<e[1], e[2]>>
      BY DEF Running, OneExecution
    <3> QED
      BY <2>1, <2>3, <3>1
  <2> QED
    BY <1>2, <2>2, <2>3 DEF HNext, Running, OneExecution, IsActive
<1> QED
  BY <1>1, <1>2

(* At most one execution of a task runs anywhere, and it is the attempt    *)
(* the board tracks, over every retry, cancellation, rejoin and            *)
(* reassignment (engine.go: task.retry, task.cancel, task.adopt).          *)
THEOREM ExecutionsSafe == HSpec => []OneExecution
<1>1. HInit => Running
  BY DEF HInit, Running, OneExecution
<1>2. HSpec => Spec
  <2>1. [HNext]_hvars => [Next]_vars
    BY DEF HNext, hvars
  <2> QED
    BY <2>1, PTL DEF HSpec, HInit, Spec
<1>3. Spec => [](TypeOK /\ CredentialsCurrent)
  BY CredentialsSafe
<1>4. Running => OneExecution
  BY DEF Running
<1> QED
  BY <1>1, <1>2, <1>3, <1>4, RunningStep, PTL DEF HSpec
=============================================================================
