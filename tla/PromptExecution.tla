-------------------------- MODULE PromptExecution --------------------------
(***************************************************************************)
(* The agentic loop of one pane: the LLMPromptExecutionActor, which takes  *)
(* prompts, cancels, run budgets and memory forks from its mailbox, and    *)
(* the orchestrators it spawns, whose runLoop goroutines run beside it.    *)
(* The actor handles one message at a time, so each handler is one action; *)
(* a runLoop passes its checks and waits for the model in separate steps,  *)
(* and everything may happen in between.  A run of the loop is called a    *)
(* leg: an armed run budget strings several together.                      *)
(*                                                                         *)
(* Abstractions.  Legs and prompts are numbered in the order in which they *)
(* start and arrive; 0 is the nil of the code.  A conversation is the set  *)
(* of legs whose work it holds.  The orchestrator's context is cancelled   *)
(* when its leg is in cancelled.  A deadline is an identity with one fact  *)
(* about it, whether it has passed.  Approval flags, grounding, model      *)
(* seats, cache counters and everything that is only displayed are left    *)
(* out; the tool calls of one reply are a single step.                     *)
(***************************************************************************)
EXTENDS Naturals, FiniteSets

CONSTANTS
    MaxIterations,   \* the actor's per-leg iteration cap
    Budget,          \* run budgets that MsgSetRunBudget may carry
    Cost,            \* new tokens one call of the model may cost
    SpawnOutcome,    \* what SpawnNamed may return: TRUE, or FALSE for an error
    MaxPrompts,      \* bound on the prompts and continues sent
    MaxArms,         \* bound on the budgets armed or cleared
    MaxForks,        \* bound on the memory forks
    MaxLegs          \* bound on the legs started

(* MsgSetRunBudget with AutoContinue: the total and per-leg iterations,    *)
(* the token budget, whether there is a duration and a finalizer prompt,   *)
(* and the finalizer's reserved share.  0 stands for an unset field.       *)
BudgetRecord == [total : Nat, interval : Nat, tokens : Nat, timed : BOOLEAN,
                 finalizer : BOOLEAN, finIter : Nat, finTokens : Nat]

ASSUME BudgetAssumption == Budget \subseteq BudgetRecord
ASSUME LoopAssumption ==
    /\ MaxIterations \in Nat \ {0}
    /\ Cost \subseteq Nat
    /\ SpawnOutcome \in SUBSET BOOLEAN
ASSUME BoundsAssumption == {MaxPrompts, MaxArms, MaxForks, MaxLegs} \subseteq Nat

Leg == 1 .. MaxLegs

VARIABLES
    activeOrch,      \* the spawned orchestrator, 0 when nil
    activeOrchID,    \* whose completion is authoritative, 0 when empty
    cancelFn,        \* the leg that cancelFn cancels, 0 when nil
    pendingPrompt,   \* the queued prompt, 0 when nil
    session,         \* session memory: the legs whose work it holds
    paused,          \* session memory holds a resumable checkpoint
    budget,          \* the auto-continue fields of the actor
    orch,            \* the orchestrators, by leg
    passed,          \* deadlines that have passed
    legs, prompts, arms, deadlines, forks,   \* how many there were
    forkedAt         \* legs started before the latest fork

actorVars   == <<activeOrch, activeOrchID, cancelFn, pendingPrompt>>
sessionVars == <<session, paused>>
inputVars   == <<prompts, arms, forks, forkedAt>>
clockVars   == <<passed, deadlines>>
vars == <<actorVars, sessionVars, budget, orch, clockVars, legs, inputVars>>

-----------------------------------------------------------------------------
(* The state of the actor's budget and of an orchestrator. *)

BudgetState ==
    [armed : BOOLEAN, left : Nat, deadline : Nat, step : Nat, max : Nat,
     used : Nat, finalizer : BOOLEAN, phase : BOOLEAN, finIter : Nat,
     finTokens : Nat]

(* disarmRunBudget *)
Disarmed ==
    [armed |-> FALSE, left |-> 0, deadline |-> 0, step |-> 0, max |-> 0,
     used |-> 0, finalizer |-> FALSE, phase |-> FALSE, finIter |-> 0,
     finTokens |-> 0]

Reason == {"none", "cancelled", "max_iterations", "max_duration",
           "max_tokens", "awaiting_user_info"}
Caps   == {"max_iterations", "max_duration", "max_tokens"}

(* "check": about to test the caps; "call": waiting for the model and the  *)
(* tools; "ended": the loop returned and its MsgOrchestratorDone is in the *)
(* actor's mailbox; "done": that message was handled.                      *)
Live       == {"check", "call"}
Underway   == Live \cup {"ended"}
LegState   == {"none", "done"} \cup Underway
Automatic  == {"continue", "finalizer"}

OrchRecord ==
    [state : LegState, kind : {"none", "prompt"} \cup Automatic, prompt : Nat,
     arm : Nat, cancelled : BOOLEAN, iter : Nat, maxIter : Nat, tokens : Nat,
     cap : Nat, deadline : Nat, base : SUBSET Leg, reason : Reason]

NoOrch ==
    [state |-> "none", kind |-> "none", prompt |-> 0, arm |-> 0,
     cancelled |-> FALSE, iter |-> 0, maxIter |-> 0, tokens |-> 0, cap |-> 0,
     deadline |-> 0, base |-> {}, reason |-> "none"]

Init ==
    /\ activeOrch = 0 /\ activeOrchID = 0 /\ cancelFn = 0 /\ pendingPrompt = 0
    /\ session = {} /\ paused = FALSE
    /\ budget = Disarmed
    /\ orch = [l \in Leg |-> NoOrch]
    /\ passed = {} /\ deadlines = 0
    /\ legs = 0 /\ prompts = 0 /\ arms = 0 /\ forks = 0 /\ forkedAt = 0

-----------------------------------------------------------------------------
(* Starting a leg. *)

(* The caps of a new leg under budget b.  A budget that is already spent   *)
(* sets no cap at all.                                                     *)
TokenCap(b) == IF b.armed /\ b.max > b.used THEN b.max - b.used ELSE 0

TimeCap(b) ==
    IF b.armed /\ b.deadline # 0 /\ b.deadline \notin passed
      THEN b.deadline ELSE 0

StepCap(b) == IF b.armed /\ b.step > 0 THEN b.step ELSE MaxIterations

NewOrch(kind, p, conv, b) ==
    [state |-> "check", kind |-> kind, prompt |-> p,
     arm |-> IF b.armed THEN arms ELSE 0, cancelled |-> FALSE,
     iter |-> 0, maxIter |-> StepCap(b), tokens |-> 0, cap |-> TokenCap(b),
     deadline |-> TimeCap(b), base |-> conv, reason |-> "none"]

(* startPrompt: clears the pause, and spawns an orchestrator over the      *)
(* session's conversation conv.  os are the orchestrators as the caller    *)
(* left them.  A failed spawn leaves activeOrch nil, but not activeOrchID. *)
StartPrompt(kind, p, conv, b, os) ==
    LET l == legs + 1 IN
    /\ legs < MaxLegs
    /\ legs' = l
    /\ session' = conv
    /\ paused' = FALSE
    /\ cancelFn' = l
    /\ activeOrchID' = l
    /\ \E ok \in SpawnOutcome :
         /\ activeOrch' = IF ok THEN l ELSE 0
         /\ orch' = IF ok THEN [os EXCEPT ![l] = NewOrch(kind, p, conv, b)]
                          ELSE os

(* cancelFn(): cancels the context of the leg it was made for. *)
NotInterrupted(f) == orch

Interrupted(f) ==
    [l \in Leg |-> IF l = f THEN [orch[l] EXCEPT !.cancelled = TRUE] ELSE orch[l]]

-----------------------------------------------------------------------------
(* Messages of the user and of other actors. *)

(* handlePrompt: a prompt that arrives while an orchestrator is active is  *)
(* queued, over an older one if need be, and the orchestrator cancelled.   *)
HandlePromptRival(p) ==
    /\ StartPrompt("prompt", p, session, budget, Interrupted(cancelFn))
    /\ UNCHANGED pendingPrompt

HandlePrompt(p) ==
    IF activeOrch # 0
      THEN /\ pendingPrompt' = p
           /\ orch' = Interrupted(cancelFn)
           /\ cancelFn' = 0
           /\ UNCHANGED <<activeOrch, activeOrchID, sessionVars, legs>>
      ELSE /\ StartPrompt("prompt", p, session, budget, orch)
           /\ UNCHANGED pendingPrompt

Prompt ==
    /\ prompts < MaxPrompts
    /\ prompts' = prompts + 1
    /\ HandlePrompt(prompts + 1)
    /\ UNCHANGED <<budget, clockVars, arms, forks, forkedAt>>

(* handleContinue: a synthetic prompt, when there is something to resume. *)
Continue ==
    /\ paused
    /\ Prompt

(* handleCancel: only the context is cancelled, the loop must notice it. *)
Cancel ==
    /\ cancelFn # 0
    /\ orch' = Interrupted(cancelFn)
    /\ cancelFn' = 0
    /\ UNCHANGED <<activeOrch, activeOrchID, pendingPrompt, sessionVars, budget,
                   clockVars, legs, inputVars>>

(* How many legs of n iterations it takes to do total, beyond the first. *)
Resumes(total, n) ==
    LET need == IF total < n THEN n ELSE total
    IN  (need + n - 1) \div n - 1

(* handleSetRunBudget with AutoContinue. *)
Armed(m) ==
    LET n == IF m.interval > 0 THEN m.interval ELSE MaxIterations
    IN  [armed |-> TRUE, left |-> Resumes(m.total, n),
         deadline |-> IF m.timed THEN deadlines + 1 ELSE 0,
         step |-> n, max |-> m.tokens, used |-> 0, finalizer |-> m.finalizer,
         phase |-> FALSE, finIter |-> m.finIter, finTokens |-> m.finTokens]

SetRunBudget(m) ==
    /\ arms < MaxArms
    /\ arms' = arms + 1
    /\ budget' = Armed(m)
    /\ deadlines' = IF m.timed THEN deadlines + 1 ELSE deadlines
    /\ UNCHANGED <<actorVars, sessionVars, orch, passed, legs, prompts, forks,
                   forkedAt>>

(* handleSetRunBudget without it. *)
ClearRunBudget ==
    /\ arms < MaxArms
    /\ arms' = arms + 1
    /\ budget' = Disarmed
    /\ UNCHANGED <<actorVars, sessionVars, orch, clockVars, legs, prompts,
                   forks, forkedAt>>

(* handleSessionMemoryReplace: the memory of another pane, with its pause, *)
(* replaces ours.  The active orchestrator is stopped; its loop goes on    *)
(* until it notices.                                                       *)
SessionMemoryReplace(wasPaused) ==
    /\ forks < MaxForks
    /\ forks' = forks + 1
    /\ orch' = Interrupted(cancelFn)
    /\ cancelFn' = 0 /\ activeOrch' = 0 /\ activeOrchID' = 0
    /\ session' = {}
    /\ paused' = wasPaused
    /\ forkedAt' = legs
    /\ UNCHANGED <<pendingPrompt, budget, clockVars, legs, prompts, arms>>

-----------------------------------------------------------------------------
(* The orchestrator's runLoop. *)

Loop(l, new) ==
    /\ orch' = [orch EXCEPT ![l] = new]
    /\ UNCHANGED <<actorVars, sessionVars, budget, clockVars, legs, inputVars>>

(* markPaused and return, or return with nothing marked. *)
Returned(r, why) == [r EXCEPT !.state = "ended", !.reason = why]

(* The tests at the head of the loop, in their order. *)
Stop(r) ==
    IF r.cancelled THEN "cancelled"
    ELSE IF r.deadline \in passed THEN "max_duration"
    ELSE IF r.cap > 0 /\ r.tokens >= r.cap THEN "max_tokens"
    ELSE IF r.iter >= r.maxIter THEN "max_iterations"
    ELSE "none"

EnteredAgain(r) == [r EXCEPT !.state = "call"]
Entered(r)      == [r EXCEPT !.state = "call", !.iter = @ + 1]

Check(l) ==
    LET r == orch[l] IN
    /\ r.state = "check"
    /\ Loop(l, IF Stop(r) = "none" THEN Entered(r) ELSE Returned(r, Stop(r)))

(* The model's reply cost c new tokens. *)
Spent(r, c) == [r EXCEPT !.state = "check", !.tokens = @ + c]

(* The call failed: given up when cancelled, when the error is permanent   *)
(* and after the last iteration; otherwise tried again.                    *)
CallError(l, permanent) ==
    LET r == orch[l] IN
    /\ r.state = "call"
    /\ Loop(l, CASE r.cancelled -> Returned(r, "cancelled")
                 [] ~r.cancelled /\ (permanent \/ r.iter >= r.maxIter)
                      -> Returned(r, "none")
                 [] OTHER -> [r EXCEPT !.state = "check"])

(* The model ended its turn: the task is done, cancelled or not. *)
CallEnd(l, c) ==
    /\ orch[l].state = "call"
    /\ Loop(l, Returned(Spent(orch[l], c), "none"))

(* The reply asked for tools, and they ran; question: one of them wants an *)
(* answer of the user.                                                     *)
CallTools(l, c, question) ==
    LET r == Spent(orch[l], c) IN
    /\ orch[l].state = "call"
    /\ Loop(l, CASE r.cancelled -> Returned(r, "cancelled")
                 [] ~r.cancelled /\ question -> Returned(r, "awaiting_user_info")
                 [] OTHER -> r)

(* The reply was cut off at the provider's output limit. *)
CallTruncated(l, c) ==
    /\ orch[l].state = "call"
    /\ Loop(l, Spent(orch[l], c))

LoopStep(l) ==
    \/ Check(l)
    \/ \E permanent \in BOOLEAN : CallError(l, permanent)
    \/ \E c \in Cost : \/ CallEnd(l, c)
                       \/ \E q \in BOOLEAN : CallTools(l, c, q)
                       \/ CallTruncated(l, c)

-----------------------------------------------------------------------------
(* handleOrchestratorDone, one action for each way through it. *)

(* mergeDoneIntoSession: only the active leg's completion counts. *)
AnyDone(l)         == TRUE
UncancelledDone(l) == l = activeOrchID /\ ~orch[l].cancelled

Authoritative(l) == l = activeOrchID

(* The finished orchestrator is stopped: what identifies it is kept. *)
Gone(r) == [NoOrch EXCEPT !.state = "done", !.kind = r.kind, !.prompt = r.prompt,
                          !.arm = r.arm, !.cancelled = r.cancelled]

After(l)  == [orch EXCEPT ![l] = Gone(@)]
Merged(l) == orch[l].base \cup {l}

(* The leg's tokens count towards the run's budget. *)
Charged(l) == [budget EXCEPT !.used = @ + orch[l].tokens]

Idle ==
    /\ activeOrch' = 0 /\ activeOrchID' = 0 /\ cancelFn' = 0
    /\ UNCHANGED <<pendingPrompt, legs>>

(* autoContinueDecision *)
AutoContinue(b, why) ==
    /\ b.armed /\ b.left > 0
    /\ why \in {"max_iterations", "max_duration"}
    /\ b.deadline \notin passed

(* shouldRunFinalizer *)
RunFinalizerAgain(b, why) == b.armed /\ b.finalizer /\ why \in Caps
RunFinalizer(b, why) ==
    /\ b.armed /\ ~b.phase /\ b.finalizer
    /\ why \in Caps

Resumed(b) == [b EXCEPT !.left = @ - 1]

(* armFinalizerBudget: a fresh allowance, always with a deadline; without  *)
(* a reserved share it is one resume and no token cap.                     *)
FinalizerMaxResumes == 1

Finalizing(b) ==
    [b EXCEPT !.phase = TRUE,
              !.left = IF b.finIter > 0 THEN Resumes(b.finIter, b.step)
                                        ELSE FinalizerMaxResumes,
              !.deadline = deadlines + 1,
              !.max = b.finTokens, !.used = 0]

(* A completion that is no longer awaited is dropped. *)
DoneStale(l) ==
    /\ ~Authoritative(l)
    /\ orch' = After(l)
    /\ UNCHANGED <<actorVars, sessionVars, budget, clockVars, legs, inputVars>>

(* The queued prompt starts, on the merged conversation and under the      *)
(* budget as it is.                                                        *)
DoneQueued(l) ==
    /\ Authoritative(l)
    /\ pendingPrompt # 0
    /\ pendingPrompt' = 0
    /\ budget' = Charged(l)
    /\ StartPrompt("prompt", pendingPrompt, Merged(l), Charged(l), After(l))
    /\ UNCHANGED <<clockVars, inputVars>>

DoneContinue(l) ==
    /\ Authoritative(l)
    /\ pendingPrompt = 0
    /\ AutoContinue(Charged(l), orch[l].reason)
    /\ budget' = Resumed(Charged(l))
    /\ StartPrompt("continue", 0, Merged(l), Resumed(Charged(l)), After(l))
    /\ UNCHANGED <<pendingPrompt, clockVars, inputVars>>

DoneFinalize(l) ==
    /\ Authoritative(l)
    /\ pendingPrompt = 0
    /\ ~AutoContinue(Charged(l), orch[l].reason)
    /\ RunFinalizer(Charged(l), orch[l].reason)
    /\ budget' = Finalizing(Charged(l))
    /\ deadlines' = deadlines + 1
    /\ StartPrompt("finalizer", 0, Merged(l), Finalizing(Charged(l)), After(l))
    /\ UNCHANGED <<pendingPrompt, passed, inputVars>>

(* The run pauses for the user.  Only a question keeps the budget armed. *)
DonePause(l) ==
    /\ Authoritative(l)
    /\ pendingPrompt = 0
    /\ orch[l].reason # "none"
    /\ ~AutoContinue(Charged(l), orch[l].reason)
    /\ ~RunFinalizer(Charged(l), orch[l].reason)
    /\ budget' = IF orch[l].reason = "awaiting_user_info" THEN Charged(l)
                                                          ELSE Disarmed
    /\ session' = Merged(l)
    /\ paused' = TRUE
    /\ orch' = After(l)
    /\ Idle
    /\ UNCHANGED <<clockVars, inputVars>>

(* Finished or failed: there is nothing to resume. *)
DoneFinish(l) ==
    /\ Authoritative(l)
    /\ pendingPrompt = 0
    /\ orch[l].reason = "none"
    /\ budget' = Disarmed
    /\ session' = Merged(l)
    /\ paused' = FALSE
    /\ orch' = After(l)
    /\ Idle
    /\ UNCHANGED <<clockVars, inputVars>>

OrchestratorDone(l) ==
    /\ orch[l].state = "ended"
    /\ \/ DoneStale(l) \/ DoneQueued(l) \/ DoneContinue(l)
       \/ DoneFinalize(l) \/ DonePause(l) \/ DoneFinish(l)

-----------------------------------------------------------------------------
(* Deadlines that somebody still looks at pass, in any order. *)

Watched == {budget.deadline} \cup {orch[l].deadline : l \in Leg}

DeadlinePasses(d) ==
    /\ d \in Watched \ (passed \cup {0})
    /\ passed' = passed \cup {d}
    /\ UNCHANGED <<actorVars, sessionVars, budget, orch, deadlines, legs,
                   inputVars>>

Next ==
    \/ Prompt
    \/ Continue
    \/ Cancel
    \/ \E m \in Budget : SetRunBudget(m)
    \/ ClearRunBudget
    \/ \E b \in BOOLEAN : SessionMemoryReplace(b)
    \/ \E l \in Leg : LoopStep(l) \/ OrchestratorDone(l)
    \/ \E d \in 1 .. deadlines : DeadlinePasses(d)

(* A runLoop goroutine runs until it returns and the actor handles its     *)
(* mailbox.  That the model and the tools answer or fail is assumed of the *)
(* environment: no timeout enforces it.  Nothing makes users act.          *)
Fairness == \A l \in Leg : WF_vars(LoopStep(l)) /\ WF_vars(OrchestratorDone(l))

Spec == Init /\ [][Next]_vars
LiveSpec == Spec /\ Fairness

-----------------------------------------------------------------------------
(* Properties. *)

(* The actor, the session, the budget and the orchestrators keep their     *)
(* shape; in particular a budget never counts below zero, and no nil or    *)
(* unspawned orchestrator is ever taken for the active one.                *)
TypeOK ==
    /\ activeOrch \in 0 .. legs /\ activeOrchID \in 0 .. legs
    /\ cancelFn \in 0 .. legs /\ pendingPrompt \in 0 .. prompts
    /\ session \in SUBSET Leg /\ paused \in BOOLEAN
    /\ budget \in BudgetState
    /\ orch \in [Leg -> OrchRecord]
    /\ legs \in 0 .. MaxLegs /\ prompts \in Nat /\ arms \in Nat
    /\ forks \in Nat /\ forkedAt \in 0 .. legs
    /\ deadlines \in Nat /\ passed \in SUBSET (1 .. deadlines)
    /\ \A l \in Leg : l > legs => orch[l] = NoOrch

(* The user never loses control: a loop whose context is not cancelled is  *)
(* the active one and the actor still holds the function that cancels it,  *)
(* over every order of prompts, cancels, forks and completions.            *)
ControlKept ==
    \A l \in Leg : orch[l].state \in Live /\ ~orch[l].cancelled
                     => l = activeOrch /\ l = activeOrchID /\ l = cancelFn

(* No work is lost: what a superseded, cancelled or capped leg did is in   *)
(* the session once its completion was handled, unless a fork replaced the *)
(* memory, and the leg that follows works on exactly that conversation.    *)
WorkKept ==
    /\ \A l \in Leg : orch[l].state = "done" /\ l > forkedAt => l \in session
    /\ activeOrch # 0 => orch[activeOrch].base = session

(* A fork is clean: the late completion of a leg that was running when the *)
(* memory was replaced never reaches the new memory.                       *)
ForkClean == \A l \in session : l > forkedAt

(* A paused session has no active orchestrator, so a continue resumes it   *)
(* at once and never cancels a leg to make room for itself.                *)
PausedIdle == paused => activeOrch = 0

(* The finalizer runs once for each budget that was armed. *)
FinalizerOnce ==
    \A k, l \in Leg :
        /\ orch[k].kind = "finalizer" /\ orch[l].kind = "finalizer"
        /\ orch[k].arm = orch[l].arm
        => k = l

(* Every leg comes to its end, and its completion is handled. *)
LegsEnd == \A l \in Leg : orch[l].state \in Underway ~> orch[l].state = "done"

(* Automatic continuation stops: once the user sends nothing more, the     *)
(* chain of resumed and finalizer legs ends and the pane is idle.          *)
RunEnds == activeOrch # 0 ~> activeOrch = 0

(* Legs end, and the chain of legs ends (actor:1097).                      *)
LegsAndRunsEnd == LegsEnd /\ RunEnds

(* A queued prompt is started or overwritten by a newer one, unless a fork *)
(* abandons the run it waits for.                                          *)
QueuedStarts ==
    \A p \in 1 .. MaxPrompts :
        pendingPrompt = p ~> (pendingPrompt # p \/ activeOrchID = 0)

(* "user cancel (double-Ctrl+C / @@stop) disarms it"                       *)
(* (msg/agentic_messages.go:97): no automatic leg continues a leg that was *)
(* cancelled.                                                              *)
CancelStops ==
    \A l \in Leg : orch[l].kind \in Automatic => ~orch[l - 1].cancelled
=============================================================================
