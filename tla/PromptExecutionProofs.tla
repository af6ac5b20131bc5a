----------------------- MODULE PromptExecutionProofs -----------------------
(***************************************************************************)
(* Theorems on the prompt execution actor and its loops, for every cap,    *)
(* budget and number of prompts, forks and legs.                           *)
(***************************************************************************)
EXTENDS PromptExecution, Integers, TLAPS

-----------------------------------------------------------------------------
(* What the operators on orchestrators return. *)

(* The fields of an orchestrator have their types. *)
LEMMA OrchFields ==
  ASSUME NEW r \in OrchRecord
  PROVE  /\ r.state \in LegState /\ r.kind \in {"none", "prompt"} \cup Automatic
         /\ r.prompt \in Nat /\ r.arm \in Nat /\ r.cancelled \in BOOLEAN
         /\ r.iter \in Nat /\ r.maxIter \in Nat /\ r.tokens \in Nat
         /\ r.cap \in Nat /\ r.deadline \in Nat /\ r.base \in SUBSET Leg
         /\ r.reason \in Reason
  BY DEF OrchRecord

(* An unspawned orchestrator is an orchestrator with nothing in it. *)
LEMMA NoOrchFacts ==
    /\ NoOrch \in OrchRecord
    /\ NoOrch.state = "none" /\ NoOrch.kind = "none" /\ NoOrch.cancelled = FALSE
  BY DEF NoOrch, OrchRecord, LegState, Reason

(* What a loop step keeps of its orchestrator. *)
Same(r, s) ==
    /\ s.kind = r.kind /\ s.prompt = r.prompt /\ s.arm = r.arm
    /\ s.cancelled = r.cancelled /\ s.base = r.base

(* Returning ends the loop and changes nothing else that matters. *)
LEMMA ReturnedFacts ==
  ASSUME NEW r \in OrchRecord, NEW why \in Reason
  PROVE  /\ Returned(r, why) \in OrchRecord
         /\ Returned(r, why).state = "ended" /\ Same(r, Returned(r, why))
  BY DEF Returned, OrchRecord, LegState, Underway, Live, Same

(* Entering an iteration. *)
LEMMA EnteredFacts ==
  ASSUME NEW r \in OrchRecord
  PROVE  /\ Entered(r) \in OrchRecord
         /\ Entered(r).state = "call" /\ Same(r, Entered(r))
<1>1. ASSUME NEW n \in Nat
      PROVE  [r EXCEPT !.state = "call", !.iter = n] \in OrchRecord
  BY DEF OrchRecord, LegState, Underway, Live
<1>2. r.iter + 1 \in Nat
  BY OrchFields
<1>3. Entered(r) = [r EXCEPT !.state = "call", !.iter = r.iter + 1]
  BY DEF Entered, OrchRecord
<1>4. Entered(r) \in OrchRecord
  BY <1>1, <1>2, <1>3
<1>5. Entered(r).state = "call" /\ Same(r, Entered(r))
  BY <1>3 DEF OrchRecord, Same
<1> QED
  BY <1>4, <1>5

(* Going back to the head of the loop, with c more tokens spent. *)
LEMMA SpentFacts ==
  ASSUME NEW r \in OrchRecord, NEW c \in Nat
  PROVE  /\ Spent(r, c) \in OrchRecord
         /\ Spent(r, c).state = "check" /\ Same(r, Spent(r, c))
<1>1. ASSUME NEW n \in Nat
      PROVE  [r EXCEPT !.state = "check", !.tokens = n] \in OrchRecord
  BY DEF OrchRecord, LegState, Underway, Live
<1>2. r.tokens + c \in Nat
  BY OrchFields
<1>3. Spent(r, c) = [r EXCEPT !.state = "check", !.tokens = r.tokens + c]
  BY DEF Spent, OrchRecord
<1>4. Spent(r, c) \in OrchRecord
  BY <1>1, <1>2, <1>3
<1>5. Spent(r, c).state = "check" /\ Same(r, Spent(r, c))
  BY <1>3 DEF OrchRecord, Same
<1> QED
  BY <1>4, <1>5

(* A handled completion keeps only what identifies its orchestrator. *)
LEMMA GoneFacts ==
  ASSUME NEW r \in OrchRecord
  PROVE  /\ Gone(r) \in OrchRecord
         /\ Gone(r).state = "done"
         /\ Gone(r).kind = r.kind /\ Gone(r).prompt = r.prompt
         /\ Gone(r).arm = r.arm /\ Gone(r).cancelled = r.cancelled
  BY DEF Gone, NoOrch, OrchRecord, LegState, Reason

(* Cancelling a context marks one orchestrator and moves none. *)
LEMMA InterruptedFacts ==
  ASSUME orch \in [Leg -> OrchRecord], NEW f
  PROVE  /\ Interrupted(f) \in [Leg -> OrchRecord]
         /\ \A l \in Leg : l # f => Interrupted(f)[l] = orch[l]
         /\ \A l \in Leg :
              /\ Interrupted(f)[l].state = orch[l].state
              /\ Interrupted(f)[l].kind = orch[l].kind
              /\ Interrupted(f)[l].arm = orch[l].arm
              /\ Interrupted(f)[l].base = orch[l].base
              /\ l = f \/ orch[l].cancelled => Interrupted(f)[l].cancelled
<1>1. ASSUME NEW r \in OrchRecord
      PROVE  /\ [r EXCEPT !.cancelled = TRUE] \in OrchRecord
             /\ [r EXCEPT !.cancelled = TRUE].state = r.state
             /\ [r EXCEPT !.cancelled = TRUE].kind = r.kind
             /\ [r EXCEPT !.cancelled = TRUE].arm = r.arm
             /\ [r EXCEPT !.cancelled = TRUE].base = r.base
             /\ [r EXCEPT !.cancelled = TRUE].cancelled
  BY DEF OrchRecord
<1> DEFINE Mark(r) == [r EXCEPT !.cancelled = TRUE]
<1>2. Interrupted(f) = [l \in Leg |-> IF l = f THEN Mark(orch[l]) ELSE orch[l]]
  BY DEF Interrupted
<1>3. \A r \in OrchRecord :
         /\ Mark(r) \in OrchRecord /\ Mark(r).state = r.state
         /\ Mark(r).kind = r.kind /\ Mark(r).arm = r.arm
         /\ Mark(r).base = r.base /\ Mark(r).cancelled
  BY <1>1
<1> HIDE DEF Mark
<1> QED
  BY <1>2, <1>3

-----------------------------------------------------------------------------
(* What the operators on the budget return. *)

(* Division of a number by one that is not larger gives at least one. *)
LEMMA DivPositive ==
  ASSUME NEW a \in Nat, NEW n \in Nat \ {0}, a >= n
  PROVE  a \div n \in Nat \ {0}
<1> DEFINE q == a \div n
           r == a % n
<1>1. q \in Int /\ r \in 0 .. n - 1 /\ n * q + r = a
  OBVIOUS
<1> HIDE DEF q, r
<1>2. CASE q <= 0
  <2>1. n * q <= 0
    BY <1>1, <1>2
  <2> QED
    BY <1>1, <2>1
<1> QED
  BY <1>1, <1>2 DEF q

(* A run of at least one leg needs no fewer resumes than zero. *)
LEMMA ResumesNat ==
  ASSUME NEW total \in Nat, NEW n \in Nat \ {0}
  PROVE  Resumes(total, n) \in Nat
<1>1. ASSUME NEW need \in Nat, need >= n
      PROVE  (need + n - 1) \div n \in Nat \ {0}
  <2>1. need + n - 1 \in Nat /\ need + n - 1 >= n
    BY <1>1
  <2> QED
    BY <2>1, DivPositive
<1> QED
  BY <1>1 DEF Resumes

(* An armed budget has a positive number of iterations for each leg. *)
StepKept(b) == b.armed => b.step > 0

(* The fields of a budget have their types. *)
LEMMA BudgetFields ==
  ASSUME NEW b \in BudgetState
  PROVE  /\ b.armed \in BOOLEAN /\ b.left \in Nat /\ b.deadline \in Nat
         /\ b.step \in Nat /\ b.max \in Nat /\ b.used \in Nat
         /\ b.finalizer \in BOOLEAN /\ b.phase \in BOOLEAN
         /\ b.finIter \in Nat /\ b.finTokens \in Nat
  BY DEF BudgetState

(* Disarming. *)
LEMMA DisarmedFacts ==
    Disarmed \in BudgetState /\ Disarmed.armed = FALSE
  BY DEF Disarmed, BudgetState

(* Arming. *)
LEMMA ArmedFacts ==
  ASSUME NEW m \in Budget, deadlines \in Nat
  PROVE  /\ Armed(m) \in BudgetState /\ StepKept(Armed(m))
         /\ Armed(m).phase = FALSE
<1> DEFINE n == IF m.interval > 0 THEN m.interval ELSE MaxIterations
<1>1. m \in BudgetRecord
  BY BudgetAssumption
<1>2. n \in Nat \ {0}
  BY <1>1, LoopAssumption DEF BudgetRecord
<1>3. Resumes(m.total, n) \in Nat
  BY <1>1, <1>2, ResumesNat DEF BudgetRecord
<1> DEFINE d == IF m.timed THEN deadlines + 1 ELSE 0
<1>4. d \in Nat
  OBVIOUS
<1>5. Armed(m) = [armed |-> TRUE, left |-> Resumes(m.total, n), deadline |-> d,
           step |-> n, max |-> m.tokens, used |-> 0, finalizer |-> m.finalizer,
           phase |-> FALSE, finIter |-> m.finIter, finTokens |-> m.finTokens]
  BY DEF Armed
<1> HIDE DEF n, d
<1> QED
  BY <1>1, <1>2, <1>3, <1>4, <1>5 DEF BudgetState, BudgetRecord, StepKept

(* Charging a leg's tokens to the budget. *)
LEMMA ChargedFacts ==
  ASSUME budget \in BudgetState, orch \in [Leg -> OrchRecord], NEW l \in Leg
  PROVE  /\ Charged(l) \in BudgetState
         /\ Charged(l).armed = budget.armed /\ Charged(l).step = budget.step
         /\ Charged(l).phase = budget.phase
         /\ Charged(l).finalizer = budget.finalizer
<1>1. ASSUME NEW n \in Nat
      PROVE  [budget EXCEPT !.used = n] \in BudgetState
  BY DEF BudgetState
<1>2. budget.used + orch[l].tokens \in Nat
  BY OrchFields, BudgetFields
<1>3. Charged(l) = [budget EXCEPT !.used = budget.used + orch[l].tokens]
  BY DEF Charged, BudgetState
<1>4. Charged(l) \in BudgetState
  BY <1>1, <1>2, <1>3
<1> QED
  BY <1>3, <1>4 DEF BudgetState

(* Resuming. *)
LEMMA ResumedFacts ==
  ASSUME NEW b \in BudgetState, b.left > 0
  PROVE  /\ Resumed(b) \in BudgetState
         /\ Resumed(b).armed = b.armed /\ Resumed(b).step = b.step
         /\ Resumed(b).phase = b.phase /\ Resumed(b).finalizer = b.finalizer
<1>1. ASSUME NEW n \in Nat
      PROVE  [b EXCEPT !.left = n] \in BudgetState
  BY DEF BudgetState
<1>2. b.left - 1 \in Nat
  BY BudgetFields
<1>3. Resumed(b) = [b EXCEPT !.left = b.left - 1]
  BY DEF Resumed, BudgetState
<1>4. Resumed(b) \in BudgetState
  BY <1>1, <1>2, <1>3
<1> QED
  BY <1>3, <1>4 DEF BudgetState

(* Arming the finalizer's share. *)
LEMMA FinalizingFacts ==
  ASSUME NEW b \in BudgetState, b.armed, StepKept(b), deadlines \in Nat
  PROVE  /\ Finalizing(b) \in BudgetState
         /\ Finalizing(b).armed = b.armed /\ Finalizing(b).step = b.step
         /\ Finalizing(b).phase = TRUE /\ Finalizing(b).finalizer = b.finalizer
<1> DEFINE left == IF b.finIter > 0 THEN Resumes(b.finIter, b.step)
                                    ELSE FinalizerMaxResumes
<1>1. b.step \in Nat \ {0} /\ b.finIter \in Nat /\ b.finTokens \in Nat
  BY BudgetFields DEF StepKept
<1>2. left \in Nat
  BY <1>1, ResumesNat DEF FinalizerMaxResumes
<1> DEFINE Fin(x, d, k) == [b EXCEPT !.phase = TRUE, !.left = x,
                              !.deadline = d, !.max = k, !.used = 0]
<1>3. \A x, d, k \in Nat :
        /\ Fin(x, d, k) \in BudgetState
        /\ Fin(x, d, k).armed = b.armed /\ Fin(x, d, k).step = b.step
        /\ Fin(x, d, k).phase = TRUE /\ Fin(x, d, k).finalizer = b.finalizer
  BY DEF BudgetState
<1>4. Finalizing(b) = Fin(left, deadlines + 1, b.finTokens)
  BY DEF Finalizing
<1>5. deadlines + 1 \in Nat
  OBVIOUS
<1>6. b.finTokens \in Nat
  BY <1>1
<1> DEFINE due == deadlines + 1
<1>7. due \in Nat
  BY <1>5
<1> HIDE DEF left, Fin, due
<1>8. LET f == Fin(left, due, b.finTokens)
      IN  /\ f \in BudgetState
          /\ f.armed = b.armed /\ f.step = b.step
          /\ f.phase = TRUE /\ f.finalizer = b.finalizer
  BY <1>2, <1>3, <1>6, <1>7, Zenon
<1> QED
  BY <1>4, <1>8, Zenon DEF due

(* A new orchestrator starts at the head of its loop, uncancelled, on the  *)
(* conversation it was given.                                              *)
LEMMA NewOrchFacts ==
  ASSUME NEW kind \in {"prompt"} \cup Automatic, NEW p \in Nat,
         NEW conv \in SUBSET Leg, NEW b \in BudgetState, arms \in Nat
  PROVE  /\ NewOrch(kind, p, conv, b) \in OrchRecord
         /\ NewOrch(kind, p, conv, b).state = "check"
         /\ NewOrch(kind, p, conv, b).kind = kind
         /\ NewOrch(kind, p, conv, b).cancelled = FALSE
         /\ NewOrch(kind, p, conv, b).base = conv
         /\ NewOrch(kind, p, conv, b).arm = IF b.armed THEN arms ELSE 0
<1> DEFINE arm == IF b.armed THEN arms ELSE 0
<1>1. arm \in Nat
  OBVIOUS
<1>2. StepCap(b) \in Nat /\ TokenCap(b) \in Nat /\ TimeCap(b) \in Nat
  BY BudgetFields, LoopAssumption DEF StepCap, TokenCap, TimeCap
<1>3. NewOrch(kind, p, conv, b) =
        [state |-> "check", kind |-> kind, prompt |-> p, arm |-> arm,
         cancelled |-> FALSE, iter |-> 0, maxIter |-> StepCap(b), tokens |-> 0,
         cap |-> TokenCap(b), deadline |-> TimeCap(b), base |-> conv,
         reason |-> "none"]
  BY DEF NewOrch
<1> HIDE DEF arm
<1>4. NewOrch(kind, p, conv, b) \in OrchRecord
  BY <1>1, <1>2, <1>3 DEF OrchRecord, LegState, Underway, Live, Reason
<1>5. NewOrch(kind, p, conv, b).arm = arm
  BY <1>3
<1> QED
  BY <1>3, <1>4, <1>5 DEF arm


-----------------------------------------------------------------------------
(* What the steps do. *)

(* A step of a loop replaces a live orchestrator by a live or ended one    *)
(* with the same identity, and changes nothing else.                       *)
LEMMA LoopSteps ==
  ASSUME TypeOK, NEW l \in Leg, LoopStep(l)
  PROVE  \E new \in OrchRecord :
            /\ Loop(l, new)
            /\ orch[l].state \in Live /\ new.state \in Underway
            /\ Same(orch[l], new)
<1> DEFINE r == orch[l]
           Good(new) == new \in OrchRecord /\ new.state \in Underway /\ Same(r, new)
<1>r. r \in OrchRecord
  BY DEF TypeOK
<1>w. ASSUME NEW new, Good(new), Loop(l, new), r.state \in Live
      PROVE  \E n \in OrchRecord :
                /\ Loop(l, n) /\ r.state \in Live /\ n.state \in Underway
                /\ Same(r, n)
  BY <1>w, Zenon
<1>ret. ASSUME NEW x \in OrchRecord, Same(r, x), NEW why \in Reason
        PROVE  Good(Returned(x, why))
  BY <1>ret, ReturnedFacts DEF Same, Underway
<1>1. CASE Check(l)
  <2>1. Stop(r) \in Reason
    BY DEF Stop, Reason
  <2>2. Good(Entered(r)) /\ Good(Returned(r, Stop(r)))
    BY <1>r, <1>ret, <2>1, EnteredFacts DEF Same, Underway, Live
  <2> DEFINE new == IF Stop(r) = "none" THEN Entered(r) ELSE Returned(r, Stop(r))
  <2>3. Good(new)
    BY <2>2
  <2>4. Loop(l, new) /\ r.state \in Live
    BY <1>1 DEF Check, Live
  <2> QED
    BY <2>3, <2>4, <1>w
<1>2. ASSUME NEW permanent \in BOOLEAN, CallError(l, permanent)
      PROVE  \E n \in OrchRecord :
                /\ Loop(l, n) /\ r.state \in Live /\ n.state \in Underway
                /\ Same(r, n)
  <2>1. Good(Returned(r, "cancelled")) /\ Good(Returned(r, "none"))
    BY <1>r, <1>ret DEF Same, Reason
  <2>2. Good([r EXCEPT !.state = "check"])
    BY <1>r DEF OrchRecord, LegState, Underway, Live, Same
  <2> DEFINE new == CASE r.cancelled -> Returned(r, "cancelled")
                      [] ~r.cancelled /\ (permanent \/ r.iter >= r.maxIter)
                           -> Returned(r, "none")
                      [] OTHER -> [r EXCEPT !.state = "check"]
  <2>3. Loop(l, new) /\ r.state \in Live
    BY <1>2 DEF CallError, Live
  <2>4. \/ new = Returned(r, "cancelled") \/ new = Returned(r, "none")
        \/ new = [r EXCEPT !.state = "check"]
    OBVIOUS
  <2>5. Good(new)
    BY <2>1, <2>2, <2>4
  <2> QED
    BY <2>3, <2>5, <1>w
<1>3. ASSUME NEW c \in Cost
      PROVE  Good(Spent(r, c)) /\ Same(r, Spent(r, c))
             /\ Spent(r, c) \in OrchRecord
  BY <1>r, SpentFacts, LoopAssumption DEF Underway, Live
<1>4. ASSUME NEW c \in Cost, CallEnd(l, c)
      PROVE  \E n \in OrchRecord :
                /\ Loop(l, n) /\ r.state \in Live /\ n.state \in Underway
                /\ Same(r, n)
  <2>1. Good(Returned(Spent(r, c), "none"))
    BY <1>3, <1>ret DEF Reason
  <2> QED
    BY <2>1, <1>4, <1>w DEF CallEnd, Live
<1>5. ASSUME NEW c \in Cost, NEW q \in BOOLEAN, CallTools(l, c, q)
      PROVE  \E n \in OrchRecord :
                /\ Loop(l, n) /\ r.state \in Live /\ n.state \in Underway
                /\ Same(r, n)
  <2> DEFINE s == Spent(r, c)
             new == CASE s.cancelled -> Returned(s, "cancelled")
                      [] ~s.cancelled /\ q -> Returned(s, "awaiting_user_info")
                      [] OTHER -> s
  <2>1. Good(Returned(s, "cancelled")) /\ Good(Returned(s, "awaiting_user_info"))
    BY <1>3, <1>ret DEF Reason
  <2>2. Loop(l, new) /\ r.state \in Live
    BY <1>5 DEF CallTools, Live
  <2>3. \/ new = Returned(s, "cancelled") \/ new = Returned(s, "awaiting_user_info")
        \/ new = s
    OBVIOUS
  <2>4. Good(new)
    BY <1>3, <2>1, <2>3
  <2> QED
    BY <2>2, <2>4, <1>w
<1>6. ASSUME NEW c \in Cost, CallTruncated(l, c)
      PROVE  \E n \in OrchRecord :
                /\ Loop(l, n) /\ r.state \in Live /\ n.state \in Underway
                /\ Same(r, n)
  BY <1>3, <1>6, <1>w DEF CallTruncated, Live
<1> QED
  BY <1>1, <1>2, <1>4, <1>5, <1>6 DEF LoopStep

(* startPrompt: one leg more, spawned or not, and the other legs as the    *)
(* caller left them.                                                       *)
LEMMA StartFacts ==
  ASSUME NEW os \in [Leg -> OrchRecord],
         NEW kind \in {"prompt"} \cup Automatic, NEW p \in Nat,
         NEW conv \in SUBSET Leg, NEW b \in BudgetState,
         arms \in Nat, legs \in 0 .. MaxLegs,
         StartPrompt(kind, p, conv, b, os)
  PROVE  /\ legs + 1 \in Leg /\ legs' = legs + 1
         /\ session' = conv /\ paused' = FALSE
         /\ cancelFn' = legs + 1 /\ activeOrchID' = legs + 1
         /\ orch' \in [Leg -> OrchRecord]
         /\ \A k \in Leg : k # legs + 1 => orch'[k] = os[k]
         /\ \/ activeOrch' = 0 /\ orch'[legs + 1] = os[legs + 1]
            \/ /\ activeOrch' = legs + 1
               /\ orch'[legs + 1] = NewOrch(kind, p, conv, b)
<1>1. legs + 1 \in Leg
  BY BoundsAssumption DEF StartPrompt, Leg
<1>2. NewOrch(kind, p, conv, b) \in OrchRecord
  BY NewOrchFacts
<1>3. \/ activeOrch' = 0 /\ orch' = os
      \/ /\ activeOrch' = legs + 1
         /\ orch' = [os EXCEPT ![legs + 1] = NewOrch(kind, p, conv, b)]
  BY DEF StartPrompt
<1>4. /\ legs' = legs + 1 /\ session' = conv /\ paused' = FALSE
      /\ cancelFn' = legs + 1 /\ activeOrchID' = legs + 1
  BY DEF StartPrompt
<1> QED
  BY <1>1, <1>2, <1>3, <1>4


-----------------------------------------------------------------------------
(* Type correctness.  The only arithmetic that could leave the natural     *)
(* numbers is the count of resumes, which divides by the iterations of a   *)
(* leg: an armed budget never has zero of them.                            *)

TypeInv == TypeOK /\ StepKept(budget)

(* The completion of a leg charges the budget and forgets the leg. *)
LEMMA AfterFacts ==
  ASSUME orch \in [Leg -> OrchRecord], NEW l \in Leg
  PROVE  /\ After(l) \in [Leg -> OrchRecord]
         /\ After(l)[l].state = "done" /\ After(l)[l].kind = orch[l].kind
         /\ After(l)[l].arm = orch[l].arm
         /\ \A k \in Leg : k # l => After(l)[k] = orch[k]
<1>1. orch[l] \in OrchRecord
  OBVIOUS
<1>2. After(l) = [orch EXCEPT ![l] = Gone(orch[l])]
  BY DEF After
<1> QED
  BY <1>1, <1>2, GoneFacts

(* A new leg keeps the types, when the caller kept them. *)
LEMMA StartTyped ==
  ASSUME TypeOK, NEW os \in [Leg -> OrchRecord],
         \A k \in Leg : k > legs => os[k] = NoOrch,
         NEW kind \in {"prompt"} \cup Automatic, NEW p \in Nat,
         NEW conv \in SUBSET Leg, NEW b \in BudgetState,
         StartPrompt(kind, p, conv, b, os)
  PROVE  /\ activeOrch' \in 0 .. legs' /\ activeOrchID' \in 0 .. legs'
         /\ cancelFn' \in 0 .. legs' /\ session' \in SUBSET Leg
         /\ paused' \in BOOLEAN /\ orch' \in [Leg -> OrchRecord]
         /\ legs' \in 0 .. MaxLegs /\ legs <= legs'
         /\ \A k \in Leg : k > legs' => orch'[k] = NoOrch
<1>1. arms \in Nat /\ legs \in 0 .. MaxLegs
  BY DEF TypeOK
<1>2. /\ legs + 1 \in Leg /\ legs' = legs + 1
      /\ session' = conv /\ paused' = FALSE
      /\ cancelFn' = legs + 1 /\ activeOrchID' = legs + 1
      /\ orch' \in [Leg -> OrchRecord]
      /\ \A k \in Leg : k # legs + 1 => orch'[k] = os[k]
      /\ activeOrch' \in {0, legs + 1}
  BY <1>1, StartFacts
<1>3. legs \in Nat /\ MaxLegs \in Nat /\ legs + 1 <= MaxLegs
  BY <1>1, <1>2, BoundsAssumption DEF Leg
<1>4. \A k \in Leg : k > legs' => orch'[k] = NoOrch
  BY <1>2, <1>3 DEF Leg
<1>5. /\ activeOrch' \in 0 .. legs' /\ activeOrchID' \in 0 .. legs'
      /\ cancelFn' \in 0 .. legs' /\ legs' \in 0 .. MaxLegs /\ legs <= legs'
  BY <1>2, <1>3
<1> QED
  BY <1>2, <1>4, <1>5

(* Every step keeps the types. *)
LEMMA TypeStep == TypeInv /\ [Next]_vars => TypeInv'
<1> SUFFICES ASSUME TypeInv, [Next]_vars PROVE TypeInv'
  OBVIOUS
<1> USE DEF TypeInv
<1>t. /\ orch \in [Leg -> OrchRecord] /\ budget \in BudgetState
      /\ legs \in 0 .. MaxLegs /\ legs \in Nat /\ MaxLegs \in Nat
      /\ prompts \in Nat /\ arms \in Nat /\ deadlines \in Nat
  BY BoundsAssumption DEF TypeOK
<1>int. ASSUME NEW f \in 0 .. legs
        PROVE  /\ Interrupted(f) \in [Leg -> OrchRecord]
               /\ \A k \in Leg : k > legs => Interrupted(f)[k] = NoOrch
  BY <1>t, InterruptedFacts DEF TypeOK
<1>1. CASE Prompt
  <2>1. CASE activeOrch # 0
    BY <1>1, <2>1, <1>t, <1>int
       DEF Prompt, HandlePrompt, TypeOK, StepKept, sessionVars, clockVars
  <2>2. CASE activeOrch = 0
    <3>1. StartPrompt("prompt", prompts + 1, session, budget, orch)
      BY <1>1, <2>2 DEF Prompt, HandlePrompt
    <3>2. /\ activeOrch' \in 0 .. legs' /\ activeOrchID' \in 0 .. legs'
          /\ cancelFn' \in 0 .. legs' /\ session' \in SUBSET Leg
          /\ paused' \in BOOLEAN /\ orch' \in [Leg -> OrchRecord]
          /\ legs' \in 0 .. MaxLegs /\ legs <= legs'
          /\ \A k \in Leg : k > legs' => orch'[k] = NoOrch
      <4>1. prompts + 1 \in Nat /\ session \in SUBSET Leg
        BY <1>t DEF TypeOK
      <4>2. \A k \in Leg : k > legs => orch[k] = NoOrch
        BY DEF TypeOK
      <4> QED
        BY <3>1, <4>1, <4>2, <1>t, StartTyped
    <3>3. /\ prompts' = prompts + 1 /\ pendingPrompt' = pendingPrompt
          /\ UNCHANGED <<budget, passed, deadlines, arms, forks, forkedAt>>
      BY <1>1, <2>2 DEF Prompt, HandlePrompt, clockVars
    <3> QED
      BY <3>2, <3>3, <1>t DEF TypeOK, StepKept
  <2> QED
    BY <2>1, <2>2
<1>2. CASE Continue
  BY <1>1, <1>2 DEF Continue
<1>3. CASE Cancel
  <2>1. cancelFn \in 0 .. legs
    BY DEF TypeOK
  <2> QED
    BY <1>3, <2>1, <1>t, <1>int
       DEF Cancel, TypeOK, StepKept, sessionVars, clockVars, inputVars
<1>4. ASSUME NEW m \in Budget, SetRunBudget(m)
      PROVE  TypeInv'
  <2>1. Armed(m) \in BudgetState /\ StepKept(Armed(m))
    BY <1>t, ArmedFacts
  <2>2. budget' = Armed(m)
    BY <1>4 DEF SetRunBudget
  <2>3. budget' \in BudgetState /\ StepKept(budget')
    BY <2>1, <2>2
  <2>4. deadlines' \in Nat /\ deadlines <= deadlines'
    BY <1>4, <1>t DEF SetRunBudget
  <2>5. passed' \in SUBSET (1 .. deadlines')
    BY <1>4, <2>4, <1>t DEF SetRunBudget, TypeOK
  <2>6. arms' \in Nat
    BY <1>4, <1>t DEF SetRunBudget
  <2>7. UNCHANGED <<activeOrch, activeOrchID, cancelFn, pendingPrompt, session,
                    paused, orch, legs, prompts, forks, forkedAt>>
    BY <1>4 DEF SetRunBudget, actorVars, sessionVars
  <2> QED
    BY <2>3, <2>4, <2>5, <2>6, <2>7 DEF TypeOK, StepKept
<1>5. CASE ClearRunBudget
  <2>1. budget' \in BudgetState /\ ~budget'.armed
    BY <1>5, DisarmedFacts DEF ClearRunBudget
  <2> QED
    BY <1>5, <2>1, <1>t
       DEF ClearRunBudget, TypeOK, StepKept, actorVars, sessionVars, clockVars
<1>6. ASSUME NEW b \in BOOLEAN, SessionMemoryReplace(b)
      PROVE  TypeInv'
  <2>1. cancelFn \in 0 .. legs
    BY DEF TypeOK
  <2> QED
    BY <1>6, <2>1, <1>t, <1>int DEF SessionMemoryReplace, TypeOK, StepKept, clockVars
<1>7. ASSUME NEW l \in Leg, LoopStep(l)
      PROVE  TypeInv'
  <2>1. PICK new \in OrchRecord :
          /\ Loop(l, new) /\ orch[l].state \in Live
          /\ new.state \in Underway /\ Same(orch[l], new)
    BY <1>7, LoopSteps
  <2>2. l <= legs
    BY <2>1, <1>t, NoOrchFacts DEF TypeOK, Leg, Live
  <2> QED
    BY <2>1, <2>2, <1>t
       DEF Loop, TypeOK, StepKept, Leg, actorVars, sessionVars, clockVars, inputVars
<1>8. ASSUME NEW l \in Leg, OrchestratorDone(l)
      PROVE  TypeInv'
  <2>a. l <= legs
    BY <1>8, <1>t, NoOrchFacts DEF OrchestratorDone, TypeOK, Leg
  <2>b. /\ After(l) \in [Leg -> OrchRecord]
        /\ \A k \in Leg : k > legs => After(l)[k] = NoOrch
    <3>1. \A k \in Leg : k > legs => k # l /\ orch[k] = NoOrch
      BY <2>a, <1>t DEF TypeOK, Leg
    <3> QED
      BY <3>1, <1>t, AfterFacts
  <2>c. Charged(l) \in BudgetState /\ StepKept(Charged(l))
    BY <1>t, ChargedFacts DEF StepKept
  <2>d. Merged(l) \in SUBSET Leg
    <3>1. orch[l] \in OrchRecord
      BY <1>t
    <3> QED
      BY <3>1, OrchFields DEF Merged
  <2>e. ASSUME NEW kind \in {"prompt"} \cup Automatic, NEW p \in Nat,
               NEW b \in BudgetState, StepKept(b), budget' = b,
               StartPrompt(kind, p, Merged(l), b, After(l)),
               pendingPrompt' \in {0, pendingPrompt},
               deadlines' \in {deadlines, deadlines + 1},
               UNCHANGED <<passed, prompts, arms, forks, forkedAt>>
        PROVE  TypeInv'
    <3>1. /\ activeOrch' \in 0 .. legs' /\ activeOrchID' \in 0 .. legs'
          /\ cancelFn' \in 0 .. legs' /\ session' \in SUBSET Leg
          /\ paused' \in BOOLEAN /\ orch' \in [Leg -> OrchRecord]
          /\ legs' \in 0 .. MaxLegs /\ legs <= legs'
          /\ \A k \in Leg : k > legs' => orch'[k] = NoOrch
      BY <2>b, <2>d, <2>e, StartTyped
    <3> QED
      BY <3>1, <2>e, <1>t DEF TypeOK, StepKept
  <2>1. CASE DoneStale(l)
    BY <2>1, <2>b, <1>t DEF DoneStale, TypeOK, StepKept, actorVars,
       sessionVars, clockVars, inputVars
  <2>2. CASE DoneQueued(l)
    <3>1. pendingPrompt \in Nat
      BY <1>t DEF TypeOK
    <3> QED
      BY <2>2, <2>c, <2>e, <3>1 DEF DoneQueued, clockVars, inputVars
  <2>3. CASE DoneContinue(l)
    <3>1. Charged(l).left > 0
      BY <2>3 DEF DoneContinue, AutoContinue
    <3>2. Resumed(Charged(l)) \in BudgetState /\ StepKept(Resumed(Charged(l)))
      BY <3>1, <2>c, ResumedFacts DEF StepKept
    <3> QED
      BY <2>3, <3>2, <2>e DEF DoneContinue, clockVars, inputVars, Automatic
  <2>4. CASE DoneFinalize(l)
    <3>1. Charged(l).armed
      BY <2>4 DEF DoneFinalize, RunFinalizer
    <3>2. Finalizing(Charged(l)) \in BudgetState /\ StepKept(Finalizing(Charged(l)))
      BY <3>1, <2>c, <1>t, FinalizingFacts DEF StepKept
    <3> QED
      BY <2>4, <3>2, <2>e DEF DoneFinalize, inputVars, Automatic
  <2>f. StepKept(Disarmed) /\ Disarmed \in BudgetState
    BY DisarmedFacts DEF StepKept
  <2>5. CASE DonePause(l)
    <3>1. budget' \in {Charged(l), Disarmed}
      BY <2>5 DEF DonePause
    <3>2. budget' \in BudgetState /\ StepKept(budget')
      BY <3>1, <2>c, <2>f
    <3> QED
      BY <2>5, <3>2, <2>b, <2>d, <1>t
         DEF DonePause, Idle, TypeOK, StepKept, clockVars, inputVars
  <2>6. CASE DoneFinish(l)
    <3>1. budget' \in BudgetState /\ StepKept(budget')
      BY <2>6, <2>f DEF DoneFinish
    <3>2. paused' \in BOOLEAN /\ session' \in SUBSET Leg
      BY <2>6, <2>d DEF DoneFinish
    <3>3. /\ orch' = After(l)
          /\ activeOrch' = 0 /\ activeOrchID' = 0 /\ cancelFn' = 0
          /\ UNCHANGED <<pendingPrompt, legs, passed, deadlines, prompts, arms,
                         forks, forkedAt>>
      BY <2>6 DEF DoneFinish, Idle, clockVars, inputVars
    <3> QED
      BY <3>1, <3>2, <3>3, <2>b, <1>t DEF TypeOK, StepKept
  <2> QED
    BY <1>8, <2>1, <2>2, <2>3, <2>4, <2>5, <2>6 DEF OrchestratorDone
<1>9. ASSUME NEW d \in 1 .. deadlines, DeadlinePasses(d)
      PROVE  TypeInv'
  BY <1>9, <1>t DEF DeadlinePasses, TypeOK, StepKept, actorVars, sessionVars, inputVars
<1>10. CASE UNCHANGED vars
  BY <1>10 DEF vars, TypeOK, StepKept, actorVars, sessionVars, clockVars, inputVars
<1> QED
  BY <1>1, <1>2, <1>3, <1>4, <1>5, <1>6, <1>7, <1>8, <1>9, <1>10 DEF Next

(* In every behaviour. *)
LEMMA TypeInvariant == Spec => []TypeInv
<1>1. Init => TypeInv
  <2> SUFFICES ASSUME Init PROVE TypeInv
    OBVIOUS
  <2>1. budget \in BudgetState /\ StepKept(budget)
    BY DisarmedFacts DEF Init, StepKept
  <2>2. orch \in [Leg -> OrchRecord] /\ \A l \in Leg : orch[l] = NoOrch
    BY NoOrchFacts DEF Init
  <2>3. MaxLegs \in Nat
    BY BoundsAssumption
  <2>4. /\ activeOrch = 0 /\ activeOrchID = 0 /\ cancelFn = 0
        /\ pendingPrompt = 0 /\ session = {} /\ passed = {} /\ deadlines = 0
        /\ legs = 0 /\ prompts = 0 /\ arms = 0 /\ forks = 0 /\ forkedAt = 0
    BY DEF Init
  <2>5. paused \in BOOLEAN
    BY DEF Init
  <2> QED
    BY <2>1, <2>2, <2>3, <2>4, <2>5 DEF TypeInv, TypeOK
<1> QED
  BY <1>1, TypeStep, PTL DEF Spec

(* The actor, its session, its budget and its orchestrators keep their     *)
(* shape; no budget counts below zero, whatever is armed.                  *)
THEOREM TypeCorrect == Spec => []TypeOK
<1>1. TypeInv => TypeOK
  BY DEF TypeInv
<1> QED
  BY <1>1, TypeInvariant, PTL

-----------------------------------------------------------------------------
(* Control, work and forks.  The properties hold together, because of what *)
(* the actor's three pointers say about the orchestrators.                 *)

(* The active leg is the awaited one, it works on the session's            *)
(* conversation, and it can be cancelled unless it already was.            *)
ActiveSound ==
    activeOrch # 0 =>
        /\ activeOrch = activeOrchID
        /\ orch[activeOrch].state \in Underway
        /\ orch[activeOrch].base = session
        /\ orch[activeOrch].cancelled \/ cancelFn = activeOrch

(* A loop that is not the active one was cancelled by a fork, and its      *)
(* completion is not awaited.                                              *)
Abandoned ==
    \A l \in Leg : orch[l].state \in Underway =>
        \/ l = activeOrch
        \/ orch[l].cancelled /\ l <= forkedAt

(* What is awaited, or can be cancelled, started after the latest fork. *)
AwaitedSound ==
    /\ activeOrchID # 0 => activeOrchID > forkedAt
    /\ cancelFn # 0 => cancelFn = activeOrchID

(* The session holds every completed leg since the latest fork, no other.  *)
SessionSound ==
    /\ session \subseteq (forkedAt + 1) .. legs
    /\ \A l \in Leg : orch[l].state = "done" /\ l > forkedAt => l \in session

Control == ActiveSound /\ Abandoned /\ AwaitedSound /\ SessionSound /\ PausedIdle

(* Starting a leg when no other is active, on everything that was done. *)
LEMMA StartControlled ==
  ASSUME TypeOK, NEW os \in [Leg -> OrchRecord],
         NEW kind \in {"prompt"} \cup Automatic, NEW p \in Nat,
         NEW conv \in SUBSET Leg, NEW b \in BudgetState,
         StartPrompt(kind, p, conv, b, os), forkedAt' = forkedAt,
         \A k \in Leg : k > legs => os[k] = NoOrch,
         \A k \in Leg : os[k].state \in Underway => os[k].cancelled /\ k <= forkedAt,
         conv \subseteq (forkedAt + 1) .. legs,
         \A k \in Leg : os[k].state = "done" /\ k > forkedAt => k \in conv
  PROVE  Control'
<1> DEFINE l == legs + 1
<1>1. /\ arms \in Nat /\ legs \in 0 .. MaxLegs /\ forkedAt \in 0 .. legs
      /\ MaxLegs \in Nat
  BY BoundsAssumption DEF TypeOK
<1>2. /\ l \in Leg /\ legs' = l
      /\ session' = conv /\ paused' = FALSE
      /\ cancelFn' = l /\ activeOrchID' = l
      /\ \A k \in Leg : k # l => orch'[k] = os[k]
      /\ \/ activeOrch' = 0 /\ orch'[l] = os[l]
         \/ activeOrch' = l /\ orch'[l] = NewOrch(kind, p, conv, b)
  BY <1>1, StartFacts
<1>3. os[l] = NoOrch /\ l \in Nat /\ l # 0 /\ l > forkedAt
  BY <1>1, <1>2
<1>4. /\ NewOrch(kind, p, conv, b).state = "check"
      /\ NewOrch(kind, p, conv, b).base = conv
  BY DEF NewOrch
<1>5. orch'[l].state \notin {"done"}
  BY <1>2, <1>3, <1>4, NoOrchFacts
<1>6. ActiveSound'
  BY <1>2, <1>3, <1>4 DEF ActiveSound, Underway, Live
<1>7. Abandoned'
  BY <1>2, <1>3, <1>4, NoOrchFacts DEF Abandoned, Underway, Live
<1>8. AwaitedSound' /\ PausedIdle'
  BY <1>2, <1>3 DEF AwaitedSound, PausedIdle
<1>9. SessionSound'
  <2>1. (forkedAt + 1) .. legs \subseteq (forkedAt + 1) .. l
    BY <1>1
  <2> QED
    BY <1>2, <1>5, <2>1 DEF SessionSound
<1> QED
  BY <1>6, <1>7, <1>8, <1>9 DEF Control

(* Every step keeps control. *)
LEMMA ControlStep == TypeOK /\ TypeOK' /\ Control /\ [Next]_vars => Control'
<1> SUFFICES ASSUME TypeOK, TypeOK', Control, [Next]_vars PROVE Control'
  OBVIOUS
<1>t. /\ orch \in [Leg -> OrchRecord] /\ budget \in BudgetState
      /\ legs \in 0 .. MaxLegs /\ legs \in Nat /\ MaxLegs \in Nat
      /\ prompts \in Nat /\ arms \in Nat /\ forkedAt \in 0 .. legs
      /\ session \in SUBSET Leg
      /\ \A k \in Leg : k > legs => orch[k] = NoOrch
      /\ activeOrch \in 0 .. legs /\ activeOrchID \in 0 .. legs
      /\ cancelFn \in 0 .. legs
  BY BoundsAssumption DEF TypeOK
<1>int. /\ Interrupted(cancelFn) \in [Leg -> OrchRecord]
        /\ \A k \in Leg :
             /\ Interrupted(cancelFn)[k].state = orch[k].state
             /\ Interrupted(cancelFn)[k].base = orch[k].base
             /\ k = cancelFn \/ orch[k].cancelled
                  => Interrupted(cancelFn)[k].cancelled
  BY <1>t, InterruptedFacts
<1>act. activeOrch # 0 => activeOrch \in Leg
  BY <1>t DEF Leg
<1>stop. ASSUME orch' = Interrupted(cancelFn), cancelFn' = 0,
                UNCHANGED <<activeOrch, activeOrchID, session, paused, legs,
                            forkedAt>>
         PROVE  Control'
  <2>1. activeOrch # 0 => orch'[activeOrch].cancelled
    BY <1>stop, <1>int, <1>act DEF Control, ActiveSound
  <2>2. ActiveSound'
    BY <1>stop, <1>int, <1>act, <2>1 DEF Control, ActiveSound
  <2>3. Abandoned'
    BY <1>stop, <1>int DEF Control, Abandoned
  <2>4. AwaitedSound' /\ SessionSound' /\ PausedIdle'
    BY <1>stop, <1>int DEF Control, AwaitedSound, SessionSound, PausedIdle
  <2> QED
    BY <2>2, <2>3, <2>4 DEF Control
<1>same. ASSUME UNCHANGED <<activeOrch, activeOrchID, cancelFn, session, paused,
                            orch, legs, forkedAt>>
         PROVE  Control'
  BY <1>same DEF Control, ActiveSound, Abandoned, AwaitedSound, SessionSound,
     PausedIdle
<1>1. CASE Prompt
  <2>1. CASE activeOrch # 0
    BY <1>1, <2>1, <1>stop DEF Prompt, HandlePrompt, sessionVars
  <2>2. CASE activeOrch = 0
    <3>1. StartPrompt("prompt", prompts + 1, session, budget, orch)
      BY <1>1, <2>2 DEF Prompt, HandlePrompt
    <3>2. forkedAt' = forkedAt /\ prompts + 1 \in Nat
      BY <1>1, <1>t DEF Prompt
    <3>3. \A k \in Leg : orch[k].state \in Underway
                           => orch[k].cancelled /\ k <= forkedAt
      BY <2>2 DEF Control, Abandoned, Leg
    <3>4. /\ session \subseteq (forkedAt + 1) .. legs
          /\ \A k \in Leg : orch[k].state = "done" /\ k > forkedAt => k \in session
      BY DEF Control, SessionSound
    <3> QED
      BY <3>1, <3>2, <3>3, <3>4, <1>t, StartControlled
  <2> QED
    BY <2>1, <2>2
<1>2. CASE Continue
  BY <1>1, <1>2 DEF Continue
<1>3. CASE Cancel
  BY <1>3, <1>stop DEF Cancel, sessionVars, inputVars
<1>4. ASSUME NEW m \in Budget, SetRunBudget(m)
      PROVE  Control'
  BY <1>4, <1>same DEF SetRunBudget, actorVars, sessionVars
<1>5. CASE ClearRunBudget
  BY <1>5, <1>same DEF ClearRunBudget, actorVars, sessionVars
<1>6. ASSUME NEW b \in BOOLEAN, SessionMemoryReplace(b)
      PROVE  Control'
  <2>1. /\ orch' = Interrupted(cancelFn) /\ cancelFn' = 0 /\ activeOrch' = 0
        /\ activeOrchID' = 0 /\ session' = {} /\ forkedAt' = legs /\ legs' = legs
    BY <1>6 DEF SessionMemoryReplace
  <2>2. \A k \in Leg : orch[k].state \in Underway => k <= legs
    BY <1>t, NoOrchFacts DEF Leg, Underway, Live
  <2>3. Abandoned'
    BY <2>1, <2>2, <1>int DEF Control, ActiveSound, Abandoned
  <2>4. SessionSound'
    <3>1. \A k \in Leg : k > legs => orch'[k].state = "none"
      BY <2>1, <1>int, <1>t, NoOrchFacts
    <3> QED
      BY <2>1, <3>1 DEF SessionSound
  <2>5. ActiveSound' /\ AwaitedSound' /\ PausedIdle'
    BY <2>1 DEF ActiveSound, AwaitedSound, PausedIdle
  <2> QED
    BY <2>3, <2>4, <2>5 DEF Control
<1>7. ASSUME NEW l \in Leg, LoopStep(l)
      PROVE  Control'
  <2>1. PICK new \in OrchRecord :
          /\ Loop(l, new) /\ orch[l].state \in Live
          /\ new.state \in Underway /\ Same(orch[l], new)
    BY <1>7, LoopSteps
  <2>2. /\ orch' = [orch EXCEPT ![l] = new]
        /\ UNCHANGED <<activeOrch, activeOrchID, cancelFn, session, paused, legs,
                       forkedAt>>
    BY <2>1 DEF Loop, actorVars, sessionVars, inputVars
  <2>3. /\ orch'[l].state \in Underway /\ orch'[l].cancelled = orch[l].cancelled
        /\ orch'[l].base = orch[l].base /\ orch[l].state \in Underway
        /\ \A k \in Leg : k # l => orch'[k] = orch[k]
    BY <2>1, <2>2, <1>t DEF Same, Underway
  <2>4. ActiveSound'
    BY <2>2, <2>3, <1>act DEF Control, ActiveSound
  <2>5. Abandoned'
    BY <2>2, <2>3 DEF Control, Abandoned
  <2>6. AwaitedSound' /\ PausedIdle'
    BY <2>2 DEF Control, AwaitedSound, PausedIdle
  <2>7. SessionSound'
    BY <2>2, <2>3 DEF Control, SessionSound, Underway, Live
  <2> QED
    BY <2>4, <2>5, <2>6, <2>7 DEF Control
<1>8. ASSUME NEW l \in Leg, OrchestratorDone(l)
      PROVE  Control'
  <2>a. /\ After(l) \in [Leg -> OrchRecord] /\ After(l)[l].state = "done"
        /\ \A k \in Leg : k # l => After(l)[k] = orch[k]
    BY <1>t, AfterFacts
  <2>b. orch[l].state = "ended" /\ l <= legs /\ l \in Nat \ {0}
    BY <1>8, <1>t, NoOrchFacts DEF OrchestratorDone, Leg
  <2>c. ASSUME l = activeOrchID
        PROVE  l = activeOrch /\ l > forkedAt /\ orch[l].base = session
    <3>1. l > forkedAt
      BY <2>b, <2>c DEF Control, AwaitedSound
    <3>2. l = activeOrch
      BY <3>1, <2>b, <1>t DEF Control, Abandoned, Underway, Leg
    <3> QED
      BY <2>b, <3>1, <3>2 DEF Control, ActiveSound
  <2>d. ASSUME l = activeOrchID
        PROVE  /\ Merged(l) \in SUBSET Leg
               /\ \A k \in Leg : k > legs => After(l)[k] = NoOrch
               /\ \A k \in Leg : After(l)[k].state \in Underway
                                   => After(l)[k].cancelled /\ k <= forkedAt
               /\ Merged(l) \subseteq (forkedAt + 1) .. legs
               /\ \A k \in Leg : After(l)[k].state = "done" /\ k > forkedAt
                                   => k \in Merged(l)
    <3>1. Merged(l) = session \cup {l}
      BY <2>c, <2>d DEF Merged
    <3>2. Merged(l) \in SUBSET Leg /\ Merged(l) \subseteq (forkedAt + 1) .. legs
      BY <3>1, <2>b, <2>c, <2>d, <1>t DEF Control, SessionSound
    <3>3. \A k \in Leg : k > legs => After(l)[k] = NoOrch
      BY <2>a, <2>b, <1>t DEF Leg
    <3>4. \A k \in Leg : After(l)[k].state \in Underway
                           => After(l)[k].cancelled /\ k <= forkedAt
      BY <2>a, <2>c, <2>d DEF Control, Abandoned, Underway, Live
    <3>5. \A k \in Leg : After(l)[k].state = "done" /\ k > forkedAt
                           => k \in Merged(l)
      BY <2>a, <3>1 DEF Control, SessionSound
    <3> QED
      BY <3>2, <3>3, <3>4, <3>5
  <2>e. ASSUME l = activeOrchID, forkedAt' = forkedAt,
               NEW kind \in {"prompt"} \cup Automatic, NEW p \in Nat,
               NEW b \in BudgetState,
               StartPrompt(kind, p, Merged(l), b, After(l))
        PROVE  Control'
    BY <2>a, <2>d, <2>e, StartControlled
  <2>f. ASSUME l = activeOrchID, session' = Merged(l), orch' = After(l), Idle,
               forkedAt' = forkedAt
        PROVE  Control'
    <3>1. /\ activeOrch' = 0 /\ activeOrchID' = 0 /\ cancelFn' = 0 /\ legs' = legs
      BY <2>f DEF Idle
    <3>2. Abandoned' /\ SessionSound'
      BY <2>d, <2>f, <3>1 DEF Abandoned, SessionSound
    <3> QED
      BY <3>1, <3>2 DEF Control, ActiveSound, AwaitedSound, PausedIdle
  <2>g. Charged(l) \in BudgetState /\ budget' \in BudgetState
    BY <1>t, ChargedFacts DEF TypeOK
  <2>1. CASE DoneStale(l)
    <3>1. /\ l # activeOrchID /\ orch' = After(l)
          /\ UNCHANGED <<activeOrch, activeOrchID, cancelFn, session, paused,
                         legs, forkedAt>>
      BY <2>1 DEF DoneStale, Authoritative, actorVars, sessionVars, inputVars
    <3>2. l # activeOrch
      BY <3>1, <2>b DEF Control, ActiveSound
    <3>3. l <= forkedAt
      BY <3>2, <2>b DEF Control, Abandoned, Underway
    <3>4. ActiveSound'
      BY <3>1, <3>2, <2>a, <1>act DEF Control, ActiveSound
    <3>5. Abandoned'
      BY <3>1, <2>a DEF Control, Abandoned, Underway, Live
    <3>6. AwaitedSound' /\ PausedIdle'
      BY <3>1 DEF Control, AwaitedSound, PausedIdle
    <3>7. SessionSound'
      BY <3>1, <3>3, <2>a, <2>b, <1>t DEF Control, SessionSound
    <3> QED
      BY <3>4, <3>5, <3>6, <3>7 DEF Control
  <2>2. CASE DoneQueued(l)
    <3>1. pendingPrompt \in Nat
      BY <1>t DEF TypeOK
    <3> QED
      BY <2>2, <2>e, <2>g, <3>1 DEF DoneQueued, Authoritative, inputVars
  <2>3. CASE DoneContinue(l)
    <3>1. /\ l = activeOrchID /\ forkedAt' = forkedAt
          /\ StartPrompt("continue", 0, Merged(l), budget', After(l))
      BY <2>3 DEF DoneContinue, Authoritative, inputVars
    <3> QED
      BY <3>1, <2>g, <2>e DEF Automatic
  <2>4. CASE DoneFinalize(l)
    <3>1. /\ l = activeOrchID /\ forkedAt' = forkedAt
          /\ StartPrompt("finalizer", 0, Merged(l), budget', After(l))
      BY <2>4 DEF DoneFinalize, Authoritative, inputVars
    <3> QED
      BY <3>1, <2>g, <2>e DEF Automatic
  <2>5. CASE DonePause(l)
    BY <2>5, <2>f DEF DonePause, Authoritative, inputVars
  <2>6. CASE DoneFinish(l)
    BY <2>6, <2>f DEF DoneFinish, Authoritative, inputVars
  <2> QED
    BY <1>8, <2>1, <2>2, <2>3, <2>4, <2>5, <2>6 DEF OrchestratorDone
<1>9. ASSUME NEW d \in 1 .. deadlines, DeadlinePasses(d)
      PROVE  Control'
  BY <1>9, <1>same DEF DeadlinePasses, actorVars, sessionVars, inputVars
<1>10. CASE UNCHANGED vars
  BY <1>10, <1>same DEF vars, actorVars, sessionVars, inputVars
<1> QED
  BY <1>1, <1>2, <1>3, <1>4, <1>5, <1>6, <1>7, <1>8, <1>9, <1>10 DEF Next

(* In every behaviour of the actor and its loops. *)
LEMMA ControlHolds == Spec => [](TypeOK /\ Control)
<1>1. Init => Control
  <2> SUFFICES ASSUME Init PROVE Control
    OBVIOUS
  <2>1. \A l \in Leg : orch[l].state = "none"
    BY NoOrchFacts DEF Init
  <2> QED
    BY <2>1 DEF Init, Control, ActiveSound, Abandoned, AwaitedSound,
       SessionSound, PausedIdle, Underway, Live
<1>2. Spec => []TypeOK
  BY TypeCorrect
<1> QED
  BY <1>1, <1>2, ControlStep, PTL DEF Spec

(* The user never loses control of a loop: one whose context is live is    *)
(* the active one, and the actor holds the function that cancels it.       *)
THEOREM ControlSafe == Spec => []ControlKept
<1>1. TypeOK /\ Control => ControlKept
  <2> SUFFICES ASSUME TypeOK, Control, NEW l \in Leg,
                      orch[l].state \in Live, ~orch[l].cancelled
               PROVE  l = activeOrch /\ l = activeOrchID /\ l = cancelFn
    BY DEF ControlKept
  <2>1. l = activeOrch /\ l # 0
    BY DEF Control, Abandoned, Underway, Leg
  <2> QED
    BY <2>1 DEF Control, ActiveSound
<1> QED
  BY <1>1, ControlHolds, PTL

(* No completed leg's work is lost or left out of the leg that follows. *)
THEOREM WorkSafe == Spec => []WorkKept
<1>1. Control => WorkKept
  BY DEF Control, ActiveSound, SessionSound, WorkKept
<1> QED
  BY <1>1, ControlHolds, PTL

(* No leg that a fork abandoned reaches the memory that replaced its own.  *)
THEOREM ForkSafe == Spec => []ForkClean
<1>1. TypeOK /\ Control => ForkClean
  BY DEF TypeOK, Control, SessionSound, ForkClean
<1> QED
  BY <1>1, ControlHolds, PTL

(* A paused session has no active orchestrator. *)
THEOREM PauseSafe == Spec => []PausedIdle
<1>1. Control => PausedIdle
  BY DEF Control
<1> QED
  BY <1>1, ControlHolds, PTL


-----------------------------------------------------------------------------
(* The finalizer. *)

(* A finalizer leg carries a budget that was armed, and while that budget  *)
(* is the actor's it remembers that its finalizer ran.                     *)
FinalizerRecorded ==
    \A l \in Leg : orch[l].kind = "finalizer" =>
        /\ orch[l].arm <= arms
        /\ orch[l].arm = arms /\ budget.armed /\ budget.finalizer => budget.phase

FinalizerInv == FinalizerRecorded /\ FinalizerOnce

(* Orchestrators os have the kinds and budgets that those of the actor had. *)
SameKinds(os) ==
    \A l \in Leg : os[l].kind = orch[l].kind /\ os[l].arm = orch[l].arm

(* Budget c forgets nothing that budget b remembers. *)
Remembers(b, c) ==
    c.armed /\ c.finalizer => b.armed /\ b.finalizer /\ (b.phase => c.phase)

(* A new leg is the only one whose kind and budget a start may change. *)
LEMMA StartKinds ==
  ASSUME TypeOK, NEW os \in [Leg -> OrchRecord], SameKinds(os),
         NEW kind \in {"prompt"} \cup Automatic, NEW p \in Nat,
         NEW conv \in SUBSET Leg, NEW b \in BudgetState,
         StartPrompt(kind, p, conv, b, os)
  PROVE  /\ \A k \in Leg : k # legs + 1 =>
              orch'[k].kind = orch[k].kind /\ orch'[k].arm = orch[k].arm
         /\ \/ orch'[legs + 1].kind = "none"
            \/ /\ orch'[legs + 1].kind = kind
               /\ orch'[legs + 1].arm = IF b.armed THEN arms ELSE 0
<1>t. /\ arms \in Nat /\ legs \in 0 .. MaxLegs /\ legs + 1 > legs
      /\ \A k \in Leg : k > legs => orch[k] = NoOrch
  BY DEF TypeOK
<1>1. /\ legs + 1 \in Leg
      /\ \A k \in Leg : k # legs + 1 => orch'[k] = os[k]
      /\ \/ orch'[legs + 1] = os[legs + 1]
         \/ orch'[legs + 1] = NewOrch(kind, p, conv, b)
  BY <1>t, StartFacts
<1>2. orch[legs + 1].kind = "none"
  BY <1>1, <1>t, NoOrchFacts
<1>3. /\ NewOrch(kind, p, conv, b).kind = kind
      /\ NewOrch(kind, p, conv, b).arm = IF b.armed THEN arms ELSE 0
  BY DEF NewOrch
<1> QED
  BY <1>1, <1>2, <1>3 DEF SameKinds

(* Every step keeps the finalizer's record. *)
LEMMA FinalizerStep == TypeInv /\ FinalizerInv /\ [Next]_vars => FinalizerInv'
<1> SUFFICES ASSUME TypeInv, FinalizerInv, [Next]_vars PROVE FinalizerInv'
  OBVIOUS
<1> USE DEF TypeInv
<1>t. /\ orch \in [Leg -> OrchRecord] /\ budget \in BudgetState
      /\ legs \in 0 .. MaxLegs /\ legs \in Nat
      /\ prompts \in Nat /\ arms \in Nat /\ deadlines \in Nat
      /\ session \in SUBSET Leg
      /\ \A k \in Leg : k > legs => orch[k] = NoOrch
  BY BoundsAssumption DEF TypeOK
<1>arm. \A l \in Leg : orch[l].arm \in Nat
  BY <1>t, OrchFields
<1>keep. ASSUME SameKinds(orch'), arms' = arms, Remembers(budget, budget')
         PROVE  FinalizerInv'
  BY <1>keep DEF FinalizerInv, FinalizerRecorded, FinalizerOnce, SameKinds,
     Remembers
<1>plain. ASSUME NEW os \in [Leg -> OrchRecord], SameKinds(os),
                 NEW kind \in {"prompt", "continue"}, NEW p \in Nat,
                 NEW conv \in SUBSET Leg, NEW b \in BudgetState,
                 StartPrompt(kind, p, conv, b, os), arms' = arms,
                 Remembers(budget, budget')
          PROVE  FinalizerInv'
  <2>1. \A k \in Leg : orch'[k].kind = "finalizer" =>
          orch[k].kind = "finalizer" /\ orch'[k].arm = orch[k].arm
    BY <1>plain, <1>t, StartKinds DEF Automatic
  <2> QED
    BY <1>plain, <2>1 DEF FinalizerInv, FinalizerRecorded, FinalizerOnce, Remembers
<1>int. SameKinds(Interrupted(cancelFn))
  BY <1>t, InterruptedFacts DEF SameKinds
<1>1. CASE Prompt
  <2>0. arms' = arms /\ budget' = budget
    BY <1>1 DEF Prompt
  <2>1. CASE activeOrch # 0
    <3>1. orch' = Interrupted(cancelFn)
      BY <1>1, <2>1 DEF Prompt, HandlePrompt
    <3> QED
      BY <2>0, <3>1, <1>int, <1>keep DEF Remembers
  <2>2. CASE activeOrch = 0
    <3>1. StartPrompt("prompt", prompts + 1, session, budget, orch)
      BY <1>1, <2>2 DEF Prompt, HandlePrompt
    <3>2. prompts + 1 \in Nat /\ SameKinds(orch) /\ Remembers(budget, budget')
      BY <1>t, <2>0 DEF SameKinds, Remembers
    <3> QED
      BY <2>0, <3>1, <3>2, <1>t, <1>plain
  <2> QED
    BY <2>1, <2>2
<1>2. CASE Continue
  BY <1>1, <1>2 DEF Continue
<1>3. CASE Cancel
  BY <1>3, <1>int, <1>keep DEF Cancel, inputVars, Remembers
<1>4. ASSUME NEW m \in Budget, SetRunBudget(m)
      PROVE  FinalizerInv'
  <2>1. arms' = arms + 1 /\ orch' = orch
    BY <1>4 DEF SetRunBudget
  <2>2. \A l \in Leg : orch[l].kind = "finalizer" => orch[l].arm < arms'
    BY <2>1, <1>t, <1>arm DEF FinalizerInv, FinalizerRecorded
  <2> QED
    BY <2>1, <2>2, <1>t, <1>arm DEF FinalizerInv, FinalizerRecorded, FinalizerOnce
<1>5. CASE ClearRunBudget
  <2>1. arms' = arms + 1 /\ orch' = orch
    BY <1>5 DEF ClearRunBudget
  <2>2. \A l \in Leg : orch[l].kind = "finalizer" => orch[l].arm < arms'
    BY <2>1, <1>t, <1>arm DEF FinalizerInv, FinalizerRecorded
  <2> QED
    BY <2>1, <2>2, <1>t, <1>arm DEF FinalizerInv, FinalizerRecorded, FinalizerOnce
<1>6. ASSUME NEW b \in BOOLEAN, SessionMemoryReplace(b)
      PROVE  FinalizerInv'
  BY <1>6, <1>int, <1>keep DEF SessionMemoryReplace, Remembers
<1>7. ASSUME NEW l \in Leg, LoopStep(l)
      PROVE  FinalizerInv'
  <2>1. PICK new \in OrchRecord : Loop(l, new) /\ Same(orch[l], new)
    BY <1>7, LoopSteps
  <2>2. SameKinds(orch')
    BY <2>1, <1>t DEF Loop, Same, SameKinds
  <2>3. arms' = arms /\ budget' = budget
    BY <2>1 DEF Loop, inputVars
  <2> QED
    BY <2>2, <2>3, <1>keep DEF Remembers
<1>8. ASSUME NEW l \in Leg, OrchestratorDone(l)
      PROVE  FinalizerInv'
  <2>a. After(l) \in [Leg -> OrchRecord] /\ SameKinds(After(l))
    BY <1>t, AfterFacts DEF SameKinds
  <2>b. /\ Charged(l) \in BudgetState /\ Remembers(budget, Charged(l))
        /\ Charged(l).armed = budget.armed /\ Charged(l).phase = budget.phase
        /\ Charged(l).finalizer = budget.finalizer
        /\ StepKept(Charged(l))
    BY <1>t, ChargedFacts DEF Remembers, StepKept
  <2>c. Merged(l) \in SUBSET Leg
    <3>1. orch[l] \in OrchRecord
      BY <1>t
    <3> QED
      BY <3>1, OrchFields DEF Merged
  <2>d. Remembers(budget, Disarmed)
    BY DisarmedFacts DEF Remembers
  <2>1. CASE DoneStale(l)
    BY <2>1, <2>a, <1>keep DEF DoneStale, inputVars, Remembers
  <2>2. CASE DoneQueued(l)
    <3>1. pendingPrompt \in Nat
      BY <1>t DEF TypeOK
    <3> QED
      BY <2>2, <2>a, <2>b, <2>c, <3>1, <1>plain DEF DoneQueued, inputVars
  <2>3. CASE DoneContinue(l)
    <3>1. Charged(l).left > 0
      BY <2>3 DEF DoneContinue, AutoContinue
    <3>2. /\ Resumed(Charged(l)) \in BudgetState
          /\ Remembers(budget, Resumed(Charged(l)))
      BY <3>1, <2>b, ResumedFacts DEF Remembers
    <3>3. /\ budget' = Resumed(Charged(l)) /\ arms' = arms
          /\ StartPrompt("continue", 0, Merged(l), Resumed(Charged(l)), After(l))
      BY <2>3 DEF DoneContinue, inputVars
    <3> QED
      BY <3>2, <3>3, <2>a, <2>c, <1>plain
  <2>4. CASE DoneFinalize(l)
    <3> DEFINE b == Finalizing(Charged(l))
    <3>1. budget.armed /\ budget.finalizer /\ ~budget.phase
      BY <2>4, <2>b DEF DoneFinalize, RunFinalizer
    <3>2. b \in BudgetState /\ b.armed /\ b.phase
      BY <3>1, <2>b, <1>t, FinalizingFacts
    <3>3. /\ budget' = b /\ arms' = arms
          /\ StartPrompt("finalizer", 0, Merged(l), b, After(l))
      BY <2>4 DEF DoneFinalize, inputVars
    <3> HIDE DEF b
    <3>4. \A k \in Leg : orch[k].kind = "finalizer" => orch[k].arm # arms
      BY <3>1 DEF FinalizerInv, FinalizerRecorded
    <3>5. \A k \in Leg : orch'[k].kind = "finalizer" =>
            \/ k = legs + 1 /\ orch'[k].arm = arms
            \/ /\ k # legs + 1 /\ orch[k].kind = "finalizer"
               /\ orch'[k].arm = orch[k].arm /\ orch'[k].arm # arms
      BY <3>2, <3>3, <3>4, <2>a, <2>c, StartKinds DEF Automatic
    <3>6. FinalizerOnce'
      BY <3>5 DEF FinalizerInv, FinalizerOnce
    <3>7. FinalizerRecorded'
      BY <3>2, <3>3, <3>5, <1>t DEF FinalizerInv, FinalizerRecorded
    <3> QED
      BY <3>6, <3>7 DEF FinalizerInv
  <2>5. CASE DonePause(l)
    <3>1. Remembers(budget, budget')
      BY <2>5, <2>b, <2>d DEF DonePause
    <3> QED
      BY <2>5, <3>1, <2>a, <1>keep DEF DonePause, inputVars
  <2>6. CASE DoneFinish(l)
    <3>1. Remembers(budget, budget')
      BY <2>6, <2>d DEF DoneFinish
    <3> QED
      BY <2>6, <3>1, <2>a, <1>keep DEF DoneFinish, inputVars
  <2> QED
    BY <1>8, <2>1, <2>2, <2>3, <2>4, <2>5, <2>6 DEF OrchestratorDone
<1>9. ASSUME NEW d \in 1 .. deadlines, DeadlinePasses(d)
      PROVE  FinalizerInv'
  BY <1>9, <1>keep DEF DeadlinePasses, inputVars, SameKinds, Remembers
<1>10. CASE UNCHANGED vars
  BY <1>10, <1>keep DEF vars, inputVars, SameKinds, Remembers
<1> QED
  BY <1>1, <1>2, <1>3, <1>4, <1>5, <1>6, <1>7, <1>8, <1>9, <1>10 DEF Next

(* Whatever is armed, resumed, cancelled or forked in between, the         *)
(* finalizer prompt runs at most once for each budget.                     *)
THEOREM FinalizerSafe == Spec => []FinalizerOnce
<1>1. Init => FinalizerInv
  <2> SUFFICES ASSUME Init PROVE FinalizerInv
    OBVIOUS
  <2>1. \A l \in Leg : orch[l].kind = "none"
    BY NoOrchFacts DEF Init
  <2> QED
    BY <2>1 DEF FinalizerInv, FinalizerRecorded, FinalizerOnce
<1>2. Spec => []TypeInv
  BY TypeInvariant
<1>3. Spec => []FinalizerInv
  BY <1>1, <1>2, FinalizerStep, PTL DEF Spec
<1> QED
  BY <1>3, PTL DEF FinalizerInv
=============================================================================
