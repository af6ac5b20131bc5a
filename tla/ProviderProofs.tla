--------------------------- MODULE ProviderProofs ---------------------------
(***************************************************************************)
(* Proofs about a call of a model: the loops around it, for any set of     *)
(* setups, any replies and any limits of the retry policy; and what        *)
(* SecretNAT makes of its request and of the tool calls in its reply, for  *)
(* any conversations, values, names and setups, and of a streamed text,    *)
(* for any tokens that do not overlap ("Streams: the text so far").        *)
(***************************************************************************)
EXTENDS ModelCalls, OrderedProofs, SequenceTheorems, TLAPS

Pc == {"check", "send", "read", "sleep", "failed", "done"}

(* The longest wait between two attempts. *)
Longest == MaxDelay + Jitter(MaxDelay)

Shape ==
    /\ setup \in Setup /\ pc \in Pc /\ attempt \in 1 .. MaxAttempts /\ stage \in 1 .. 3
    /\ effort \in BOOLEAN /\ model \in {"primary", "secondary"}
    /\ history \in [requests : Nat, slept : Int, refused : BOOLEAN, garbled : BOOLEAN]
    /\ ~setup.streams => stage = 3
    /\ effort => setup.effort
    /\ pc = "sleep" => attempt < MaxAttempts /\ delay \in Int /\ delay <= Longest
    /\ model = "secondary" => Claude /\ setup.fallback /\ pc \in {"send", "read", "done"}

-----------------------------------------------------------------------------
(* The budgets. *)

(* What a call may still need: the stages of this attempt, the attempts    *)
(* after it, those after the self-heal, and the fallback.                  *)
Attempts(n) ==
    CASE Claude \/ ~setup.streams -> n
      [] setup.dialect = "chat" /\ setup.streams -> 3 * n
      [] setup.dialect = "responses" /\ setup.streams -> 2 * n

Stages ==
    CASE Claude \/ ~setup.streams -> 1
      [] setup.dialect = "chat" /\ setup.streams -> 4 - stage
      [] setup.dialect = "responses" /\ setup.streams -> IF stage = 3 THEN 1 ELSE 2

Healing  == IF Claude /\ effort THEN MaxAttempts ELSE 0
Fallback == IF Claude /\ setup.fallback THEN 1 ELSE 0

RequestsLeft ==
    CASE pc = "done" -> 0
      [] pc # "done" /\ model = "secondary" -> IF pc = "send" THEN 1 ELSE 0
      [] pc \in {"check", "send"} /\ model = "primary" ->
           Stages + Attempts(MaxAttempts - attempt) + Healing + Fallback
      [] pc \in {"read", "sleep"} /\ model = "primary" ->
           Attempts(MaxAttempts - attempt) + Healing + Fallback
      [] OTHER -> Healing + Fallback

HealingSleeps == IF Claude /\ effort THEN MaxAttempts - 1 ELSE 0

SleepsLeft ==
    CASE pc = "done" \/ model = "secondary" -> 0
      [] pc = "failed" /\ model = "primary" -> HealingSleeps
      [] OTHER -> MaxAttempts - attempt + HealingSleeps

Budget == history.requests + RequestsLeft <= MaxRequests

Patience == history.slept + SleepsLeft * Longest <= MaxWait

(* After a refused credential the call has ended, or is about to, or asks  *)
(* the fallback model.                                                     *)
Refusals ==
    history.refused => \/ pc = "done" \/ model = "secondary"
                       \/ pc = "failed" /\ err = "status"

Kept == Shape /\ Budget /\ Patience /\ Refusals

-----------------------------------------------------------------------------
(* Arithmetic. *)

(* The limits are numbers, and jitter stays within them.                   *)
LEMMA LongestFacts ==
  /\ Longest \in Nat /\ MaxAttempts \in Nat \ {0} /\ BaseDelay \in Nat /\ MaxDelay \in Nat
  /\ \A d \in 0 .. MaxDelay : Jitter(d) \in 0 .. d /\ d + Jitter(d) <= Longest
BY ProviderAssumption DEF Longest, Jitter

(* A set has as many subsets as a power of two says.                       *)
LEMMA PowerFacts == \A n \in Nat : 2 ^ n \in Nat
<1> SUFFICES ASSUME NEW n \in Nat PROVE 2 ^ n \in Nat
  OBVIOUS
<1>1. IsFiniteSet(1 .. n) /\ Cardinality(1 .. n) = n
  BY FS_Interval
<1>2. Cardinality(SUBSET (1 .. n)) = 2 ^ n /\ IsFiniteSet(SUBSET (1 .. n))
  BY <1>1, FS_SUBSET
<1> QED
  BY <1>2, FS_CardinalityType

(* backoffFor never waits longer than the capped delay and its jitter.     *)
LEMMA BackoffFacts ==
  ASSUME NEW n \in 1 .. MaxAttempts, NEW after \in Nat, NEW d \in BackoffFor(n, after)
  PROVE  d \in 0 .. Longest
<1>1. CASE after > 0
  BY <1>1, LongestFacts DEF BackoffFor, Least
<1>2. CASE ~(after > 0)
  <2> DEFINE base == Least(BaseDelay * 2 ^ (n - 1), MaxDelay)
  <2>1. BaseDelay * 2 ^ (n - 1) \in Nat
    <3>1. n - 1 \in Nat
      BY LongestFacts
    <3> QED
      BY <3>1, PowerFacts, LongestFacts
  <2>2. base \in 0 .. MaxDelay
    BY <2>1, LongestFacts DEF Least
  <2>3. d \in {base - Jitter(base), base, base + Jitter(base)}
    BY <1>2 DEF BackoffFor
  <2> HIDE DEF base
  <2> QED
    BY <2>2, <2>3, LongestFacts
<1> QED
  BY <1>1, <1>2

(* The longest wait, added once more.                                      *)
LEMMA OneMoreSleep ==
  ASSUME NEW n \in Int PROVE (n + 1) * Longest = n * Longest + Longest /\ n * Longest \in Int
BY LongestFacts

HealingOf(n) == IF Claude /\ setup.effort THEN n ELSE 0

(* The bounds of the property are sums.                                    *)
LEMMA Bounds ==
  ASSUME setup \in Setup
  PROVE  /\ MaxRequests \in Nat /\ MaxWait \in Int
         /\ MaxRequests = IF Claude THEN MaxAttempts + HealingOf(MaxAttempts) + Fallback
                                    ELSE Attempts(MaxAttempts)
         /\ MaxWait = (MaxAttempts - 1 + HealingOf(MaxAttempts - 1)) * Longest
<1>1. setup.effort \in BOOLEAN /\ setup.fallback \in BOOLEAN /\ setup.streams \in BOOLEAN
  BY DEF Setup
<1>2. MaxRequests = IF Claude THEN MaxAttempts + HealingOf(MaxAttempts) + Fallback
                              ELSE Attempts(MaxAttempts)
  <2>1. CASE Claude /\ setup.effort
    BY <2>1, LongestFacts DEF MaxRequests, Fallback, HealingOf, Claude
  <2>2. CASE Claude /\ ~setup.effort
    BY <2>2, LongestFacts DEF MaxRequests, Fallback, HealingOf, Claude
  <2>3. CASE ~Claude
    BY <1>1, <2>3, LongestFacts DEF MaxRequests, Attempts, Setup, Claude
  <2> QED
    BY <2>1, <2>2, <2>3
<1>3. MaxWait = (MaxAttempts - 1 + HealingOf(MaxAttempts - 1)) * Longest
  <2>1. CASE Claude /\ setup.effort
    <3>1. MaxWait = 2 * (MaxAttempts - 1) * Longest
      BY <2>1 DEF MaxWait, Longest
    <3>2. 2 * (MaxAttempts - 1) = MaxAttempts - 1 + (MaxAttempts - 1)
      BY LongestFacts
    <3> QED
      BY <2>1, <3>1, <3>2 DEF HealingOf
  <2>2. CASE ~(Claude /\ setup.effort)
    <3>1. MaxWait = 1 * (MaxAttempts - 1) * Longest
      BY <2>2 DEF MaxWait, Longest
    <3>2. 1 * (MaxAttempts - 1) = MaxAttempts - 1 + 0
      BY LongestFacts
    <3> QED
      BY <2>2, <3>1, <3>2 DEF HealingOf
  <2> QED
    BY <2>1, <2>2
<1>4. MaxRequests \in Nat
  BY <1>1, <1>2, LongestFacts DEF Attempts, Fallback, HealingOf, Setup, Claude
<1>5. MaxWait \in Int
  BY <1>1, <1>3, LongestFacts DEF HealingOf
<1> QED
  BY <1>2, <1>3, <1>4, <1>5

-----------------------------------------------------------------------------
(* The steps. *)

(* What a call needs is some number; only what it depends on changes it.   *)
LEMMA LeftFacts ==
  ASSUME Shape
  PROVE  /\ Attempts(MaxAttempts - attempt) \in Nat /\ Stages \in Nat \ {0}
         /\ Healing \in Nat /\ Fallback \in Nat /\ RequestsLeft \in Nat
         /\ HealingSleeps \in Nat /\ SleepsLeft \in Nat
         /\ MaxAttempts - attempt \in Nat /\ MaxRequests \in Nat /\ MaxWait \in Int
<1>1. /\ setup.dialect \in {"claude", "chat", "responses"} /\ setup.streams \in BOOLEAN
      /\ MaxAttempts - attempt \in Nat /\ setup \in Setup /\ stage \in 1 .. 3
  BY LongestFacts DEF Shape, Setup
<1>2. Attempts(MaxAttempts - attempt) \in Nat /\ Stages \in Nat \ {0}
  BY <1>1 DEF Attempts, Stages, Claude
<1>3. Healing \in Nat /\ Fallback \in Nat /\ HealingSleeps \in Nat
  BY LongestFacts DEF Healing, Fallback, HealingSleeps
<1>4. RequestsLeft \in Nat
  BY <1>2, <1>3 DEF RequestsLeft, Shape, Pc
<1>5. SleepsLeft \in Nat
  BY <1>1, <1>3 DEF SleepsLeft, Shape, Pc
<1> QED
  BY <1>1, <1>2, <1>3, <1>4, <1>5, Bounds

(* Time and requests that are not spent are left. *)
LEMMA FewerSleeps ==
  ASSUME NEW m \in Nat, NEW n \in Nat, m <= n
  PROVE  m * Longest \in Nat /\ n * Longest \in Nat /\ m * Longest <= n * Longest
<1>1. n * Longest = m * Longest + (n - m) * Longest
  BY LongestFacts
<1>2. m * Longest \in Nat /\ (n - m) * Longest \in Nat /\ n * Longest \in Nat
  BY LongestFacts
<1> QED
  BY <1>1, <1>2

(* An attempt that failed: its requests are spent, its stages given up.    *)
LEMMA FailStep ==
  ASSUME Kept, pc \in {"send", "read"}, NEW class, NEW e, NEW after \in Nat,
         Failed(class, e, after), UNCHANGED setup,
         history' \in [requests : Nat, slept : Int, refused : BOOLEAN, garbled : BOOLEAN],
         history'.requests <= history.requests + (IF pc = "send" THEN 1 ELSE 0),
         history'.slept = history.slept,
         history'.refused =>
           history.refused \/ (class = "fatal" /\ e = "status" /\ model = "primary")
  PROVE  Kept'
<1>1. CASE model = "secondary"
  <2>1. pc' = "done" /\ UNCHANGED <<attempt, stage, effort, model, delay>>
    BY <1>1 DEF Failed, Return, local
  <2>2. Shape'
    BY <2>1 DEF Kept, Shape, Pc, Claude
  <2>3. RequestsLeft' = 0 /\ SleepsLeft' = 0 /\ MaxRequests' = MaxRequests /\ MaxWait' = MaxWait
    BY <2>1 DEF RequestsLeft, SleepsLeft, MaxRequests, MaxWait, Claude
  <2>4. Budget'
    BY <1>1, <2>3, LeftFacts DEF Kept, Budget, RequestsLeft, Shape
  <2>5. Patience'
    BY <1>1, <2>3 DEF Kept, Patience, SleepsLeft
  <2> QED
    BY <2>1, <2>2, <2>4, <2>5 DEF Kept, Refusals
<1>2. CASE model = "primary" /\ (class = "fatal" \/ Exhausted)
  <2>1. pc' = "failed" /\ err' = e /\ UNCHANGED <<attempt, stage, effort, model, delay>>
    BY <1>2 DEF Failed
  <2>2. Shape'
    BY <1>2, <2>1 DEF Kept, Shape, Pc, Claude
  <2>3. /\ RequestsLeft' = Healing + Fallback /\ SleepsLeft' = HealingSleeps
        /\ MaxRequests' = MaxRequests /\ MaxWait' = MaxWait
    BY <1>2, <2>1 DEF RequestsLeft, SleepsLeft, MaxRequests, MaxWait, Claude, Healing, Fallback,
                      HealingSleeps
  <2>4. RequestsLeft' + (IF pc = "send" THEN 1 ELSE 0) <= RequestsLeft
    BY <1>2, <2>3, LeftFacts DEF Kept, RequestsLeft
  <2>5. Budget'
    BY <2>2, <2>3, <2>4, LeftFacts DEF Kept, Budget, Shape
  <2>6. SleepsLeft' <= SleepsLeft
    BY <1>2, <2>3, LeftFacts DEF Kept, SleepsLeft
  <2>7. Patience'
    BY <2>3, <2>6, LeftFacts, FewerSleeps DEF Kept, Patience, Longest, Shape
  <2> QED
    BY <1>2, <2>1, <2>2, <2>5, <2>7 DEF Kept, Refusals
<1>3. CASE model = "primary" /\ ~(class = "fatal" \/ Exhausted)
  <2>1. /\ pc' = "sleep" /\ err' = e /\ delay' \in BackoffFor(attempt, after)
        /\ UNCHANGED <<attempt, stage, effort, model>>
    BY <1>3 DEF Failed
  <2>2. Shape'
    <3>1. attempt < MaxAttempts
      BY <1>3, LongestFacts DEF Exhausted, Kept, Shape
    <3>2. delay' \in Int /\ delay' <= Longest
      BY <2>1, BackoffFacts, LongestFacts DEF Kept, Shape
    <3> QED
      BY <1>3, <2>1, <3>1, <3>2 DEF Kept, Shape, Pc, Claude, Longest
  <2>3. /\ RequestsLeft' = Attempts(MaxAttempts - attempt) + Healing + Fallback
        /\ SleepsLeft' = MaxAttempts - attempt + HealingSleeps
        /\ MaxRequests' = MaxRequests /\ MaxWait' = MaxWait
    BY <1>3, <2>1 DEF RequestsLeft, SleepsLeft, MaxRequests, MaxWait, Claude, Healing, Fallback,
                      HealingSleeps, Attempts
  <2>4. RequestsLeft' + (IF pc = "send" THEN 1 ELSE 0) <= RequestsLeft
    BY <1>3, <2>3, LeftFacts DEF Kept, RequestsLeft
  <2>5. Budget'
    BY <2>2, <2>3, <2>4, LeftFacts DEF Kept, Budget, Shape
  <2>6. SleepsLeft' = SleepsLeft
    BY <1>3, <2>3 DEF SleepsLeft
  <2>7. Patience'
    BY <2>3, <2>6 DEF Kept, Patience, Longest
  <2> QED
    BY <1>3, <2>1, <2>2, <2>5, <2>7 DEF Kept, Refusals
<1> QED
  BY <1>1, <1>2, <1>3 DEF Kept, Shape

(* A request is counted once.                                              *)
LEMMA RequestedFacts ==
  ASSUME Shape, NEW b \in BOOLEAN, Requested(b)
  PROVE  /\ history' \in [requests : Nat, slept : Int, refused : BOOLEAN, garbled : BOOLEAN]
         /\ history'.requests <= history.requests + 1 /\ history'.slept = history.slept
         /\ history'.refused <=> history.refused \/ (b /\ model = "primary")
<1>1. /\ history.requests \in Nat /\ history.slept \in Int /\ history.refused \in BOOLEAN
      /\ MaxRequests \in Nat
  BY LeftFacts DEF Shape
<1>2. history' = [requests |-> Least(history.requests + 1, MaxRequests + 1),
                  slept |-> history.slept,
                  refused |-> history.refused \/ (b /\ model = "primary"), garbled |-> FALSE]
  BY DEF Requested, Shape
<1> QED
  BY <1>1, <1>2 DEF Least

(* The reply ends a call that sends or reads. *)
LEMMA SucceedStep ==
  ASSUME Kept, pc \in {"send", "read"}, NEW response, Succeed(response), UNCHANGED setup,
         history' \in [requests : Nat, slept : Int, refused : BOOLEAN, garbled : BOOLEAN],
         history'.requests <= history.requests + (IF pc = "send" THEN 1 ELSE 0),
         history'.slept = history.slept
  PROVE  Kept'
<1>1. pc' = "done" /\ UNCHANGED <<attempt, stage, effort, model, delay>>
  BY DEF Succeed, Return, local
<1>2. Shape'
  BY <1>1 DEF Kept, Shape, Pc, Claude
<1>3. RequestsLeft' = 0 /\ SleepsLeft' = 0 /\ MaxRequests' = MaxRequests /\ MaxWait' = MaxWait
  BY <1>1 DEF RequestsLeft, SleepsLeft, MaxRequests, MaxWait, Claude
<1>4. RequestsLeft >= (IF pc = "send" THEN 1 ELSE 0)
  BY LeftFacts DEF Kept, RequestsLeft, Shape
<1>5. Budget'
  BY <1>2, <1>3, <1>4, LeftFacts DEF Kept, Budget, Shape
<1>6. Patience'
  BY <1>3, LeftFacts, FewerSleeps, LongestFacts DEF Kept, Patience, Longest, Shape
<1> QED
  BY <1>1, <1>2, <1>5, <1>6 DEF Kept, Refusals

(* An attempt begins, or is given up for a cancelled caller.               *)
LEMMA CheckStep ==
  ASSUME Kept, Check PROVE Kept'
<1>1. CASE cancelled
  <2>1. /\ pc = "check" /\ pc' = "failed"
        /\ UNCHANGED <<setup, attempt, stage, effort, model, delay, history>>
    BY <1>1 DEF Check
  <2>2. Shape' /\ model = "primary" /\ ~history.refused
    BY <2>1 DEF Kept, Shape, Pc, Claude, Refusals
  <2>3. /\ RequestsLeft' = Healing + Fallback /\ SleepsLeft' = HealingSleeps
        /\ MaxRequests' = MaxRequests /\ MaxWait' = MaxWait
    BY <2>1, <2>2 DEF RequestsLeft, SleepsLeft, MaxRequests, MaxWait, Claude, Healing, Fallback,
                      HealingSleeps
  <2>4. RequestsLeft' <= RequestsLeft /\ SleepsLeft' <= SleepsLeft
    BY <2>1, <2>2, <2>3, LeftFacts DEF Kept, RequestsLeft, SleepsLeft
  <2>5. Budget'
    BY <2>1, <2>2, <2>3, <2>4, LeftFacts DEF Kept, Budget, Shape
  <2>6. Patience'
    BY <2>1, <2>3, <2>4, LeftFacts, FewerSleeps DEF Kept, Patience, Longest, Shape
  <2> QED
    BY <2>1, <2>2, <2>5, <2>6 DEF Kept, Refusals
<1>2. CASE ~cancelled
  <2>1. /\ pc = "check" /\ pc' = "send"
        /\ UNCHANGED <<setup, attempt, stage, effort, model, delay, history>>
    BY <1>2 DEF Check
  <2>2. Shape' /\ model = "primary" /\ ~history.refused
    BY <2>1 DEF Kept, Shape, Pc, Claude, Refusals
  <2>3. /\ RequestsLeft' = RequestsLeft /\ SleepsLeft' = SleepsLeft
        /\ MaxRequests' = MaxRequests /\ MaxWait' = MaxWait
    BY <2>1, <2>2 DEF RequestsLeft, SleepsLeft, MaxRequests, MaxWait, Claude, Healing, Fallback,
                      HealingSleeps, Stages, Attempts
  <2> QED
    BY <2>1, <2>2, <2>3 DEF Kept, Budget, Patience, Refusals, Longest
<1> QED
  BY <1>1, <1>2

(* The next attempt uses up one wait and the stages of one attempt.        *)
LEMMA WakeStep ==
  ASSUME Kept, Wake PROVE Kept'
<1>1. pc = "sleep" /\ model = "primary" /\ ~history.refused
  BY DEF Wake, Kept, Shape, Refusals
<1>2. CASE cancelled
  <2>1. pc' = "failed" /\ UNCHANGED <<setup, attempt, stage, effort, model, delay, history>>
    BY <1>2 DEF Wake
  <2>2. Shape'
    BY <1>1, <2>1 DEF Kept, Shape, Pc, Claude
  <2>3. /\ RequestsLeft' = Healing + Fallback /\ SleepsLeft' = HealingSleeps
        /\ MaxRequests' = MaxRequests /\ MaxWait' = MaxWait
    BY <1>1, <2>1 DEF RequestsLeft, SleepsLeft, MaxRequests, MaxWait, Claude, Healing, Fallback,
                      HealingSleeps
  <2>4. RequestsLeft' <= RequestsLeft /\ SleepsLeft' <= SleepsLeft
    BY <1>1, <2>3, LeftFacts DEF Kept, RequestsLeft, SleepsLeft
  <2>5. Budget'
    BY <2>1, <2>2, <2>3, <2>4, LeftFacts DEF Kept, Budget, Shape
  <2>6. Patience'
    BY <2>1, <2>3, <2>4, LeftFacts, FewerSleeps DEF Kept, Patience, Longest, Shape
  <2> QED
    BY <1>1, <2>1, <2>2, <2>5, <2>6 DEF Kept, Refusals
<1>3. CASE ~cancelled
  <2>1. /\ pc' = "check" /\ attempt' = attempt + 1 /\ stage' = FirstStage
        /\ history' = [history EXCEPT !.slept = Least(@ + delay, MaxWait + 1)]
        /\ UNCHANGED <<setup, effort, model>>
    BY <1>3 DEF Wake
  <2>2. /\ attempt < MaxAttempts /\ attempt \in Nat /\ delay \in Int /\ delay <= Longest
        /\ history.slept \in Int /\ history.requests \in Nat /\ MaxWait \in Int
    BY <1>1, LeftFacts, LongestFacts DEF Kept, Shape
  <2>3. /\ history'.slept \in Int /\ history'.slept <= history.slept + Longest
        /\ history'.requests = history.requests /\ ~history'.refused
        /\ history' \in [requests : Nat, slept : Int, refused : BOOLEAN, garbled : BOOLEAN]
    <3>1. Least(history.slept + delay, MaxWait + 1) \in Int
      BY <2>2 DEF Least
    <3>2. Least(history.slept + delay, MaxWait + 1) <= history.slept + Longest
      BY <2>2, LongestFacts DEF Least
    <3> QED
      BY <1>1, <2>1, <3>1, <3>2 DEF Kept, Shape
  <2>4. Shape'
    BY <1>1, <2>1, <2>2, <2>3, LongestFacts DEF Kept, Shape, Pc, Claude, FirstStage
  <2>5. /\ RequestsLeft' = RequestsLeft /\ SleepsLeft = SleepsLeft' + 1 /\ SleepsLeft' \in Nat
        /\ MaxRequests' = MaxRequests /\ MaxWait' = MaxWait
    <3>1. MaxAttempts - attempt = MaxAttempts - attempt' + 1 /\ MaxAttempts - attempt' \in Nat
      BY <2>1, <2>2, LongestFacts
    <3>2. SleepsLeft = SleepsLeft' + 1 /\ SleepsLeft' \in Nat
      BY <1>1, <2>1, <3>1, LeftFacts DEF SleepsLeft, HealingSleeps, Claude, Kept
    <3>3. Stages' + Attempts(MaxAttempts - attempt)' = Attempts(MaxAttempts - attempt)
      BY <2>1, <3>1 DEF Stages, Attempts, Claude, FirstStage, Kept, Shape, Setup
    <3>4. /\ RequestsLeft' = Stages' + Attempts(MaxAttempts - attempt)' + Healing' + Fallback'
          /\ RequestsLeft = Attempts(MaxAttempts - attempt) + Healing + Fallback
      BY <1>1, <2>1 DEF RequestsLeft
    <3>5. Healing' = Healing /\ Fallback' = Fallback
      BY <2>1 DEF Healing, Fallback, Claude
    <3> QED
      BY <2>1, <3>2, <3>3, <3>4, <3>5 DEF MaxRequests, MaxWait, Claude
  <2>6. Budget'
    BY <2>3, <2>5 DEF Kept, Budget
  <2>7. Patience'
    <3>1. /\ SleepsLeft * Longest = SleepsLeft' * Longest + Longest
          /\ SleepsLeft' * Longest \in Int
      BY <2>5, OneMoreSleep
    <3>2. history'.slept + SleepsLeft' * Longest <= MaxWait
      BY <2>2, <2>3, <3>1, LongestFacts DEF Kept, Patience
    <3> QED
      BY <2>5, <3>2 DEF Patience, Longest
  <2> QED
    BY <2>3, <2>4, <2>6, <2>7 DEF Kept, Refusals
<1> QED
  BY <1>2, <1>3

(* The effort self-heal uses up what was kept for it, the fallback too.    *)
LEMMA AfterRetriesStep ==
  ASSUME Kept, AfterRetries PROVE Kept'
<1>1. pc = "failed" /\ model = "primary" /\ UNCHANGED <<setup, history>>
  BY DEF AfterRetries, Kept, Shape
<1>2. MaxRequests' = MaxRequests /\ MaxWait' = MaxWait /\ Longest' = Longest
  BY <1>1 DEF MaxRequests, MaxWait, Claude, Longest
<1>3. CASE Claude /\ Heals(err) /\ pc' = "check" /\ effort' = Stripped /\ attempt' = 1
           /\ UNCHANGED <<stage, model>>
  <2>1. effort /\ ~effort' /\ ~history.refused
    BY <1>1, <1>3 DEF Heals, Stripped, Kept, Refusals
  <2>2. Shape'
    <3>1. attempt' \in 1 .. MaxAttempts
      BY <1>3, LongestFacts
    <3>2. effort' \in BOOLEAN
      BY <1>3 DEF Stripped
    <3> QED
      BY <1>1, <1>3, <2>1, <3>1, <3>2 DEF Kept, Shape, Pc, Claude
  <2>3. RequestsLeft' = RequestsLeft
    <3>1. RequestsLeft = MaxAttempts + Fallback
      BY <1>1, <1>3, <2>1 DEF RequestsLeft, Healing
    <3>2. RequestsLeft' = Stages' + Attempts(MaxAttempts - attempt)' + Healing' + Fallback'
      BY <1>1, <1>3 DEF RequestsLeft
    <3>3. /\ Stages' = 1 /\ Attempts(MaxAttempts - attempt)' = MaxAttempts - 1
          /\ Healing' = 0 /\ Fallback' = Fallback
      BY <1>1, <1>3, <2>1 DEF Stages, Attempts, Healing, Fallback, Claude
    <3> QED
      BY <3>1, <3>2, <3>3, LeftFacts, LongestFacts DEF Kept
  <2>4. SleepsLeft' = SleepsLeft
    <3>1. SleepsLeft = MaxAttempts - 1
      BY <1>1, <1>3, <2>1 DEF SleepsLeft, HealingSleeps
    <3>2. SleepsLeft' = MaxAttempts - 1 + 0
      BY <1>1, <1>3, <2>1 DEF SleepsLeft, HealingSleeps
    <3> QED
      BY <3>1, <3>2, LongestFacts
  <2> QED
    BY <1>1, <1>2, <2>1, <2>2, <2>3, <2>4 DEF Kept, Budget, Patience, Refusals
<1>4. CASE Claude /\ FallsBack(err) /\ pc' = "send" /\ model' = "secondary"
           /\ UNCHANGED <<attempt, stage, effort>>
  <2>1. setup.fallback
    BY <1>4 DEF FallsBack
  <2>2. Shape'
    BY <1>1, <1>4, <2>1 DEF Kept, Shape, Pc, Claude
  <2>3. RequestsLeft' <= RequestsLeft /\ SleepsLeft' = 0 /\ RequestsLeft' \in Nat
    BY <1>1, <1>4, <2>1, LeftFacts DEF RequestsLeft, SleepsLeft, Fallback, Kept
  <2>4. Budget'
    BY <1>1, <1>2, <2>3, LeftFacts DEF Kept, Budget, Shape
  <2>5. Patience'
    BY <1>1, <1>2, <2>3, LeftFacts, FewerSleeps DEF Kept, Patience, Shape
  <2> QED
    BY <1>1, <1>4, <2>2, <2>4, <2>5 DEF Kept, Refusals
<1>5. CASE Return(FALSE, err, None)
  <2>1. pc' = "done" /\ UNCHANGED <<attempt, stage, effort, model, delay>>
    BY <1>5 DEF Return, local
  <2>2. Shape'
    BY <1>1, <2>1 DEF Kept, Shape, Pc, Claude
  <2>3. RequestsLeft' = 0 /\ SleepsLeft' = 0
    BY <2>1 DEF RequestsLeft, SleepsLeft
  <2>4. Budget'
    BY <1>1, <1>2, <2>3, LeftFacts DEF Kept, Budget, Shape
  <2>5. Patience'
    BY <1>1, <1>2, <2>3, LeftFacts, FewerSleeps DEF Kept, Patience, Shape
  <2> QED
    BY <1>1, <2>1, <2>2, <2>4, <2>5 DEF Kept, Refusals
<1> QED
  BY <1>3, <1>4, <1>5 DEF AfterRetries

(* A degrade is one request, and one stage less.                           *)
LEMMA DegradeStep ==
  ASSUME Kept, Degrade PROVE Kept'
<1>1. /\ pc = "send" /\ ~Claude /\ stage < 3 /\ Requested(FALSE) /\ stage' = NextStage
      /\ UNCHANGED <<setup, pc, attempt, effort, model, err, delay>>
  BY DEF Degrade, Degrades
<1>2. model = "primary" /\ ~history.refused /\ setup \in Setup /\ stage \in {1, 2} /\ setup.streams
  BY <1>1 DEF Kept, Shape, Refusals, Setup
<1>3. /\ history' \in [requests : Nat, slept : Int, refused : BOOLEAN, garbled : BOOLEAN]
      /\ history'.requests <= history.requests + 1 /\ history'.slept = history.slept
      /\ ~history'.refused
  BY <1>1, <1>2, RequestedFacts DEF Kept
<1>4. Shape'
  BY <1>1, <1>2, <1>3 DEF Kept, Shape, Pc, Claude, NextStage
<1>5. Stages = Stages' + 1 /\ Stages' \in Nat
  BY <1>1, <1>2 DEF Stages, NextStage, Claude, Setup
<1>6. RequestsLeft = RequestsLeft' + 1 /\ RequestsLeft' \in Nat
  <2>1. /\ RequestsLeft = Stages + Attempts(MaxAttempts - attempt) + Healing + Fallback
        /\ RequestsLeft' = Stages' + Attempts(MaxAttempts - attempt)' + Healing' + Fallback'
    BY <1>1, <1>2 DEF RequestsLeft
  <2>2. /\ Attempts(MaxAttempts - attempt)' = Attempts(MaxAttempts - attempt)
        /\ Healing' = Healing /\ Fallback' = Fallback
    BY <1>1 DEF Attempts, Healing, Fallback, Claude
  <2> QED
    BY <1>5, <2>1, <2>2, LeftFacts DEF Kept
<1>7. /\ SleepsLeft' = SleepsLeft /\ MaxRequests' = MaxRequests
      /\ MaxWait' = MaxWait /\ Longest' = Longest
  BY <1>1 DEF SleepsLeft, HealingSleeps, MaxRequests, MaxWait, Claude, Longest
<1>8. Budget'
  <2>1. history.requests \in Nat /\ history'.requests \in Nat /\ MaxRequests \in Nat
    BY <1>4, LeftFacts DEF Kept, Shape
  <2> QED
    BY <1>3, <1>6, <1>7, <2>1 DEF Kept, Budget
<1> QED
  BY <1>3, <1>4, <1>7, <1>8 DEF Kept, Patience, Refusals

(* A stream that opens is one request, too; its attempt may still fail.    *)
LEMMA OpenStreamStep ==
  ASSUME Kept, NEW r, OpenStream(r) PROVE Kept'
<1>1. /\ pc = "send" /\ pc' = "read" /\ Requested(FALSE)
      /\ UNCHANGED <<setup, attempt, stage, effort, model, err, delay>>
  BY DEF OpenStream, local
<1>2. /\ history' \in [requests : Nat, slept : Int, refused : BOOLEAN, garbled : BOOLEAN]
      /\ history'.requests <= history.requests + 1 /\ history'.slept = history.slept
      /\ history'.refused = history.refused
  BY <1>1, RequestedFacts DEF Kept, Shape
<1>3. Shape'
  BY <1>1, <1>2 DEF Kept, Shape, Pc, Claude
<1>4. RequestsLeft' + 1 <= RequestsLeft /\ RequestsLeft' \in Nat
  <2>1. /\ Attempts(MaxAttempts - attempt)' = Attempts(MaxAttempts - attempt)
        /\ Healing' = Healing /\ Fallback' = Fallback
    BY <1>1 DEF Attempts, Healing, Fallback, Claude
  <2> QED
    BY <1>1, <2>1, LeftFacts DEF RequestsLeft, Kept, Shape
<1>5. /\ SleepsLeft' = SleepsLeft /\ MaxRequests' = MaxRequests
      /\ MaxWait' = MaxWait /\ Longest' = Longest
  BY <1>1 DEF SleepsLeft, HealingSleeps, MaxRequests, MaxWait, Claude, Longest
<1>6. Budget'
  BY <1>2, <1>4, <1>5, LeftFacts DEF Kept, Budget, Shape
<1> QED
  BY <1>1, <1>2, <1>3, <1>5, <1>6 DEF Kept, Patience, Refusals

(* Steps that make no request and wait for none.                           *)
LEMMA SameStep ==
  ASSUME Kept, UNCHANGED <<setup, pc, local>>,
         history' \in [requests : Nat, slept : Int, refused : BOOLEAN, garbled : BOOLEAN],
         history'.requests = history.requests, history'.slept = history.slept,
         history'.refused = history.refused
  PROVE  Kept'
<1>1. UNCHANGED <<attempt, stage, effort, model, err, delay>>
  BY DEF local
<1>2. Shape'
  BY <1>1 DEF Kept, Shape, Claude, Longest
<1>3. /\ RequestsLeft' = RequestsLeft /\ SleepsLeft' = SleepsLeft
      /\ MaxRequests' = MaxRequests /\ MaxWait' = MaxWait /\ Longest' = Longest
  BY <1>1 DEF RequestsLeft, SleepsLeft, HealingSleeps, MaxRequests, MaxWait, Claude, Longest,
              Attempts, Healing, Fallback, Stages
<1> QED
  BY <1>1, <1>2, <1>3 DEF Kept, Budget, Patience, Refusals

(* The invariant is inductive.                                             *)
LEMMA KeptStep == Kept /\ [Next]_vars => Kept'
<1> SUFFICES ASSUME Kept, [Next]_vars PROVE Kept'
  OBVIOUS
<1>1. history \in [requests : Nat, slept : Int, refused : BOOLEAN, garbled : BOOLEAN]
  BY DEF Kept, Shape
<1>2. CASE UNCHANGED <<setup, pc, local, history>>
  BY <1>1, <1>2, SameStep
<1>3. CASE Check
  BY <1>3, CheckStep
<1>4. CASE Wake
  BY <1>4, WakeStep
<1>5. CASE AfterRetries
  BY <1>5, AfterRetriesStep
<1>6. CASE Degrade
  BY <1>6, DegradeStep
<1>7. CASE Terminate
  <2>1. pc = "read" /\ UNCHANGED <<setup, history>>
    BY <1>7 DEF Terminate
  <2>2. (\E response : Succeed(response)) \/ Failed(Guarded("fatal"), "failed", 0)
    BY <1>7 DEF Terminate
  <2> QED
    BY <1>1, <2>1, <2>2, SucceedStep, FailStep
<1>17. CASE Unreasoned
  <2>1. /\ pc = "read" /\ UNCHANGED setup /\ history' = [history EXCEPT !.garbled = TRUE]
        /\ \E response : Succeed(response)
    BY <1>17 DEF Unreasoned
  <2>2. /\ history' \in [requests : Nat, slept : Int, refused : BOOLEAN, garbled : BOOLEAN]
        /\ history'.requests <= history.requests + 1 /\ history'.slept = history.slept
        /\ history'.refused = history.refused /\ history'.requests = history.requests
    <3>1. /\ history'.requests = history.requests /\ history'.slept = history.slept
          /\ history'.refused = history.refused /\ history'.garbled = TRUE
          /\ history' \in [requests : Nat, slept : Int, refused : BOOLEAN, garbled : BOOLEAN]
      BY <1>1, <2>1
    <3>2. history.requests \in Nat
      BY <1>1
    <3> QED
      BY <3>1, <3>2
  <2>3. history'.requests <= history.requests + (IF pc = "send" THEN 1 ELSE 0)
    <3>1. history.requests \in Nat /\ pc # "send"
      BY <1>1, <2>1
    <3> QED
      BY <2>2, <3>1
  <2>4. PICK response : Succeed(response)
    BY <2>1
  <2> QED
    BY <2>1, <2>2, <2>3, <2>4, SucceedStep
<1>8. ASSUME NEW e, Break(e) PROVE Kept'
  <2>1. pc = "read" /\ UNCHANGED <<setup, history>> /\ Failed(Guarded(StreamClass(e)), e, 0)
    BY <1>8 DEF Break
  <2> QED
    BY <1>1, <2>1, FailStep
<1>9. ASSUME NEW i, Start(i) \/ Delta(i) PROVE Kept'
  BY <1>2, <1>9 DEF Start, Delta
<1>10. ASSUME NEW i, Garble(i) PROVE Kept'
  BY <1>1, <1>10, SameStep DEF Garble
<1>11. ASSUME NEW e, TransportError(e) PROVE Kept'
  <2>1. /\ pc = "send" /\ UNCHANGED setup /\ Failed(Guarded(ClassifyTransport(e)), e, 0)
        /\ UNCHANGED history \/ Requested(FALSE)
    BY <1>11 DEF TransportError
  <2>2. /\ history' \in [requests : Nat, slept : Int, refused : BOOLEAN, garbled : BOOLEAN]
        /\ history'.requests <= history.requests + 1 /\ history'.slept = history.slept
        /\ history'.refused = history.refused
    <3>1. CASE UNCHANGED history
      BY <1>1, <3>1 DEF Kept, Shape
    <3>2. CASE Requested(FALSE)
      BY <3>2, RequestedFacts DEF Kept, Shape
    <3> QED
      BY <2>1, <3>1, <3>2
  <2> QED
    BY <2>1, <2>2, FailStep
<1>12. ASSUME NEW status \in Statuses, NEW after \in RetryAfters, StatusError(status, after)
       PROVE  Kept'
  <2>1. \/ Guarded(ClassifyHTTP(status)) = "success" /\ Succeed(None)
        \/ \E e \in {"400", "effort", "status"} :
             /\ Failed(Guarded(ClassifyHTTP(status)), e, after)
             /\ status # 400 => e = "status"
    BY <1>12 DEF StatusError
  <2>2. pc = "send" /\ UNCHANGED setup /\ Requested(status = 401)
    BY <1>12 DEF StatusError
  <2>3. /\ history' \in [requests : Nat, slept : Int, refused : BOOLEAN, garbled : BOOLEAN]
        /\ history'.requests <= history.requests + 1 /\ history'.slept = history.slept
        /\ history'.refused <=> history.refused \/ (status = 401 /\ model = "primary")
    BY <2>2, RequestedFacts DEF Kept
  <2>4. status = 401 => Guarded(ClassifyHTTP(status)) = "fatal"
    BY DEF Guarded, ClassifyHTTP
  <2>5. after \in Nat
    BY ProviderAssumption
  <2>6. CASE Guarded(ClassifyHTTP(status)) = "success" /\ Succeed(None)
    <3>1. status # 401
      BY <2>4, <2>6
    <3> QED
      BY <2>2, <2>3, <2>6, <3>1, SucceedStep
  <2>7. ASSUME NEW e \in {"400", "effort", "status"}, Failed(Guarded(ClassifyHTTP(status)), e, after),
               status # 400 => e = "status"
        PROVE  Kept'
    <3>1. status = 401 => e = "status"
      BY <2>7
    <3> QED
      BY <2>2, <2>3, <2>4, <2>5, <2>7, <3>1, FailStep
  <2> QED
    BY <2>1, <2>6, <2>7
<1>13. ASSUME NEW r, Complete(r) PROVE Kept'
  <2>1. /\ pc = "send" /\ UNCHANGED setup /\ Requested(FALSE)
        /\ \/ \E response : Succeed(response)
           \/ Failed(Guarded("fatal"), "undecodable", 0)
           \/ Failed("transient", "reset", 0)
    BY <1>13 DEF Complete
  <2>2. /\ history' \in [requests : Nat, slept : Int, refused : BOOLEAN, garbled : BOOLEAN]
        /\ history'.requests <= history.requests + 1 /\ history'.slept = history.slept
        /\ history'.refused = history.refused
    BY <1>1, <2>1, RequestedFacts DEF Kept, Shape
  <2> QED
    BY <2>1, <2>2, SucceedStep, FailStep
<1>14. ASSUME NEW r, OpenStream(r) PROVE Kept'
  BY <1>14, OpenStreamStep
<1>15. CASE Cancel
  BY <1>2, <1>15 DEF Cancel
<1>16. CASE UNCHANGED vars
  BY <1>2, <1>16 DEF vars
<1> QED
  BY <1>3, <1>4, <1>5, <1>6, <1>7, <1>8, <1>9, <1>10, <1>11, <1>12, <1>13, <1>14, <1>15, <1>16, <1>17
     DEF Next, Work, Read

(* A call that was made has its whole budget.                              *)
LEMMA InitKept == Init => Kept
<1> SUFFICES ASSUME Init PROVE Kept
  OBVIOUS
<1>1. setup \in Setup /\ setup.streams \in BOOLEAN /\ setup.effort \in BOOLEAN
  BY ProviderAssumption DEF Init, Setup
<1>2. Shape
  BY <1>1, LongestFacts DEF Init, Shape, Pc
<1>3. Budget
  <2>1. RequestsLeft = Stages + Attempts(MaxAttempts - 1) + Healing + Fallback
    BY DEF Init, RequestsLeft
  <2>2. CASE Claude
    <3>1. Stages = 1 /\ Attempts(MaxAttempts - 1) = MaxAttempts - 1
      BY <2>2 DEF Stages, Attempts, Claude
    <3>2. Healing = IF setup.effort THEN MaxAttempts ELSE 0
      BY <2>2 DEF Healing, Init
    <3>3. history.requests = 0
      BY DEF Init
    <3>4. MaxRequests = MaxAttempts + (IF setup.effort THEN MaxAttempts ELSE 0) + Fallback
      BY <1>1, <2>2, Bounds DEF HealingOf
    <3>5. RequestsLeft = MaxRequests
      BY <1>2, <2>1, <3>1, <3>2, <3>4, LongestFacts, LeftFacts
    <3> QED
      BY <1>2, <3>3, <3>5, LeftFacts DEF Budget
  <2>3. CASE ~Claude
    <3>1. Stages + Attempts(MaxAttempts - 1) = Attempts(MaxAttempts)
      BY <1>1, <2>3, LongestFacts DEF Stages, Attempts, Init, Claude, Setup
    <3>2. Healing = 0 /\ Fallback = 0
      BY <2>3 DEF Healing, Fallback
    <3>3. history.requests = 0
      BY DEF Init
    <3> QED
      BY <1>1, <1>2, <2>1, <2>3, <3>1, <3>2, <3>3, Bounds, LeftFacts DEF Budget
  <2> QED
    BY <2>2, <2>3
<1>4. Patience
  <2>1. SleepsLeft = MaxAttempts - 1 + (IF Claude /\ setup.effort THEN MaxAttempts - 1 ELSE 0)
    BY DEF Init, SleepsLeft, HealingSleeps
  <2>2. SleepsLeft * Longest = MaxWait
    BY <1>1, <2>1, Bounds DEF HealingOf
  <2>3. history.slept = 0
    BY DEF Init
  <2> QED
    BY <1>2, <2>2, <2>3, LeftFacts DEF Patience
<1> QED
  BY <1>2, <1>3, <1>4 DEF Kept, Refusals, Init

-----------------------------------------------------------------------------
(* The property of the runs. *)

(* However the server answers, and whenever the caller cancels, a call     *)
(* makes no more requests and waits no longer than one retry budget allows *)
(* (retryWithPolicy, runWithRetryAndFallback, withStreamRetry), and a      *)
(* refused credential is not tried again.                                  *)
THEOREM RetriesSafe == Spec => []RetriesBounded
<1>1. Kept => RetriesBounded
  <2> SUFFICES ASSUME Kept PROVE RetriesBounded
    OBVIOUS
  <2>1. RequestsLeft \in Nat /\ SleepsLeft \in Nat /\ MaxRequests \in Nat /\ MaxWait \in Int
    BY LeftFacts DEF Kept
  <2>2. SleepsLeft * Longest \in Nat
    BY <2>1, LongestFacts
  <2>3. BudgetKept
    BY <2>1, <2>2 DEF Kept, Shape, Budget, Patience, BudgetKept
  <2> QED
    BY <2>3 DEF RetriesBounded, FailFast, Kept, Refusals
<1> QED
  BY <1>1, InitKept, KeptStep, PTL DEF Spec

-----------------------------------------------------------------------------
(* Streams: the inductive invariant. *)

Reply     == [blocks : Seq(Block), cut : BOOLEAN, silent : BOOLEAN]
Fragment  == Nat \X Nat \X Nat
Whole(i)  == [k \in 1 .. sent[i] |-> <<history.requests, i, k>>]

Booleans ==
    /\ setup \in Setups /\ delay \in 0 .. Longest
    /\ committed \in BOOLEAN /\ cancelled \in BOOLEAN /\ result.ok \in BOOLEAN

(* The accumulators have what was sent of this reply, in its order, unless *)
(* an event was garbled.                                                   *)
Accumulated ==
    /\ reply \in Reply /\ (reply.silent => setup.dialect = "chat") /\ DOMAIN acc \subseteq DOMAIN sent
    /\ pc = "read" =>
         /\ stage < 3 /\ sent \in [DOMAIN reply.blocks -> Nat]
         /\ \A i \in DOMAIN sent : i \notin DOMAIN acc => sent[i] = 0
         /\ ~history.garbled => \A i \in DOMAIN acc : acc[i] = Whole(i)

(* A call that showed text does not try again. *)
NoReplay ==
    /\ shown \in Seq(Fragment)
    /\ ~Claude => /\ ~committed => shown = <<>>
                  /\ committed => pc \in {"read", "failed", "done"}
                  /\ \A k \in DOMAIN shown : shown[k][1] = history.requests

(* What StreamEqualsUnstreamed expects of a stream that ends now. *)
Unstreamed   == Expected
AsUnstreamed == StreamEqualsUnstreamed /\ AssembledInputsValid

Held == Booleans /\ Accumulated /\ NoReplay /\ AsUnstreamed

(* A response that is returned without a stream, or from its last event.   *)
LEMMA HeldAtReturn ==
  ASSUME Kept, Held, pc \in {"send", "read"},
         UNCHANGED <<setup, stream, committed, cancelled, shown>>,
         NEW ok \in BOOLEAN, NEW e, NEW response, Return(ok, e, response),
         pc = "read" => history'.requests = history.requests,
         ok /\ stage < 3 =>
           /\ response # None /\ ~history'.garbled /\ (Claude \/ ~reply.cut) =>
                pc = "read" /\
                response = Unstreamed
           /\ setup.dialect # "responses" =>
                \A t \in DOMAIN response.tools :
                  LET input == response.tools[t].input
                  IN  input = <<>> \/ Len(input) = reply.blocks[response.tools[t].id].size
  PROVE  Held'
<1>1. /\ pc' = "done" /\ result' = [ok |-> ok, err |-> e, response |-> response]
      /\ UNCHANGED <<attempt, stage, effort, model, err, delay, reply, acc, sent>>
  BY DEF Return, local, stream
<1>2. Booleans'
  BY <1>1 DEF Held, Booleans, Longest
<1>3. Accumulated'
  BY <1>1 DEF Held, Accumulated, Reply
<1>4. NoReplay'
  BY <1>1 DEF Held, NoReplay, Claude
<1>5. AssembledInputsValid'
  BY <1>1 DEF AssembledInputsValid, ValidInputs, Returned, Claude
<1>6. StreamEqualsUnstreamed'
  <2>1. SUFFICES ASSUME ok, stage < 3, response # None, ~history'.garbled, Claude \/ ~reply.cut
                 PROVE  response = Unstreamed'
    BY <1>1 DEF StreamEqualsUnstreamed, Returned, Claude, Unstreamed
  <2>2. history'.requests = history.requests
    BY <2>1
  <2>3. Unstreamed' = Unstreamed
    BY <1>1, <2>2 DEF Unstreamed, Expected, InOnePiece, Claude
  <2> QED
    BY <2>1, <2>3
<1> QED
  BY <1>2, <1>3, <1>4, <1>5, <1>6 DEF Held, AsUnstreamed

(* The fragments of a block, and the tool calls as they are assembled and  *)
(* as they are when they come in one piece.                                *)
Entire(i) == [k \in 1 .. (reply.blocks[i].size - Cut(reply, i)) |-> <<history.requests, i, k>>]

ToolsAssembled ==
    [n \in DOMAIN Arrived("tool") |->
       [id |-> Arrived("tool")[n], input |-> Input(Arrived("tool")[n], acc[Arrived("tool")[n]])]]

ToolsWhole ==
    [m \in DOMAIN OfKind(reply.blocks, "tool") |->
       LET i == OfKind(reply.blocks, "tool")[m]
       IN  [id |-> i, input |-> IF Claude /\ Cut(reply, i) = 1 THEN <<>> ELSE Entire(i)]]

AllFinished   == \A i \in DOMAIN reply.blocks : Finished(i)

(* When every block is finished, the accumulators have the reply.          *)
LEMMA AssembledFacts ==
  ASSUME Held, pc = "read", AllFinished,
         NEW reason
  PROVE  /\ ~history.garbled /\ (Claude \/ ~reply.cut) /\ reason = Reason(reply) =>
               Assembled(reason) = Unstreamed
         /\ \A t \in DOMAIN Assembled(reason).tools :
              LET input == Assembled(reason).tools[t].input
              IN  input = <<>> \/ Len(input) = reply.blocks[Assembled(reason).tools[t].id].size
<1>1. /\ DOMAIN reply.blocks = 1 .. Len(reply.blocks) /\ Len(reply.blocks) \in Nat
      /\ \A i \in DOMAIN reply.blocks : reply.blocks[i].size \in Nat \ {0}
      /\ reply.cut \in BOOLEAN /\ DOMAIN sent = DOMAIN reply.blocks
      /\ DOMAIN acc = DOMAIN reply.blocks
  <2>1. reply \in Reply /\ DOMAIN acc \subseteq DOMAIN sent /\ DOMAIN sent = DOMAIN reply.blocks
    BY DEF Held, Accumulated
  <2>2. \A i \in DOMAIN reply.blocks : i \in DOMAIN acc
    BY DEF AllFinished, Finished
  <2>3. reply.blocks \in Seq(Block) /\ reply.cut \in BOOLEAN
    BY <2>1 DEF Reply
  <2>4. DOMAIN reply.blocks = 1 .. Len(reply.blocks) /\ Len(reply.blocks) \in Nat
    BY <2>3, LenProperties
  <2>5. \A i \in DOMAIN reply.blocks : reply.blocks[i].size \in Nat \ {0}
    <3>1. \A i \in DOMAIN reply.blocks : reply.blocks[i] \in Block
      BY <2>3, <2>4, ElementOfSeq
    <3> QED
      BY <3>1 DEF Block
  <2> QED
    BY <2>1, <2>2, <2>3, <2>4, <2>5
<1>2. \A kind : Arrived(kind) = OfKind(reply.blocks, kind)
  BY <1>1 DEF Arrived, OfKind
<1>3. ASSUME NEW kind, NEW n \in DOMAIN OfKind(reply.blocks, kind)
      PROVE  OfKind(reply.blocks, kind)[n] \in DOMAIN reply.blocks
  <2> DEFINE S == {i \in DOMAIN reply.blocks : reply.blocks[i].kind = kind}
  <2>1. S \subseteq 1 .. Len(reply.blocks) /\ Len(reply.blocks) \in Nat
    BY <1>1
  <2>2. IsFiniteSet(S) /\ S \in SUBSET Nat
    <3>1. IsFiniteSet(1 .. Len(reply.blocks)) /\ 1 .. Len(reply.blocks) \subseteq Nat
      BY <2>1, FS_Interval
    <3> HIDE DEF S
    <3> QED
      BY <2>1, <3>1, FS_Subset
  <2> QED
    BY <1>3, <2>2, InOrderFacts DEF OfKind
<1>4. Assembled(reason) =
        [text     |-> Nonempty([n \in DOMAIN Arrived("text") |-> acc[Arrived("text")[n]]]),
         thinking |-> Nonempty([n \in DOMAIN Arrived("thinking") |-> acc[Arrived("thinking")[n]]]),
         tools    |-> ToolsAssembled, stop |-> StopReason(ToolsAssembled, reason)]
  BY DEF Assembled, ToolsAssembled
<1>5. ASSUME NEW t \in DOMAIN ToolsAssembled
      PROVE  \/ ToolsAssembled[t].input = <<>>
             \/ Len(ToolsAssembled[t].input) = reply.blocks[ToolsAssembled[t].id].size
  BY <1>5 DEF Input, ToolsAssembled
<1>6. ASSUME ~history.garbled, Claude \/ ~reply.cut, reason = Reason(reply)
      PROVE  Assembled(reason) = Unstreamed
  <2>1. \A i \in DOMAIN reply.blocks : acc[i] = Entire(i)
    BY <1>1, <1>6 DEF Held, Accumulated, AllFinished, Finished, Size, Whole, Entire
  <2>2. ASSUME NEW kind
        PROVE  [n \in DOMAIN Arrived(kind) |-> acc[Arrived(kind)[n]]]
                 = [m \in DOMAIN OfKind(reply.blocks, kind) |->
                      Entire(OfKind(reply.blocks, kind)[m])]
    BY <1>2, <1>3, <2>1
  <2>3. ToolsAssembled = ToolsWhole
    <3>1. ASSUME NEW i \in DOMAIN reply.blocks
          PROVE  Input(i, acc[i]) = IF Claude /\ Cut(reply, i) = 1 THEN <<>> ELSE Entire(i)
      <4>1. reply.blocks[i].size \in Nat \ {0}
        BY <1>1
      <4>2. Cut(reply, i) \in {0, 1} /\ (Cut(reply, i) = 1 => reply.cut)
        BY DEF Cut
      <4>3. Len(Entire(i)) = reply.blocks[i].size - Cut(reply, i)
        BY <4>1, <4>2 DEF Entire
      <4> QED
        BY <1>6, <2>1, <4>1, <4>2, <4>3 DEF Input
    <3> QED
      BY <1>2, <1>3, <3>1 DEF ToolsAssembled, ToolsWhole
  <2>4. StopReason(ToolsAssembled, reason) =
          IF reply.silent /\ ToolsAssembled # <<>> THEN "tool_use" ELSE MapFinishReason(Reason(reply))
    <3>1. CASE reply.silent
      BY <1>6, <3>1 DEF StopReason, Reason, MapFinishReason
    <3>2. CASE ~reply.silent
      BY <1>6, <3>2 DEF StopReason, Reason, MapFinishReason
    <3> QED
      BY <3>1, <3>2
  <2>5. InOnePiece(reply, history.requests) =
          [text     |-> Nonempty([m \in DOMAIN OfKind(reply.blocks, "text") |->
                                    Entire(OfKind(reply.blocks, "text")[m])]),
           thinking |-> Nonempty([m \in DOMAIN OfKind(reply.blocks, "thinking") |->
                                    Entire(OfKind(reply.blocks, "thinking")[m])]),
           tools    |-> ToolsWhole, stop |-> MapFinishReason(Reason(reply))]
    BY DEF InOnePiece, ToolsWhole, Entire
  <2>6. CASE reply.silent /\ ToolsWhole # <<>>
    <3>1. Unstreamed = [InOnePiece(reply, history.requests) EXCEPT !.stop = "tool_use"]
      BY <2>5, <2>6 DEF Unstreamed, Expected
    <3> QED
      BY <1>4, <2>2, <2>3, <2>4, <2>5, <2>6, <3>1
  <2>7. CASE ~(reply.silent /\ ToolsWhole # <<>>)
    <3>1. Unstreamed = InOnePiece(reply, history.requests)
      BY <2>5, <2>7 DEF Unstreamed, Expected
    <3> QED
      BY <1>4, <2>2, <2>3, <2>4, <2>5, <2>7, <3>1
  <2> QED
    BY <2>6, <2>7
<1>7. Assembled(reason).tools = ToolsAssembled
  BY <1>4
<1> QED
  BY <1>5, <1>6, <1>7

-----------------------------------------------------------------------------
(* The steps of a stream. *)

(* A step that leaves what was sent, shown and returned.                   *)
LEMMA HeldStays ==
  ASSUME Held, pc \notin {"read", "done"}, pc' \notin {"read", "done"},
         ~Claude /\ committed => pc' = "failed",
         ~Claude /\ committed => history'.requests = history.requests,
         UNCHANGED <<setup, stream, committed, shown, result>>,
         cancelled' \in BOOLEAN, delay' \in 0 .. Longest
  PROVE  Held'
<1>1. UNCHANGED <<reply, acc, sent>>
  BY DEF stream
<1>2. Booleans'
  BY DEF Held, Booleans, Longest
<1>3. Accumulated'
  BY <1>1 DEF Held, Accumulated, Reply
<1>4. NoReplay'
  <2>1. shown \in Seq(Fragment) /\ (~Claude /\ ~committed => shown = <<>>)
    BY DEF Held, NoReplay
  <2>2. CASE Claude
    BY <2>1, <2>2 DEF NoReplay, Claude
  <2>3. CASE ~Claude /\ ~committed
    BY <2>1, <2>3 DEF NoReplay, Claude
  <2>4. CASE ~Claude /\ committed
    BY <2>4 DEF Held, NoReplay, Claude
  <2> QED
    BY <2>2, <2>3, <2>4
<1>5. AsUnstreamed'
  BY DEF AsUnstreamed, StreamEqualsUnstreamed, AssembledInputsValid, Returned
<1> QED
  BY <1>2, <1>3, <1>4, <1>5 DEF Held

(* A failed attempt after text was shown is not repeated.                  *)
LEMMA HeldAtFailure ==
  ASSUME Kept, Held, pc \in {"send", "read"}, NEW class, NEW e, NEW after \in Nat,
         Failed(class, e, after), UNCHANGED <<setup, stream, committed, cancelled, shown>>,
         ~Claude /\ committed => class = "fatal",
         pc = "read" => history' = history
  PROVE  Held'
<1>1. CASE model = "secondary"
  <2>1. Return(FALSE, err, None)
    BY <1>1 DEF Failed
  <2> QED
    BY <2>1, HeldAtReturn
<1>2. CASE model = "primary"
  <2>1. ~Claude /\ committed => pc = "read"
    BY DEF Held, NoReplay
  <2>2. /\ pc' \in {"failed", "sleep"} /\ (~Claude /\ committed => pc' = "failed")
        /\ result' = result /\ delay' \in 0 .. Longest
    <3>1. CASE class = "fatal" \/ Exhausted
      BY <1>2, <3>1 DEF Failed, Held, Booleans
    <3>2. CASE ~(class = "fatal" \/ Exhausted)
      <4>1. pc' = "sleep" /\ delay' \in BackoffFor(attempt, after) /\ result' = result
        BY <1>2, <3>2 DEF Failed
      <4> QED
        BY <3>2, <4>1, BackoffFacts DEF Kept, Shape
    <3> QED
      BY <3>1, <3>2
  <2>3. CASE pc = "send"
    BY <2>1, <2>2, <2>3, HeldStays DEF Held, Booleans
  <2>4. CASE pc = "read"
    <3>1. UNCHANGED <<reply, acc, sent>>
      BY DEF stream
    <3>2. Booleans'
      BY <2>2 DEF Held, Booleans, Longest
    <3>3. Accumulated'
      BY <2>2, <3>1 DEF Held, Accumulated, Reply
    <3>4. NoReplay'
      BY <2>2, <2>4 DEF Held, NoReplay, Claude
    <3>5. AsUnstreamed'
      BY <2>2 DEF AsUnstreamed, StreamEqualsUnstreamed, AssembledInputsValid, Returned
    <3> QED
      BY <3>2, <3>3, <3>4, <3>5 DEF Held
  <2> QED
    BY <2>3, <2>4
<1> QED
  BY <1>1, <1>2 DEF Kept, Shape

(* The end of a stream returns the assembled reply, the final event's own  *)
(* one, or its error.                                                      *)
LEMMA HeldAtEnd ==
  ASSUME Kept, Held, Terminate \/ Unreasoned
  PROVE  Held'
<1>1. /\ pc = "read" /\ UNCHANGED <<setup, stream, committed, cancelled, shown>>
      /\ history'.requests = history.requests /\ AllFinished
  BY DEF Terminate, Unreasoned, AllFinished, Kept, Shape
<1>2. stage < 3
  BY <1>1 DEF Held, Accumulated
<1>3. CASE setup.dialect = "responses" /\ Succeed(InOnePiece(reply, history.requests)) /\ history' = history
  <2>1. ~reply.silent => Unstreamed = InOnePiece(reply, history.requests)
    BY DEF Unstreamed, Expected
  <2>2. ~reply.silent
    BY <1>3 DEF Held, Accumulated
  <2> DEFINE response == InOnePiece(reply, history.requests)
  <2>3. Return(TRUE, NoError, response) /\ response = Unstreamed
    BY <1>3, <2>1, <2>2 DEF Succeed
  <2> HIDE DEF response
  <2> QED
    BY <1>1, <1>3, <2>3, HeldAtReturn
<1>4. CASE Failed(Guarded("fatal"), "failed", 0) /\ history' = history
  BY <1>1, <1>4, HeldAtFailure DEF Guarded
<1>5. ASSUME NEW reason, Succeed(Assembled(reason)), ~history'.garbled => reason = Reason(reply) /\ ~history.garbled
      PROVE Held'
  <2> DEFINE response == Assembled(reason)
  <2>1. Return(TRUE, NoError, response)
    BY <1>5 DEF Succeed
  <2>2. /\ ~history'.garbled /\ (Claude \/ ~reply.cut) => response = Unstreamed
        /\ \A t \in DOMAIN response.tools :
             LET input == response.tools[t].input
             IN  input = <<>> \/ Len(input) = reply.blocks[response.tools[t].id].size
    BY <1>1, <1>5, AssembledFacts
  <2> HIDE DEF response
  <2> QED
    BY <1>1, <2>1, <2>2, HeldAtReturn
<1>6. CASE Succeed(Assembled(Reason(reply))) /\ history' = history
  BY <1>5, <1>6
<1>7. CASE Unreasoned
  <2>1. history'.garbled /\ Succeed(Assembled(""))
    BY <1>7 DEF Unreasoned, Kept, Shape
  <2> QED
    BY <1>5, <2>1
<1> QED
  BY <1>3, <1>4, <1>6, <1>7 DEF Terminate

(* A new stream starts from nothing.                                       *)
LEMMA HeldAtOpen ==
  ASSUME Kept, Held, NEW r \in Reply, r.silent => setup.dialect = "chat", OpenStream(r)
  PROVE  Held'
<1>1. /\ pc = "send" /\ stage < 3 /\ pc' = "read" /\ reply' = r /\ acc' = <<>>
      /\ sent' = [i \in DOMAIN r.blocks |-> 0]
      /\ UNCHANGED <<setup, attempt, stage, effort, model, err, delay>>
      /\ UNCHANGED <<committed, cancelled, result, shown>>
  BY DEF OpenStream, local
<1>2. Booleans'
  BY <1>1 DEF Held, Booleans, Longest
<1>3. Accumulated'
  BY <1>1 DEF Accumulated, Reply
<1>4. NoReplay'
  BY <1>1 DEF Held, NoReplay, Claude
<1>5. AsUnstreamed'
  BY <1>1 DEF AsUnstreamed, StreamEqualsUnstreamed, AssembledInputsValid, Returned
<1> QED
  BY <1>2, <1>3, <1>4, <1>5 DEF Held

(* A block starts without a fragment.                                      *)
LEMMA HeldAtStart ==
  ASSUME Kept, Held, NEW i, Start(i)
  PROVE  Held'
<1>1. /\ pc = "read" /\ i \in DOMAIN reply.blocks \ DOMAIN acc
      /\ acc' = [j \in DOMAIN acc \union {i} |-> IF j = i THEN <<>> ELSE acc[j]]
      /\ UNCHANGED <<setup, pc, attempt, stage, effort, model, err, delay, reply, sent>>
      /\ UNCHANGED <<committed, cancelled, result, shown, history>>
  BY DEF Start, local
<1>2. Booleans'
  BY <1>1 DEF Held, Booleans, Longest
<1>3. Accumulated'
  <2>1. /\ reply \in Reply /\ DOMAIN acc \subseteq DOMAIN sent /\ stage < 3
        /\ sent \in [DOMAIN reply.blocks -> Nat]
        /\ \A j \in DOMAIN sent : j \notin DOMAIN acc => sent[j] = 0
        /\ ~history.garbled => \A j \in DOMAIN acc : acc[j] = Whole(j)
    BY <1>1 DEF Held, Accumulated
  <2>2. DOMAIN acc' = DOMAIN acc \union {i} /\ DOMAIN sent = DOMAIN reply.blocks
    BY <1>1, <2>1
  <2>3. \A j : Whole(j)' = Whole(j)
    BY <1>1 DEF Whole
  <2>4. Whole(i) = <<>>
    BY <1>1, <2>1, <2>2 DEF Whole
  <2>5. ~history.garbled => \A j \in DOMAIN acc' : acc'[j] = Whole(j)
    BY <1>1, <2>1, <2>2, <2>4
  <2> QED
    BY <1>1, <2>1, <2>2, <2>3, <2>5 DEF Held, Accumulated, Reply
<1>4. NoReplay'
  BY <1>1 DEF Held, NoReplay, Claude
<1>5. AsUnstreamed'
  BY <1>1 DEF AsUnstreamed, StreamEqualsUnstreamed, AssembledInputsValid, Returned
<1> QED
  BY <1>2, <1>3, <1>4, <1>5 DEF Held

(* A fragment is the next one of its block.                                *)
LEMMA HeldAtDelta ==
  ASSUME Kept, Held, NEW i, Delta(i)
  PROVE  Held'
<1> DEFINE f == <<history.requests, i, sent[i] + 1>>
<1>1. /\ pc = "read" /\ i \in DOMAIN acc /\ sent' = [sent EXCEPT ![i] = @ + 1]
      /\ acc' = [acc EXCEPT ![i] = Append(@, f)]
      /\ \/ shown' = Append(shown, f) /\ committed' = TRUE
         \/ UNCHANGED <<shown, committed>>
      /\ UNCHANGED <<setup, pc, attempt, stage, effort, model, err, delay>>
      /\ UNCHANGED <<reply, cancelled, result, history>>
  BY DEF Delta, local
<1>2. /\ reply \in Reply /\ DOMAIN acc \subseteq DOMAIN sent /\ stage < 3
      /\ sent \in [DOMAIN reply.blocks -> Nat] /\ DOMAIN sent = DOMAIN reply.blocks
      /\ \A j \in DOMAIN sent : j \notin DOMAIN acc => sent[j] = 0
      /\ ~history.garbled => \A j \in DOMAIN acc : acc[j] = Whole(j)
  BY <1>1 DEF Held, Accumulated
<1>3. /\ i \in Nat /\ sent[i] \in Nat /\ history.requests \in Nat /\ f \in Fragment
      /\ f[1] = history.requests
  <2>1. reply.blocks \in Seq(Block)
    BY <1>2 DEF Reply
  <2>2. DOMAIN reply.blocks \subseteq Nat
    BY <2>1, LenProperties
  <2> QED
    BY <1>1, <1>2, <2>2 DEF Fragment, Kept, Shape
<1>4. Booleans'
  BY <1>1 DEF Held, Booleans, Longest
<1>5. Accumulated'
  <2>1. DOMAIN acc' = DOMAIN acc /\ sent' \in [DOMAIN reply.blocks -> Nat]
    BY <1>1, <1>2, <1>3
  <2>2. ASSUME ~history.garbled, NEW j \in DOMAIN acc PROVE acc'[j] = Whole(j)'
    <3>1. CASE j # i
      BY <1>1, <1>2, <2>2, <3>1 DEF Whole
    <3>2. CASE j = i
      <4> DEFINE n == sent[i]
      <4>1. acc[i] = [k \in 1 .. n |-> <<history.requests, i, k>>] /\ n \in Nat
        BY <1>1, <1>2, <1>3, <2>2 DEF Whole
      <4>2. Whole(i)' = [k \in 1 .. n + 1 |-> <<history.requests, i, k>>]
        BY <1>1, <1>2 DEF Whole
      <4>3. acc'[i] = Append(acc[i], <<history.requests, i, n + 1>>)
        BY <1>1
      <4> HIDE DEF n
      <4>4. Append([k \in 1 .. n |-> <<history.requests, i, k>>], <<history.requests, i, n + 1>>)
              = [k \in 1 .. n + 1 |-> <<history.requests, i, k>>]
        BY <4>1
      <4> QED
        BY <3>2, <4>1, <4>2, <4>3, <4>4
    <3> QED
      BY <3>1, <3>2
  <2>3. \A j \in DOMAIN sent' : j \notin DOMAIN acc' => sent'[j] = 0
    BY <1>1, <1>2, <2>1
  <2> QED
    BY <1>1, <1>2, <2>1, <2>2, <2>3 DEF Held, Accumulated, Reply
<1>6. NoReplay'
  <2>1. CASE UNCHANGED <<shown, committed>>
    BY <1>1, <2>1 DEF Held, NoReplay, Claude
  <2>2. CASE shown' = Append(shown, f) /\ committed' = TRUE
    <3>1. shown \in Seq(Fragment)
      BY DEF Held, NoReplay
    <3> HIDE DEF f
    <3>2. /\ shown' \in Seq(Fragment)
          /\ \A k \in DOMAIN shown' :
               (k \in DOMAIN shown /\ shown'[k] = shown[k]) \/ shown'[k] = f
      BY <1>3, <2>2, <3>1, AppendProperties
    <3> QED
      BY <1>1, <1>3, <2>2, <3>2 DEF Held, NoReplay, Claude
  <2> QED
    BY <1>1, <2>1, <2>2
<1>7. AsUnstreamed'
  BY <1>1 DEF AsUnstreamed, StreamEqualsUnstreamed, AssembledInputsValid, Returned
<1> QED
  BY <1>4, <1>5, <1>6, <1>7 DEF Held

(* A garbled event is lost, and noted.                                     *)
LEMMA HeldAtGarble ==
  ASSUME Kept, Held, NEW i, Garble(i)
  PROVE  Held'
<1>1. /\ pc = "read" /\ i \in DOMAIN acc /\ sent' = [sent EXCEPT ![i] = @ + 1]
      /\ history' = [history EXCEPT !.garbled = TRUE]
      /\ UNCHANGED <<setup, pc, attempt, stage, effort, model, err, delay>>
      /\ UNCHANGED <<reply, acc, committed, cancelled, result, shown>>
  BY DEF Garble, local
<1>2. history'.garbled /\ history'.requests = history.requests
  BY <1>1 DEF Kept, Shape
<1>3. Booleans'
  BY <1>1 DEF Held, Booleans, Longest
<1>4. Accumulated'
  <2>1. /\ reply \in Reply /\ DOMAIN acc \subseteq DOMAIN sent /\ stage < 3
        /\ sent \in [DOMAIN reply.blocks -> Nat] /\ DOMAIN sent = DOMAIN reply.blocks
        /\ \A j \in DOMAIN sent : j \notin DOMAIN acc => sent[j] = 0
    BY <1>1 DEF Held, Accumulated
  <2>2. /\ sent' \in [DOMAIN reply.blocks -> Nat]
        /\ \A j \in DOMAIN sent' : j # i => sent'[j] = sent[j]
    BY <1>1, <2>1
  <2> QED
    BY <1>1, <1>2, <2>1, <2>2 DEF Held, Accumulated, Reply
<1>5. NoReplay'
  BY <1>1, <1>2 DEF Held, NoReplay, Claude
<1>6. AsUnstreamed'
  BY <1>1 DEF AsUnstreamed, StreamEqualsUnstreamed, AssembledInputsValid, Returned
<1> QED
  BY <1>3, <1>4, <1>5, <1>6 DEF Held

(* What a stream holds stays true.                                         *)
LEMMA HeldStep == Kept /\ Held /\ [Next]_vars => Held'
<1> SUFFICES ASSUME Kept, Held, [Next]_vars PROVE Held'
  OBVIOUS
<1>1. Longest \in Nat /\ delay \in 0 .. Longest /\ cancelled \in BOOLEAN /\ setup \in Setups
  BY LongestFacts DEF Held, Booleans
<1>2. ~Claude /\ committed => pc \in {"read", "failed", "done"}
  BY DEF Held, NoReplay
<1>3. CASE Check
  BY <1>1, <1>2, <1>3, HeldStays DEF Check
<1>4. CASE Wake
  <2>1. /\ pc = "sleep" /\ pc' \in {"failed", "check"} /\ delay' \in {delay, 0}
        /\ ~(~Claude /\ committed)
        /\ UNCHANGED <<setup, stream, committed, cancelled, shown, result>>
    BY <1>2, <1>4 DEF Wake
  <2> QED
    BY <1>1, <2>1, HeldStays
<1>5. CASE AfterRetries
  <2>1. pc = "failed" /\ UNCHANGED <<setup, stream, committed, cancelled, shown, history>>
    BY <1>5 DEF AfterRetries
  <2>2. CASE Claude /\ pc' \in {"check", "send"} /\ UNCHANGED <<delay, result>>
    BY <1>1, <2>1, <2>2, HeldStays
  <2>3. CASE Return(FALSE, err, None)
    <3>1. /\ pc' = "done" /\ ~result'.ok /\ result'.ok \in BOOLEAN
          /\ UNCHANGED <<delay, reply, acc, sent>>
      BY <2>1, <2>3 DEF Return, local, stream
    <3>2. Booleans'
      BY <1>1, <2>1, <3>1 DEF Held, Booleans, Longest
    <3>3. Accumulated'
      BY <2>1, <3>1 DEF Held, Accumulated, Reply
    <3>4. NoReplay'
      BY <2>1, <3>1 DEF Held, NoReplay, Claude
    <3>5. AsUnstreamed'
      BY <3>1 DEF AsUnstreamed, StreamEqualsUnstreamed, AssembledInputsValid, Returned
    <3> QED
      BY <3>2, <3>3, <3>4, <3>5 DEF Held
  <2> QED
    BY <1>5, <2>2, <2>3 DEF AfterRetries
<1>6. CASE Degrade
  <2>1. /\ pc = "send" /\ pc' = "send"
        /\ UNCHANGED <<setup, stream, committed, cancelled, shown, delay, result>>
    BY <1>6 DEF Degrade
  <2> QED
    BY <1>1, <1>2, <2>1, HeldStays
<1>7. CASE Terminate \/ Unreasoned
  BY <1>7, HeldAtEnd
<1>8. ASSUME NEW e, Break(e) PROVE Held'
  <2>1. /\ pc = "read" /\ Failed(Guarded(StreamClass(e)), e, 0)
        /\ UNCHANGED <<setup, stream, committed, cancelled, shown, history>>
    BY <1>8 DEF Break
  <2>2. ~Claude /\ committed => Guarded(StreamClass(e)) = "fatal"
    BY DEF Guarded
  <2> QED
    BY <2>1, <2>2, HeldAtFailure
<1>9. ASSUME NEW i, Start(i) \/ Delta(i) \/ Garble(i) PROVE Held'
  BY <1>9, HeldAtStart, HeldAtDelta, HeldAtGarble
<1>10. ASSUME NEW e, TransportError(e) PROVE Held'
  <2>1. /\ pc = "send" /\ Failed(Guarded(ClassifyTransport(e)), e, 0)
        /\ UNCHANGED <<setup, stream, committed, cancelled, shown>>
    BY <1>10 DEF TransportError
  <2>2. ~Claude /\ committed => Guarded(ClassifyTransport(e)) = "fatal"
    BY DEF Guarded
  <2> QED
    BY <2>1, <2>2, HeldAtFailure
<1>11. ASSUME NEW status \in Statuses, NEW after \in RetryAfters, StatusError(status, after)
       PROVE  Held'
  <2>1. \/ Return(TRUE, NoError, None)
        \/ \E e \in {"400", "effort", "status"} : Failed(Guarded(ClassifyHTTP(status)), e, after)
    <3>1. \/ Succeed(None)
          \/ \E e \in {"400", "effort", "status"} : Failed(Guarded(ClassifyHTTP(status)), e, after)
      BY <1>11 DEF StatusError
    <3> QED
      BY <3>1 DEF Succeed
  <2>2. pc = "send" /\ UNCHANGED <<setup, stream, committed, cancelled, shown>>
    BY <1>11 DEF StatusError
  <2>3. ~Claude /\ committed => Guarded(ClassifyHTTP(status)) = "fatal"
    BY DEF Guarded
  <2>4. after \in Nat
    BY ProviderAssumption
  <2>5. CASE Return(TRUE, NoError, None)
    <3>1. DOMAIN None.tools = {}
      BY DEF None
    <3> QED
      BY <2>2, <2>5, <3>1, HeldAtReturn
  <2> QED
    BY <2>1, <2>2, <2>3, <2>4, <2>5, HeldAtFailure
<1>12. ASSUME NEW r, Complete(r) PROVE Held'
  <2>1. /\ pc = "send" /\ stage = 3 /\ UNCHANGED <<setup, stream, committed, cancelled, shown>>
    BY <1>12 DEF Complete
  <2>2. CASE \E response : Succeed(response)
    <3>1. PICK response : Return(TRUE, NoError, response)
      BY <2>2 DEF Succeed
    <3> QED
      <4>1. ~(stage < 3) /\ pc # "read"
        BY <2>1
      <4> DEFINE ok == TRUE
      <4>2. ok \in BOOLEAN /\ ~(ok /\ stage < 3) /\ Return(ok, NoError, response)
        BY <3>1, <4>1
      <4> HIDE DEF ok
      <4> QED
        BY <2>1, <4>1, <4>2, HeldAtReturn
  <2>3. CASE Failed(Guarded("fatal"), "undecodable", 0)
    BY <2>1, <2>3, HeldAtFailure DEF Guarded
  <2>4. CASE Claude /\ Failed("transient", "reset", 0)
    BY <2>1, <2>4, HeldAtFailure
  <2> QED
    BY <1>12, <2>2, <2>3, <2>4 DEF Complete
<1>13. ASSUME NEW r \in Replies(setup.dialect), OpenStream(r) PROVE Held'
  <2>1. r \in Reply /\ (r.silent => setup.dialect = "chat")
    BY <1>1, <1>13, ReplyAssumption DEF Reply
  <2> QED
    BY <1>13, <2>1, HeldAtOpen
<1>14. CASE Cancel \/ UNCHANGED vars
  <2>1. /\ cancelled' \in BOOLEAN
        /\ UNCHANGED <<setup, pc, stage, delay, reply, acc, sent>>
        /\ UNCHANGED <<committed, result, shown, history>>
    BY <1>1, <1>14 DEF Cancel, vars, local, stream
  <2>2. Booleans'
    BY <1>1, <2>1 DEF Held, Booleans, Longest
  <2>3. Accumulated'
    BY <2>1 DEF Held, Accumulated, Whole, Reply
  <2>4. NoReplay'
    BY <2>1 DEF Held, NoReplay, Claude
  <2>5. AsUnstreamed'
    <3>1. Unstreamed' = Unstreamed
      BY <2>1 DEF Unstreamed, Expected, InOnePiece, Claude
    <3> QED
      BY <2>1, <3>1 DEF Held, AsUnstreamed, StreamEqualsUnstreamed, AssembledInputsValid, Returned,
                        Unstreamed, ValidInputs, Claude
  <2> QED
    BY <2>2, <2>3, <2>4, <2>5 DEF Held
<1> QED
  BY <1>3, <1>4, <1>5, <1>6, <1>7, <1>8, <1>9, <1>10, <1>11, <1>12, <1>13, <1>14
     DEF Next, Work, Read

(* The response of a streamed call is the one the same reply gives in one  *)
(* piece, no tool input that was cut on its way is returned, and what the  *)
(* user saw is not shown again (finalize of parseClaudeStream and          *)
(* parseOpenAIStream, withStreamRetry).                                    *)
THEOREM RepliesAssembled == Spec => []RepliesWhole
<1>1. Init => Held
  <2> SUFFICES ASSUME Init PROVE Held
    OBVIOUS
  <2>1. Booleans
    <3>1. setup \in Setups /\ delay = 0 /\ ~committed /\ ~cancelled /\ ~result.ok
          /\ {committed, cancelled, result.ok} \subseteq BOOLEAN
      BY DEF Init
    <3>2. 0 \in 0 .. Longest
      BY LongestFacts
    <3> QED
      BY <3>1, <3>2 DEF Booleans
  <2>2. Accumulated
    BY DEF Init, Accumulated, Reply, NoReply
  <2>3. NoReplay
    BY DEF Init, NoReplay
  <2>4. AsUnstreamed
    BY DEF Init, AsUnstreamed, StreamEqualsUnstreamed, AssembledInputsValid, Returned
  <2> QED
    BY <2>1, <2>2, <2>3, <2>4 DEF Held
<1>2. Kept /\ Held => RepliesWhole
  <2> SUFFICES ASSUME Kept, Held PROVE RepliesWhole
    OBVIOUS
  <2>1. TypeOK
    BY DEF Kept, Shape, Held, Booleans, Accumulated, TypeOK, Pc, Longest
  <2>2. ShownOnce
    BY DEF Held, NoReplay, ShownOnce
  <2> QED
    BY <2>1, <2>2 DEF Held, AsUnstreamed, RepliesWhole
<1>3. Spec => []Kept
  BY InitKept, KeptStep, PTL DEF Spec
<1> QED
  BY <1>1, <1>2, <1>3, HeldStep, PTL DEF Spec

-----------------------------------------------------------------------------
(* SecretNAT.  Pieces, turns and tables.                                   *)
Styles == {"semantic", "private"}
Token  == [kind : {"token"}, style : Styles, n : Nat]
Piece  == [kind : {"value"}, value : Values] \cup [kind : {"ref"}, name : Names] \cup Token
Turn   == [shown : Piece, stood : Values, table : Nat, kept : BOOLEAN]
Naming == UNION {[S -> Token] : S \in SUBSET Values}
Table  == [token : Naming, seq : Nat, idle : BOOLEAN, override : Secrets!Overrides]
Known  == UNION {[S -> Values] : S \in SUBSET Names}

(* A table names what the detectors match, each value by a number of its   *)
(* own, with the numbers from one on.                                      *)
Numbered(s, t) ==
    /\ DOMAIN t.token \subseteq s.detectable
    /\ t.seq = Cardinality(DOMAIN t.token)
    /\ \A v \in DOMAIN t.token :
          /\ t.token[v].style \in s.modes /\ t.token[v].n \in 1 .. t.seq
          /\ \A w \in DOMAIN t.token : t.token[w].n = t.token[v].n => w = v

(* A later state of a table. *)
Extends(t, u) == \A v \in DOMAIN t.token : v \in DOMAIN u.token /\ u.token[v] = t.token[v]

NamesIn(k, v)  == {n \in DOMAIN k : k[n] = v}
Plain(s, k, p) == p.kind = "value" /\ NamesIn(k, p.value) = {} /\ p.value \in s.detectable

(* What a piece is shown as, under a table and the secrets then known.     *)
ShownAs(s, t, k, p) ==
    IF p.kind # "value" THEN p
    ELSE IF NamesIn(k, p.value) # {} THEN Secrets!Ref(CHOOSE n \in NamesIn(k, p.value) : TRUE)
    ELSE IF Plain(s, k, p) THEN t.token[p.value] ELSE p

Setting ==
    /\ natSetup \in NatSetups
    /\ known \in Known /\ enabled \in BOOLEAN /\ mode \in natSetup.modes
    /\ table \in Seq(Table) /\ \A i \in 1 .. Len(table) : Numbered(natSetup, table[i])

(* A run and a session of different conversations have different tables,   *)
(* and a run's is never newer than its session's.                          *)
Handles ==
    /\ sessions \in [Convs -> 0 .. Len(table)] /\ held \in [Convs -> 0 .. Len(table)]
    /\ \A c \in Convs : held[c] = 0 => sessions[c] = 0
    /\ \A c \in Convs : sessions[c] # 0 => held[c] <= sessions[c]
    /\ \A c, d \in Convs : c # d =>
          /\ held[c] # 0 => held[c] # held[d] /\ held[c] # sessions[d]
          /\ sessions[c] # 0 => sessions[c] # sessions[d]

(* A turn shows what it stood for, or its token in the table of its time.  *)
Told(ts, x) ==
    /\ x.shown.kind = "value" => x.shown = Secrets!Raw(x.stood)
    /\ x.shown.kind = "token" =>
          x.stood \in DOMAIN ts[x.table].token /\ ts[x.table].token[x.stood] = x.shown

Written ==
    /\ conv \in [Convs -> Seq(Turn)]
    /\ \A c \in Convs : \A i \in 1 .. Len(conv[c]) :
          /\ conv[c][i].table \in 1 .. Len(table) /\ Told(table, conv[c][i])
          /\ held[c] # 0 => conv[c][i].table <= held[c]

(* A request that went out says what its turns are shown as, under what it *)
(* was made, even now that the table has grown.                            *)
SentUnder(c, h, k, e) ==
    /\ wire[c].turns \in Seq(Piece) /\ Len(wire[c].turns) <= Len(conv[c])
    /\ held[c] # 0 /\ h \in 1 .. held[c] /\ k \in Known
    /\ \A i \in 1 .. Len(wire[c].turns) :
          /\ conv[c][i].table <= h
          /\ wire[c].turns[i] = IF e /\ ~conv[c][i].kept THEN ShownAs(natSetup, table[h], k, conv[c][i].shown)
                                                         ELSE conv[c][i].shown
          /\ e /\ ~conv[c][i].kept /\ Plain(natSetup, k, conv[c][i].shown)
                => conv[c][i].shown.value \in DOMAIN table[h].token

Sent ==
    /\ wire = [c \in Convs |-> wire[c]]
    /\ \A c \in Convs : wire[c].turns # <<>> =>
          \E h, k, e : wire[c].under = <<h, k, e>> /\ SentUnder(c, h, k, e)

(* What went out in clear is counted, and the model writes nothing where   *)
(* nothing is rewritten that it was not told.                              *)
Repeated ==
    /\ told = [c \in Convs |-> told[c]]
    /\ \A c \in Convs : \A i \in DOMAIN wire[c].turns :
          wire[c].turns[i].kind = "value" => wire[c].turns[i].value \in told[c]
    /\ \A c \in Convs : \A i \in 1 .. Len(conv[c]) :
          conv[c][i].kept /\ conv[c][i].shown.kind = "value" => conv[c][i].shown.value \in told[c]

Translated == Setting /\ Handles /\ Written /\ Sent /\ Repeated /\ Secrets!Reversible

-----------------------------------------------------------------------------
(* The operators. *)

LEMMA SameCount == ASSUME NEW S PROVE Secrets!Cardinality(S) = Cardinality(S)
  BY DEF Secrets!Cardinality, Cardinality

(* A detectable value is one of finitely many. *)
LEMMA FewValues ==
  ASSUME natSetup \in NatSetups
  PROVE  /\ natSetup.detectable \subseteq Values /\ natSetup.values \subseteq Values
         /\ natSetup.convs \subseteq Convs /\ natSetup.names \subseteq Names /\ natSetup.modes \subseteq Styles
         /\ IsFiniteSet(Values) /\ Cardinality(Values) \in Nat
         /\ \A S \in SUBSET natSetup.detectable :
              IsFiniteSet(S) /\ Cardinality(S) \in Nat /\ Cardinality(S) <= Cardinality(Values)
<1>1. natSetup \in Secrets!Setup /\ IsFiniteSet(Values)
  BY NatAssumption
<1>2. /\ natSetup.detectable \subseteq Values /\ natSetup.values \subseteq Values
      /\ natSetup.convs \subseteq Convs /\ natSetup.names \subseteq Names /\ natSetup.modes \subseteq Styles
  BY <1>1 DEF Secrets!Setup, Styles
<1>3. Cardinality(Values) \in Nat
  BY <1>1, FS_CardinalityType
<1>4. ASSUME NEW S \in SUBSET natSetup.detectable
      PROVE  IsFiniteSet(S) /\ Cardinality(S) \in Nat /\ Cardinality(S) <= Cardinality(Values)
  <2>1. S \subseteq Values
    BY <1>2
  <2> QED
    BY <1>1, <2>1, FS_Subset, FS_CardinalityType
<1> QED
  BY <1>1, <1>2, <1>3, <1>4

LEMMA SameTranslation ==
  ASSUME NEW p, NEW t
  PROVE  /\ Secrets!Detected(p) <=> Plain(natSetup, known, p)
         /\ Secrets!Sanitized(t, p) = ShownAs(natSetup, t, known, p)
  BY DEF Secrets!Detected, Secrets!NamesOf, Secrets!Detectable, Plain, NamesIn, ShownAs, Secrets!Sanitized

(* A table that is asked for the token of a value has it afterwards, and   *)
(* keeps what it had.                                                      *)
LEMMA TokenForFacts ==
  ASSUME natSetup \in NatSetups, mode \in natSetup.modes,
         NEW t \in Table, Numbered(natSetup, t), NEW v \in natSetup.detectable
  PROVE  LET u == Secrets!TokenFor(t, v)
         IN  u \in Table /\ Numbered(natSetup, u) /\ Extends(t, u) /\ v \in DOMAIN u.token
<1> DEFINE u == Secrets!TokenFor(t, v)
           D == DOMAIN t.token
<1>1. t.token \in [D -> Token] /\ D \subseteq Values /\ t.seq \in Nat /\ t.idle \in BOOLEAN
      /\ t.override \in Secrets!Overrides
      /\ t = [token |-> t.token, seq |-> t.seq, idle |-> t.idle, override |-> t.override]
  BY DEF Table, Naming
<1>2. v \in Values /\ mode \in Styles
  BY FewValues
<1>3. CASE v \in D
  <2>1. u = [token |-> t.token, seq |-> t.seq, idle |-> FALSE, override |-> t.override]
    BY <1>1, <1>3 DEF Secrets!TokenFor
  <2> HIDE DEF u
  <2>2. u \in Table
    BY <2>1, <1>1 DEF Table, Naming
  <2>3. u.token = t.token /\ u.seq = t.seq
    BY <2>1
  <2>4. Numbered(natSetup, u) /\ Extends(t, u)
    BY <2>3 DEF Numbered, Extends
  <2> QED
    BY <1>3, <2>2, <2>3, <2>4 DEF u
<1>4. CASE v \notin D
  <2> DEFINE m == Secrets!Minted(t.seq + 1)
             f == [x \in D \cup {v} |-> IF x = v THEN m ELSE t.token[x]]
  <2>1. u = [token |-> f, seq |-> t.seq + 1, idle |-> FALSE, override |-> t.override]
    <3>1. u = [t EXCEPT !.token = f, !.seq = t.seq + 1, !.idle = FALSE]
      BY <1>4 DEF Secrets!TokenFor, Secrets!Called
    <3> HIDE DEF u, f
    <3> QED
      BY <1>1, <3>1
  <2>2. m \in Token /\ m.n = t.seq + 1 /\ m.style = mode
    BY <1>1, <1>2 DEF Secrets!Minted, Token
  <2> HIDE DEF m
  <2>3. DOMAIN f = D \cup {v} /\ f[v] = m /\ \A x \in D : f[x] = t.token[x]
    BY <1>4
  <2>4. f \in [D \cup {v} -> Token] /\ D \cup {v} \in SUBSET Values
    BY <1>1, <1>2, <2>2
  <2> HIDE DEF f, u, D
  <2>5. f \in Naming
    BY <2>4 DEF Naming
  <2>6. u \in Table /\ u.token = f /\ u.seq = t.seq + 1
    BY <1>1, <2>1, <2>5 DEF Table
  <2>7. D \subseteq natSetup.detectable /\ t.seq = Cardinality(D)
    BY DEF Numbered, D
  <2>8. Cardinality(D \cup {v}) = t.seq + 1
    <3>1. IsFiniteSet(D)
      BY <2>7, FewValues
    <3> QED
      BY <1>1, <1>4, <2>7, <3>1, FS_AddElement
  <2>9. ASSUME NEW x \in D
        PROVE  /\ f[x].style \in natSetup.modes /\ f[x].n \in 1 .. t.seq
               /\ \A w \in D : f[w].n = f[x].n => w = x
    BY <2>3 DEF Numbered, D
  <2>10. ASSUME NEW x \in D \cup {v}
         PROVE  /\ f[x].style \in natSetup.modes /\ f[x].n \in 1 .. (t.seq + 1)
                /\ \A w \in D \cup {v} : f[w].n = f[x].n => w = x
    <3>1. CASE x = v
      <4>1. f[x].n = t.seq + 1 /\ f[x].style = mode
        BY <2>2, <2>3, <3>1
      <4>2. \A w \in D : f[w].n # t.seq + 1
        BY <2>9, <1>1
      <4> QED
        BY <3>1, <4>1, <4>2, <1>1
    <3>2. CASE x \in D
      <4>1. f[v].n = t.seq + 1
        BY <2>2, <2>3
      <4>2. f[x].n \in 1 .. t.seq
        BY <2>9, <3>2
      <4> QED
        BY <1>1, <2>9, <3>2, <4>1, <4>2
    <3> QED
      BY <3>1, <3>2
  <2>11. Numbered(natSetup, u)
    <3>1. DOMAIN u.token = D \cup {v}
      BY <2>3, <2>6
    <3> QED
      BY <2>6, <2>7, <2>8, <2>10, <3>1 DEF Numbered
  <2>12. Extends(t, u)
    BY <2>3, <2>6 DEF Extends, D
  <2> QED
    BY <2>3, <2>6, <2>11, <2>12 DEF u
<1> QED
  BY <1>3, <1>4

LEMMA ExtendsTrans ==
  ASSUME NEW t, NEW u, NEW x, Extends(t, u), Extends(u, x)
  PROVE  Extends(t, x)
  BY DEF Extends

(* Looking at a piece. *)
LEMMA MintFacts ==
  ASSUME natSetup \in NatSetups, mode \in natSetup.modes,
         NEW t \in Table, Numbered(natSetup, t), NEW p
  PROVE  LET u == Secrets!Mint(t, p)
         IN  /\ u \in Table /\ Numbered(natSetup, u) /\ Extends(t, u)
             /\ Plain(natSetup, known, p) => p.value \in DOMAIN u.token
<1>1. CASE Plain(natSetup, known, p)
  <2>1. Secrets!Mint(t, p) = Secrets!TokenFor(t, p.value) /\ p.value \in natSetup.detectable
    BY <1>1, SameTranslation DEF Secrets!Mint, Plain
  <2> QED
    BY <2>1, TokenForFacts
<1>2. CASE ~Plain(natSetup, known, p)
  <2>1. Secrets!Mint(t, p) = t
    BY <1>2, SameTranslation DEF Secrets!Mint
  <2> QED
    BY <1>2, <2>1 DEF Extends
<1> QED
  BY <1>1, <1>2

LEMMA LookedFacts ==
  ASSUME natSetup \in NatSetups, mode \in natSetup.modes,
         NEW t \in Table, Numbered(natSetup, t), NEW x
  PROVE  LET u == Secrets!Looked(t, x)
         IN  /\ u \in Table /\ Numbered(natSetup, u) /\ Extends(t, u)
             /\ ~x.kept /\ Plain(natSetup, known, x.shown) => x.shown.value \in DOMAIN u.token
<1>1. CASE x.kept
  <2>1. Secrets!Looked(t, x) = t
    BY <1>1 DEF Secrets!Looked
  <2> QED
    BY <1>1, <2>1 DEF Extends
<1>2. CASE ~x.kept
  <2>1. Secrets!Looked(t, x) = Secrets!Mint(t, x.shown)
    BY <1>2 DEF Secrets!Looked
  <2> QED
    BY <2>1, MintFacts
<1> QED
  BY <1>1, <1>2

(* Looking at the turns one after the other fills the table.               *)
Filled(f, c, s, l) ==
    /\ f = [n \in 0 .. l |-> IF n = 0 THEN table[held[c]] ELSE Secrets!Looked(f[n - 1], s[n])]
    /\ Secrets!Afterwards(c) = f[l]

LEMMA AfterwardsExists ==
  ASSUME NEW c, NEW s, NEW l \in Nat, s = conv[c], l = Len(s)
  PROVE  \E f : Filled(f, c, s, l)
<1> DEFINE M(u, n) == Secrets!Looked(u, s[n])
           t == table[held[c]]
           Good(f, k) == f = [n \in 0 .. k |-> IF n = 0 THEN t ELSE M(f[n - 1], n)]
           Bad == {k \in 0 .. l : \A f : ~Good(f, k)}
<1> HIDE DEF Good, M, t
<1>2. Bad = {}
  <2>1. SUFFICES ASSUME Bad # {} PROVE FALSE
    OBVIOUS
  <2>2. Bad \in SUBSET Nat
    OBVIOUS
  <2>3. PICK k \in Bad : \A j \in Bad : k <= j
    BY <2>1, <2>2, LeastNumber
  <2>4. CASE k = 0
    <3> DEFINE g == [n \in 0 .. 0 |-> t]
    <3>1. g = [n \in 0 .. 0 |-> IF n = 0 THEN t ELSE M(g[n - 1], n)]
      OBVIOUS
    <3>2. Good(g, 0)
      BY <3>1, Zenon DEF Good
    <3> QED
      BY <2>3, <2>4, <3>2
  <2>5. CASE k # 0
    <3>1. k \in Nat /\ k - 1 \in 0 .. l /\ ~(k <= k - 1)
      BY <2>3, <2>5
    <3>2. PICK f : Good(f, k - 1)
      BY <2>3, <3>1
    <3> DEFINE g == [n \in 0 .. k |-> IF n = 0 THEN t ELSE M(f[n - 1], n)]
    <3>3. ASSUME NEW n \in 0 .. (k - 1) PROVE g[n] = f[n]
      <4>1. n \in 0 .. k
        BY <3>1
      <4>2. f[n] = IF n = 0 THEN t ELSE M(f[n - 1], n)
        BY <3>2, Zenon DEF Good
      <4> QED
        BY <4>1, <4>2
    <3>4. ASSUME NEW n \in 0 .. k, n # 0 PROVE g[n - 1] = f[n - 1]
      <4>1. n - 1 \in 0 .. (k - 1)
        BY <3>1, <3>4
      <4> QED
        BY <3>3, <4>1
    <3>5. ASSUME NEW n \in 0 .. k
          PROVE  g[n] = IF n = 0 THEN t ELSE M(g[n - 1], n)
      BY <3>4
    <3>6. Good(g, k)
      <4>1. g = [n \in 0 .. k |-> g[n]]
        OBVIOUS
      <4> HIDE DEF g
      <4> QED
        BY <3>5, <4>1, Zenon DEF Good
    <3> QED
      BY <2>3, <3>6
  <2> QED
    BY <2>4, <2>5
<1>3. \E f : Good(f, l)
  BY <1>2
<1>4. Secrets!Afterwards(c) = (CHOOSE f : Good(f, l))[l]
  BY DEF Secrets!Afterwards, Good, M, t
<1>5. Good(CHOOSE f : Good(f, l), l)
  BY <1>3, Zenon
<1>6. Filled(CHOOSE f : Good(f, l), c, s, l)
  BY <1>4, <1>5 DEF Filled, Good, M, t
<1> QED
  BY <1>6

LEMMA AfterwardsFacts ==
  ASSUME Setting, NEW c \in Convs, held[c] \in 1 .. Len(table), conv[c] \in Seq(Turn)
  PROVE  LET u == Secrets!Afterwards(c)
         IN  /\ u \in Table /\ Numbered(natSetup, u) /\ Extends(table[held[c]], u)
             /\ \A i \in 1 .. Len(conv[c]) :
                  ~conv[c][i].kept /\ Plain(natSetup, known, conv[c][i].shown)
                     => conv[c][i].shown.value \in DOMAIN u.token
<1> DEFINE t == table[held[c]]
           s == conv[c]
           l == Len(s)
<1>1. l \in Nat /\ t \in Table /\ Numbered(natSetup, t)
  BY LenProperties, ElementOfSeq DEF Setting
<1>2. PICK f : Filled(f, c, s, l)
  BY <1>1, AfterwardsExists
<1>3. /\ \A n \in 0 .. l : f[n] = IF n = 0 THEN t ELSE Secrets!Looked(f[n - 1], s[n])
      /\ Secrets!Afterwards(c) = f[l]
  BY <1>2, Zenon DEF Filled
<1> DEFINE Upto(u, k) ==
             /\ u \in Table /\ Numbered(natSetup, u) /\ Extends(t, u)
             /\ \A i \in 1 .. k : ~s[i].kept /\ Plain(natSetup, known, s[i].shown) => s[i].shown.value \in DOMAIN u.token
           Bad == {k \in 0 .. l : ~Upto(f[k], k)}
<1> HIDE DEF t, s, l
<1>4. Upto(f[0], 0)
  <2>1. 0 \in 0 .. l
    BY <1>1
  <2>2. f[0] = t
    BY <1>3, <2>1, Zenon
  <2> QED
    BY <1>1, <2>2 DEF Extends
<1>5. ASSUME NEW k \in 1 .. l, Upto(f[k - 1], k - 1)
      PROVE  Upto(f[k], k)
  <2> DEFINE u == f[k - 1]
             w == f[k]
  <2>1. w = Secrets!Looked(u, s[k])
    BY <1>1, <1>3
  <2>2. u \in Table /\ Numbered(natSetup, u) /\ Extends(t, u)
    BY <1>5
  <2>3. \A i \in 1 .. (k - 1) : ~s[i].kept /\ Plain(natSetup, known, s[i].shown) => s[i].shown.value \in DOMAIN u.token
    BY <1>5
  <2> HIDE DEF u, w, Upto
  <2>4. /\ w \in Table /\ Numbered(natSetup, w) /\ Extends(u, w)
        /\ ~s[k].kept /\ Plain(natSetup, known, s[k].shown) => s[k].shown.value \in DOMAIN w.token
    BY <2>1, <2>2, LookedFacts DEF Setting
  <2>5. ASSUME NEW i \in 1 .. k, ~s[i].kept, Plain(natSetup, known, s[i].shown)
        PROVE  s[i].shown.value \in DOMAIN w.token
    <3>1. i = k \/ i \in 1 .. (k - 1)
      BY <1>1
    <3> QED
      BY <2>3, <2>4, <2>5, <3>1 DEF Extends
  <2> QED
    BY <2>2, <2>4, <2>5, ExtendsTrans DEF Upto, w
<1> HIDE DEF Upto
<1>6. Bad = {}
  <2>1. SUFFICES ASSUME Bad # {} PROVE FALSE
    OBVIOUS
  <2>2. Bad \in SUBSET Nat
    OBVIOUS
  <2>3. PICK k \in Bad : \A j \in Bad : k <= j
    BY <2>1, <2>2, LeastNumber
  <2>4. k \in 1 .. l /\ k - 1 \in 0 .. l /\ ~(k <= k - 1)
    BY <1>1, <1>4, <2>3
  <2>5. Upto(f[k - 1], k - 1)
    BY <2>3, <2>4
  <2> QED
    BY <1>5, <2>3, <2>4, <2>5
<1>7. Upto(f[l], l)
  BY <1>1, <1>6
<1> QED
  BY <1>3, <1>7 DEF Upto, t, s, l

-----------------------------------------------------------------------------
(* What a step does to the tables. *)
Grows == \A i \in 1 .. Len(table) : i \in 1 .. Len(table') /\ Extends(table[i], table'[i])

(* The tables of a later state. *)
Tables(s, ts) == ts \in Seq(Table) /\ \A i \in 1 .. Len(ts) : Numbered(s, ts[i])

LEMMA ExtendsSame == \A t : Extends(t, t)
  BY DEF Extends

LEMMA AppendedTable ==
  ASSUME Setting, NEW ts, ts = Append(table, Secrets!Empty)
  PROVE  /\ Tables(natSetup, ts) /\ Len(table) \in Nat /\ Len(ts) = Len(table) + 1
         /\ \A i \in 1 .. Len(table) : i \in 1 .. Len(ts) /\ ts[i] = table[i]
<1> DEFINE e == Secrets!Empty
<1>1. e \in Table /\ Numbered(natSetup, e)
  <2>1. e = [token |-> <<>>, seq |-> 0, idle |-> FALSE, override |-> "none"] /\ "none" \in Secrets!Overrides
        /\ DOMAIN <<>> = {} /\ <<>> \in [{} -> Token]
    BY DEF Secrets!Empty, Secrets!Overrides
  <2> HIDE DEF e
  <2>2. <<>> \in Naming
    BY <2>1 DEF Naming
  <2>3. e \in Table
    BY <2>1, <2>2 DEF Table
  <2>4. e.token = <<>> /\ e.seq = 0
    BY <2>1
  <2>5. Cardinality({}) = 0
    BY FS_EmptySet
  <2> QED
    BY <2>1, <2>3, <2>4, <2>5 DEF Numbered
<1> HIDE DEF e
<1>2. table \in Seq(Table) /\ Len(table) \in Nat /\ ts = Append(table, e)
  BY LenProperties DEF Setting, e
<1>3. /\ ts \in Seq(Table) /\ Len(ts) = Len(table) + 1 /\ ts[Len(table) + 1] = e
      /\ \A i \in 1 .. Len(table) : ts[i] = table[i]
  BY <1>1, <1>2, AppendProperties
<1>4. \A i \in 1 .. Len(table) : i \in 1 .. Len(ts)
  BY <1>2, <1>3
<1>5. \A i \in 1 .. Len(ts) : i \in 1 .. Len(table) \/ i = Len(table) + 1
  BY <1>2, <1>3
<1> QED
  BY <1>1, <1>2, <1>3, <1>4, <1>5 DEF Tables, Setting

LEMMA ReplacedTable ==
  ASSUME Setting, NEW h \in 1 .. Len(table), NEW u \in Table, Numbered(natSetup, u), Extends(table[h], u),
         NEW ts, ts = [table EXCEPT ![h] = u]
  PROVE  /\ Tables(natSetup, ts) /\ Len(table) \in Nat /\ Len(ts) = Len(table) /\ ts[h] = u
         /\ \A i \in 1 .. Len(table) : Extends(table[i], ts[i])
<1>1. table \in Seq(Table) /\ Len(table) \in Nat
  BY LenProperties DEF Setting
<1>2. /\ ts \in Seq(Table) /\ Len(ts) = Len(table)
      /\ \A i \in 1 .. Len(table) : ts[i] = IF i = h THEN u ELSE table[i]
  BY <1>1, ExceptSeq
<1>3. \A i \in 1 .. Len(table) : Numbered(natSetup, table[i])
  BY DEF Setting
<1> QED
  BY <1>1, <1>2, <1>3, ExtendsSame DEF Tables

(* The same piece is shown the same under a later state of a table.        *)
LEMMA ShownSame ==
  ASSUME NEW t, NEW u, NEW k, NEW p, Extends(t, u), Plain(natSetup, k, p) => p.value \in DOMAIN t.token
  PROVE  ShownAs(natSetup, u, k, p) = ShownAs(natSetup, t, k, p) /\ (Plain(natSetup, k, p) => p.value \in DOMAIN u.token)
  BY DEF ShownAs, Extends

LEMMA LaterSetting ==
  ASSUME Setting, UNCHANGED natSetup, Tables(natSetup, table'), known' \in Known, enabled' \in BOOLEAN,
         mode' \in natSetup.modes
  PROVE  Setting'
<1>1. natSetup' \in NatSetups
  BY DEF Setting
<1>2. \A i \in 1 .. Len(table') : Numbered(natSetup, table'[i])
  BY DEF Tables
<1> QED
  BY <1>1, <1>2 DEF Setting, Tables

LEMMA ToldLater ==
  ASSUME Grows, NEW x, x.table \in 1 .. Len(table), Told(table, x)
  PROVE  x.table \in 1 .. Len(table') /\ Told(table', x)
<1>1. x.table \in 1 .. Len(table') /\ Extends(table[x.table], table'[x.table])
  BY DEF Grows
<1> QED
  BY <1>1 DEF Told, Extends, Secrets!Raw

(* A request stays what it was while its run keeps the handle, or takes a  *)
(* newer one, and turns are added to the conversation.                     *)
LEMMA SentLater ==
  ASSUME Setting, Setting', Handles, Handles', Grows, UNCHANGED natSetup,
         NEW c \in Convs, NEW h, NEW k, NEW e, SentUnder(c, h, k, e),
         wire'[c] = wire[c], held'[c] # 0, held[c] <= held'[c], Len(conv[c]) \in Nat, Len(conv'[c]) \in Nat,
         Len(conv[c]) <= Len(conv'[c]), \A i \in 1 .. Len(conv[c]) : conv'[c][i] = conv[c][i]
  PROVE  SentUnder(c, h, k, e)'
<1>1. Len(table) \in Nat /\ Len(table') \in Nat
  BY LenProperties DEF Setting
<1>2. /\ wire[c].turns \in Seq(Piece) /\ Len(wire[c].turns) <= Len(conv[c]) /\ Len(wire[c].turns) \in Nat
      /\ held[c] # 0 /\ h \in 1 .. held[c] /\ k \in Known
  BY LenProperties DEF SentUnder
<1>3. held[c] \in 0 .. Len(table) /\ held'[c] \in 0 .. Len(table')
  BY DEF Handles
<1>4. h \in 1 .. held'[c] /\ h \in 1 .. Len(table)
  BY <1>1, <1>2, <1>3
<1>5. Extends(table[h], table'[h])
  BY <1>4 DEF Grows
<1>6. ASSUME NEW i \in 1 .. Len(wire[c].turns)
      PROVE  /\ conv'[c][i].table <= h
             /\ wire[c].turns[i] = IF e /\ ~conv'[c][i].kept THEN ShownAs(natSetup, table'[h], k, conv'[c][i].shown)
                                                             ELSE conv'[c][i].shown
             /\ e /\ ~conv'[c][i].kept /\ Plain(natSetup, k, conv'[c][i].shown) => conv'[c][i].shown.value \in DOMAIN table'[h].token
  <2> DEFINE p == conv[c][i].shown
  <2>1. conv'[c][i] = conv[c][i]
    BY <1>2
  <2>2. /\ conv[c][i].table <= h
        /\ wire[c].turns[i] = IF e /\ ~conv[c][i].kept THEN ShownAs(natSetup, table[h], k, p) ELSE p
        /\ e /\ ~conv[c][i].kept /\ Plain(natSetup, k, p) => p.value \in DOMAIN table[h].token
    BY <1>6 DEF SentUnder
  <2> HIDE DEF p
  <2>3. ASSUME e /\ ~conv[c][i].kept
        PROVE  /\ ShownAs(natSetup, table'[h], k, p) = ShownAs(natSetup, table[h], k, p)
               /\ Plain(natSetup, k, p) => p.value \in DOMAIN table'[h].token
    <3>1. Plain(natSetup, k, p) => p.value \in DOMAIN table[h].token
      BY <2>2, <2>3
    <3> QED
      BY <1>5, <3>1, ShownSame
  <2> QED
    BY <2>1, <2>2, <2>3 DEF p
<1>7. wire'[c].turns = wire[c].turns /\ Len(wire[c].turns) <= Len(conv'[c])
  BY <1>2
<1> QED
  BY <1>2, <1>4, <1>6, <1>7 DEF SentUnder

(* Steps that only make tables, or change who holds them.                  *)
LEMMA Frame ==
  ASSUME Translated, Setting', Handles', Grows, UNCHANGED <<natSetup, conv, wire, told, got>>,
         \A c \in Convs : held[c] # 0 => held'[c] # 0,
         \A c \in Convs : held'[c] # 0 => (held[c] # 0 /\ held[c] <= held'[c]) \/ held'[c] = Len(table) + 1
  PROVE  Translated'
<1> USE DEF Translated
<1>1. Len(table) \in Nat /\ Len(table') \in Nat
  BY LenProperties DEF Setting
<1>2. \A c \in Convs : held[c] \in 0 .. Len(table) /\ held'[c] \in 0 .. Len(table')
  BY DEF Handles
<1>3. Written'
  <2>1. conv' \in [Convs -> Seq(Turn)]
    BY DEF Written
  <2>2. ASSUME NEW c \in Convs, NEW i \in 1 .. Len(conv[c])
        PROVE  /\ conv[c][i].table \in 1 .. Len(table') /\ Told(table', conv[c][i])
               /\ held'[c] # 0 => conv[c][i].table <= held'[c]
    <3> DEFINE x == conv[c][i]
    <3>1. x.table \in 1 .. Len(table) /\ Told(table, x) /\ (held[c] # 0 => x.table <= held[c])
      BY <2>2 DEF Written
    <3> HIDE DEF x
    <3>2. x.table \in 1 .. Len(table') /\ Told(table', x)
      BY <3>1, ToldLater
    <3>3. ASSUME held'[c] # 0 PROVE x.table <= held'[c]
      BY <1>1, <1>2, <3>1, <3>3
    <3> QED
      BY <3>2, <3>3 DEF x
  <2> QED
    BY <2>1, <2>2 DEF Written
<1>4. Sent'
  <2>1. wire' = [c \in Convs |-> wire'[c]]
    BY DEF Sent
  <2>2. ASSUME NEW c \in Convs, wire[c].turns # <<>>, NEW h, NEW k, NEW e, SentUnder(c, h, k, e)
        PROVE  SentUnder(c, h, k, e)'
    <3>1. held[c] # 0
      BY <2>2 DEF SentUnder
    <3>2. held'[c] # 0 /\ held[c] <= held'[c]
      BY <1>1, <1>2, <3>1
    <3>3. UNCHANGED <<wire, conv>> /\ Len(conv[c]) \in Nat
      BY LenProperties DEF Written
    <3> QED
      BY <2>2, <3>2, <3>3, SentLater
  <2> QED
    BY <2>1, <2>2 DEF Sent
<1>5. Secrets!Reversible'
  BY DEF Secrets!Reversible
<1>6. Repeated'
  BY DEF Repeated
<1> QED
  BY <1>3, <1>4, <1>5, <1>6

-----------------------------------------------------------------------------
(* The manager. *)

LEMMA SweptFacts ==
  ASSUME Setting, Handles
  PROVE  /\ Secrets!Swept \in [Convs -> 0 .. Len(table)]
         /\ \A c \in Convs : Secrets!Swept[c] = sessions[c] \/ Secrets!Swept[c] = 0
         /\ Len(table) \in Nat
<1>1. sessions \in [Convs -> 0 .. Len(table)] /\ Len(table) \in Nat
  BY LenProperties DEF Handles, Setting
<1> QED
  BY <1>1 DEF Secrets!Swept

LEMMA SameTables ==
  ASSUME Setting, UNCHANGED <<natSetup, table>>
  PROVE  Tables(natSetup, table') /\ Grows
<1>1. Tables(natSetup, table)
  BY DEF Setting, Tables
<1> QED
  BY <1>1, ExtendsSame DEF Grows

LEMMA NewTable ==
  ASSUME Setting, table' = Append(table, Secrets!Empty)
  PROVE  Tables(natSetup, table') /\ Grows /\ Len(table') = Len(table) + 1
<1>1. /\ Tables(natSetup, table') /\ Len(table') = Len(table) + 1
      /\ \A i \in 1 .. Len(table) : i \in 1 .. Len(table') /\ table'[i] = table[i]
  BY AppendedTable
<1> QED
  BY <1>1, ExtendsSame DEF Grows

LEMMA SessionStep ==
  ASSUME Translated, NEW c \in natSetup.convs, Secrets!Session(c), UNCHANGED natSetup
  PROVE  Translated' /\ Grows
<1> USE DEF Translated
<1>1. c \in Convs
  BY FewValues DEF Setting
<1>2. UNCHANGED <<known, enabled, mode, conv, wire, told, got>>
  BY DEF Secrets!Session
<1> DEFINE S == Secrets!Swept
<1>3. /\ S \in [Convs -> 0 .. Len(table)] /\ Len(table) \in Nat
      /\ \A d \in Convs : S[d] = sessions[d] \/ S[d] = 0
  BY SweptFacts
<1> HIDE DEF S
<1>4. \A d \in Convs : held[d] \in 0 .. Len(table) /\ sessions[d] \in 0 .. Len(table)
  BY DEF Handles
<1>5. CASE S[c] # 0
  <2>1. sessions' = S /\ table' = table /\ held' = [held EXCEPT ![c] = S[c]]
    BY <1>5 DEF Secrets!Session, Secrets!Lookup, S
  <2>2. Setting' /\ Grows
    BY <1>2, <2>1, SameTables, LaterSetting DEF Setting
  <2>3. held \in [Convs -> 0 .. Len(table)] /\ S[c] = sessions[c] /\ held[c] # 0 /\ held[c] <= sessions[c]
    BY <1>1, <1>3, <1>5 DEF Handles
  <2>4. \A d \in Convs : held'[d] = IF d = c THEN sessions[c] ELSE held[d]
    BY <2>1, <2>3
  <2>5. Handles'
    <3>1. held' \in [Convs -> 0 .. Len(table')] /\ sessions' \in [Convs -> 0 .. Len(table')]
      BY <1>1, <1>3, <2>1, <2>3
    <3>2. /\ \A d \in Convs : held[d] = 0 => sessions[d] = 0
          /\ \A d \in Convs : sessions[d] # 0 => held[d] <= sessions[d]
          /\ \A x, y \in Convs : x # y =>
                /\ held[x] # 0 => held[x] # held[y] /\ held[x] # sessions[y]
                /\ sessions[x] # 0 => sessions[x] # sessions[y]
      BY DEF Handles
    <3>3. \A d \in Convs : sessions'[d] = S[d] /\ (S[d] = sessions[d] \/ S[d] = 0)
      BY <1>3, <2>1
    <3>4. ASSUME NEW d \in Convs
          PROVE  /\ held'[d] = 0 => sessions'[d] = 0
                 /\ sessions'[d] # 0 => held'[d] <= sessions'[d]
      BY <1>1, <1>4, <2>3, <2>4, <3>2, <3>3
    <3>5. ASSUME NEW x \in Convs, NEW y \in Convs, x # y
          PROVE  /\ held'[x] # 0 => held'[x] # held'[y] /\ held'[x] # sessions'[y]
                 /\ sessions'[x] # 0 => sessions'[x] # sessions'[y]
      BY <1>1, <1>5, <2>3, <2>4, <3>2, <3>3, <3>5
    <3> QED
      BY <3>1, <3>4, <3>5 DEF Handles
  <2>6. \A d \in Convs : /\ held[d] # 0 => held'[d] # 0
                         /\ held'[d] # 0 => held[d] # 0 /\ held[d] <= held'[d]
    BY <1>4, <1>5, <2>3, <2>4
  <2> QED
    BY <1>2, <2>2, <2>5, <2>6, Frame
<1>6. CASE S[c] = 0
  <2> DEFINE n == Len(table) + 1
  <2>1. /\ table' = Append(table, Secrets!Empty)
        /\ sessions' = [S EXCEPT ![c] = n] /\ held' = [held EXCEPT ![c] = n]
    BY <1>6 DEF Secrets!Session, Secrets!Lookup, S
  <2>2. Tables(natSetup, table') /\ Grows /\ Len(table') = n
    BY <2>1, NewTable
  <2>3. Setting'
    BY <1>2, <2>2, LaterSetting DEF Setting
  <2>4. held \in [Convs -> 0 .. Len(table)] /\ n \in Nat /\ n > Len(table)
    BY <1>3 DEF Handles
  <2> HIDE DEF n
  <2>5. \A d \in Convs : held'[d] = (IF d = c THEN n ELSE held[d]) /\ sessions'[d] = IF d = c THEN n ELSE S[d]
    BY <1>3, <2>1, <2>4
  <2>6. Handles'
    <3>1. held' \in [Convs -> 0 .. Len(table')] /\ sessions' \in [Convs -> 0 .. Len(table')]
      <4>1. n \in 0 .. Len(table') /\ 0 .. Len(table) \subseteq 0 .. Len(table')
        BY <1>3, <2>2, <2>4
      <4> QED
        BY <1>3, <2>1, <2>4, <4>1
    <3>2. /\ \A d \in Convs : held[d] = 0 => sessions[d] = 0
          /\ \A d \in Convs : sessions[d] # 0 => held[d] <= sessions[d]
          /\ \A x, y \in Convs : x # y =>
                /\ held[x] # 0 => held[x] # held[y] /\ held[x] # sessions[y]
                /\ sessions[x] # 0 => sessions[x] # sessions[y]
      BY DEF Handles
    <3>3. \A d \in Convs : held[d] # n /\ sessions[d] # n /\ S[d] # n
      BY <1>3, <1>4, <2>4
    <3>4. ASSUME NEW d \in Convs
          PROVE  /\ held'[d] = 0 => sessions'[d] = 0
                 /\ sessions'[d] # 0 => held'[d] <= sessions'[d]
      BY <1>3, <1>4, <2>4, <2>5, <3>2
    <3>5. ASSUME NEW x \in Convs, NEW y \in Convs, x # y
          PROVE  /\ held'[x] # 0 => held'[x] # held'[y] /\ held'[x] # sessions'[y]
                 /\ sessions'[x] # 0 => sessions'[x] # sessions'[y]
      BY <1>3, <2>4, <2>5, <3>2, <3>3, <3>5
    <3> QED
      BY <3>1, <3>4, <3>5 DEF Handles
  <2>7. \A d \in Convs : /\ held[d] # 0 => held'[d] # 0
                         /\ held'[d] # 0 => (held[d] # 0 /\ held[d] <= held'[d]) \/ held'[d] = n
    BY <1>4, <2>4, <2>5
  <2> QED
    BY <1>2, <2>2, <2>3, <2>6, <2>7, Frame DEF n
<1> QED
  BY <1>5, <1>6

LEMMA InspectStep ==
  ASSUME Translated, NEW c \in natSetup.convs, Secrets!Inspect(c), UNCHANGED natSetup
  PROVE  Translated' /\ Grows
<1> USE DEF Translated
<1>1. c \in Convs
  BY FewValues DEF Setting
<1>2. UNCHANGED <<held, known, enabled, mode, conv, wire, told, got>>
  BY DEF Secrets!Inspect
<1> DEFINE S == Secrets!Swept
           n == Len(table) + 1
<1>3. /\ S \in [Convs -> 0 .. Len(table)] /\ Len(table) \in Nat
      /\ \A d \in Convs : S[d] = sessions[d] \/ S[d] = 0
  BY SweptFacts
<1>4. table' = Append(table, Secrets!Empty) /\ sessions' = [S EXCEPT ![c] = n] /\ held[c] # 0
  BY DEF Secrets!Inspect
<1> HIDE DEF S
<1>5. \A d \in Convs : held[d] \in 0 .. Len(table) /\ sessions[d] \in 0 .. Len(table)
  BY DEF Handles
<1>6. Tables(natSetup, table') /\ Grows /\ Len(table') = n
  BY <1>4, NewTable
<1>7. Setting'
  BY <1>2, <1>6, LaterSetting DEF Setting
<1>8. held \in [Convs -> 0 .. Len(table)] /\ n \in Nat /\ n > Len(table)
  BY <1>3 DEF Handles
<1> HIDE DEF n
<1>9. \A d \in Convs : held'[d] = held[d] /\ sessions'[d] = IF d = c THEN n ELSE S[d]
  BY <1>2, <1>3, <1>4
<1>10. Handles'
  <2>1. held' \in [Convs -> 0 .. Len(table')] /\ sessions' \in [Convs -> 0 .. Len(table')]
    <3>1. n \in 0 .. Len(table') /\ 0 .. Len(table) \subseteq 0 .. Len(table')
      BY <1>3, <1>6, <1>8
    <3> QED
      BY <1>2, <1>3, <1>4, <1>8, <3>1
  <2>2. /\ \A d \in Convs : held[d] = 0 => sessions[d] = 0
        /\ \A d \in Convs : sessions[d] # 0 => held[d] <= sessions[d]
        /\ \A x, y \in Convs : x # y =>
              /\ held[x] # 0 => held[x] # held[y] /\ held[x] # sessions[y]
              /\ sessions[x] # 0 => sessions[x] # sessions[y]
    BY DEF Handles
  <2>3. \A d \in Convs : held[d] # n /\ sessions[d] # n /\ S[d] # n
    BY <1>3, <1>5, <1>8
  <2>4. ASSUME NEW d \in Convs
        PROVE  /\ held'[d] = 0 => sessions'[d] = 0
               /\ sessions'[d] # 0 => held'[d] <= sessions'[d]
    BY <1>3, <1>4, <1>5, <1>8, <1>9, <2>2
  <2>5. ASSUME NEW x \in Convs, NEW y \in Convs, x # y
        PROVE  /\ held'[x] # 0 => held'[x] # held'[y] /\ held'[x] # sessions'[y]
               /\ sessions'[x] # 0 => sessions'[x] # sessions'[y]
    BY <1>3, <1>8, <1>9, <2>2, <2>3, <2>5
  <2> QED
    BY <2>1, <2>4, <2>5 DEF Handles
<1>11. \A d \in Convs : /\ held[d] # 0 => held'[d] # 0
                        /\ held'[d] # 0 => held[d] # 0 /\ held[d] <= held'[d]
  BY <1>5, <1>9
<1> QED
  BY <1>2, <1>6, <1>7, <1>10, <1>11, Frame

LEMMA CloseSessionStep ==
  ASSUME Translated, NEW c \in natSetup.convs, Secrets!CloseSession(c), UNCHANGED natSetup
  PROVE  Translated' /\ Grows
<1> USE DEF Translated
<1>1. UNCHANGED <<table, held, known, enabled, mode, conv, wire, told, got>> /\ sessions' = [sessions EXCEPT ![c] = 0]
  BY DEF Secrets!CloseSession
<1>2. Setting' /\ Grows
  BY <1>1, SameTables, LaterSetting DEF Setting
<1>3. Len(table) \in Nat
  BY LenProperties DEF Setting
<1>4. Handles'
  <2>1. held' \in [Convs -> 0 .. Len(table')] /\ sessions' \in [Convs -> 0 .. Len(table')]
    <3>1. held \in [Convs -> 0 .. Len(table)] /\ sessions \in [Convs -> 0 .. Len(table)] /\ 0 \in 0 .. Len(table)
      BY <1>3 DEF Handles
    <3>2. UNCHANGED <<table, held>>
      BY <1>1
    <3>3. sessions' \in [Convs -> 0 .. Len(table)]
      BY <1>1, <3>1
    <3> QED
      BY <3>1, <3>2, <3>3
  <2>2. \A d \in Convs : held'[d] = held[d] /\ (sessions'[d] = sessions[d] \/ sessions'[d] = 0)
    BY <1>1 DEF Handles
  <2> QED
    BY <2>1, <2>2 DEF Handles
<1>5. \A d \in Convs : held[d] \in 0 .. Len(table) /\ held'[d] = held[d]
  BY <1>1 DEF Handles
<1>6. \A d \in Convs : held'[d] # 0 => held[d] # 0 /\ held[d] <= held'[d]
  BY <1>3, <1>5
<1> QED
  BY <1>1, <1>2, <1>4, <1>5, <1>6, Frame

(* An override changes a table in nothing that was told.                   *)
LEMMA OverrideStep ==
  ASSUME Translated, NEW c \in natSetup.convs, Secrets!SetOverride(c), UNCHANGED natSetup
  PROVE  Translated' /\ Grows
<1> USE DEF Translated
<1> DEFINE S == Secrets!Swept
<1>1. c \in Convs
  BY FewValues DEF Setting
<1>2. /\ S \in [Convs -> 0 .. Len(table)] /\ Len(table) \in Nat
      /\ \A d \in Convs : S[d] = sessions[d] \/ S[d] = 0
  BY SweptFacts
<1> DEFINE h == S[c]
           t == table[h]
           u(o) == [t EXCEPT !.override = o]
<1>3. /\ h # 0 /\ sessions' = S
      /\ UNCHANGED <<held, known, enabled, mode, conv, wire, told, got>>
      /\ \E o \in Secrets!Overrides : table' = [table EXCEPT ![h].override = o]
  BY DEF Secrets!SetOverride, Secrets!Lookup
<1>4. PICK o \in Secrets!Overrides : table' = [table EXCEPT ![h].override = o]
  BY <1>3
<1> HIDE DEF S
<1>5. h \in 1 .. Len(table)
  BY <1>1, <1>2, <1>3
<1>6. table \in Seq(Table) /\ t \in Table /\ Numbered(natSetup, t)
  BY <1>5, ElementOfSeq DEF Setting
<1>7. table' = [table EXCEPT ![h] = u(o)]
  BY <1>4, <1>5
<1> HIDE DEF h, t
<1>8. u(o) \in Table /\ u(o).token = t.token /\ u(o).seq = t.seq
  BY <1>6 DEF Table
<1> HIDE DEF u
<1>9. Numbered(natSetup, u(o)) /\ Extends(t, u(o))
  BY <1>6, <1>8 DEF Numbered, Extends
<1>10. /\ Tables(natSetup, table') /\ Len(table') = Len(table)
       /\ \A i \in 1 .. Len(table) : Extends(table[i], table'[i])
  BY <1>5, <1>7, <1>8, <1>9, ReplacedTable DEF t
<1>11. Setting' /\ Grows
  <2>1. Setting'
    BY <1>3, <1>10, LaterSetting DEF Setting
  <2> QED
    BY <1>10, <2>1 DEF Grows
<1>12. Handles'
  <2>1. held' \in [Convs -> 0 .. Len(table')] /\ sessions' \in [Convs -> 0 .. Len(table')]
    BY <1>2, <1>3, <1>10 DEF Handles
  <2>2. \A d \in Convs : held'[d] = held[d] /\ (sessions'[d] = sessions[d] \/ sessions'[d] = 0)
    BY <1>2, <1>3
  <2> QED
    BY <2>1, <2>2 DEF Handles
<1>13. \A d \in Convs : held[d] \in 0 .. Len(table) /\ held'[d] = held[d]
  BY <1>3 DEF Handles
<1>14. \A d \in Convs : held'[d] # 0 => held[d] # 0 /\ held[d] <= held'[d]
  BY <1>2, <1>13
<1> QED
  BY <1>3, <1>11, <1>12, <1>13, <1>14, Frame

LEMMA SilenceStep ==
  ASSUME Translated, Secrets!Silence, UNCHANGED natSetup
  PROVE  Translated' /\ Grows
<1> USE DEF Translated
<1>1. /\ table' = [i \in DOMAIN table |-> [table[i] EXCEPT !.idle = TRUE]]
      /\ UNCHANGED <<sessions, held, known, enabled, mode, conv, wire, told, got>>
  BY DEF Secrets!Silence
<1>2. table \in Seq(Table) /\ Len(table) \in Nat /\ DOMAIN table = 1 .. Len(table)
  BY LenProperties DEF Setting
<1>3. ASSUME NEW i \in 1 .. Len(table)
      PROVE  /\ table'[i] \in Table /\ Numbered(natSetup, table'[i]) /\ Extends(table[i], table'[i])
  <2> DEFINE t == table[i]
             u == [t EXCEPT !.idle = TRUE]
  <2>1. t \in Table /\ Numbered(natSetup, t)
    BY <1>2, <1>3, ElementOfSeq DEF Setting
  <2>2. table'[i] = u
    BY <1>1, <1>2, <1>3
  <2> HIDE DEF t
  <2>3. u \in Table /\ u.token = t.token /\ u.seq = t.seq
    BY <2>1 DEF Table
  <2> HIDE DEF u
  <2> QED
    BY <2>1, <2>2, <2>3 DEF Numbered, Extends, t
<1>4. DOMAIN table' = 1 .. Len(table) /\ table' = [i \in 1 .. Len(table) |-> table'[i]]
  BY <1>1, <1>2
<1>5. table' \in Seq(Table) /\ Len(table') = Len(table)
  <2>1. table' \in Seq(Table)
    BY <1>2, <1>3, <1>4, IsASeq
  <2> QED
    BY <1>2, <1>4, <2>1, LenProperties
<1>6. Setting' /\ Grows
  <2>1. Tables(natSetup, table')
    BY <1>3, <1>5 DEF Tables
  <2>2. Grows
    BY <1>3, <1>5 DEF Grows
  <2> QED
    BY <1>1, <2>1, <2>2, LaterSetting DEF Setting
<1>7. Handles'
  BY <1>1, <1>5 DEF Handles
<1>8. \A d \in Convs : held[d] \in 0 .. Len(table) /\ held'[d] = held[d]
  BY <1>1 DEF Handles
<1>9. \A d \in Convs : held'[d] # 0 => held[d] # 0 /\ held[d] <= held'[d]
  BY <1>2, <1>8
<1> QED
  BY <1>1, <1>6, <1>7, <1>8, <1>9, Frame

LEMMA SettingsStep ==
  ASSUME Translated, Secrets!UpdateKnownSecrets \/ Secrets!SetEnabled \/ Secrets!SetMode, UNCHANGED natSetup
  PROVE  Translated' /\ Grows
<1> USE DEF Translated
<1>1. UNCHANGED <<table, sessions, held, conv, wire, told, got>>
  BY DEF Secrets!UpdateKnownSecrets, Secrets!SetEnabled, Secrets!SetMode
<1>2. known' \in Known /\ enabled' \in BOOLEAN /\ mode' \in natSetup.modes
  <2>1. CASE Secrets!UpdateKnownSecrets
    <3>1. PICK S \in SUBSET natSetup.names : \E f \in [S -> natSetup.values \ natSetup.short] : known' = f
      BY <2>1 DEF Secrets!UpdateKnownSecrets
    <3>2. S \in SUBSET Names /\ natSetup.values \subseteq Values
      BY FewValues DEF Setting
    <3>3. known' \in [S -> Values]
      BY <3>1, <3>2
    <3>4. enabled' = enabled /\ mode' = mode
      BY <2>1 DEF Secrets!UpdateKnownSecrets
    <3> QED
      BY <3>2, <3>3, <3>4 DEF Known, Setting
  <2>2. CASE Secrets!SetEnabled
    BY <2>2 DEF Secrets!SetEnabled, Setting
  <2>3. CASE Secrets!SetMode
    BY <2>3 DEF Secrets!SetMode, Secrets!Modes, Setting
  <2> QED
    BY <2>1, <2>2, <2>3
<1>3. Setting' /\ Grows
  BY <1>1, <1>2, SameTables, LaterSetting DEF Setting
<1>4. Handles'
  BY <1>1 DEF Handles
<1>5. \A d \in Convs : held[d] \in 0 .. Len(table) /\ held'[d] = held[d]
  BY <1>1 DEF Handles
<1>6. Len(table) \in Nat
  BY LenProperties DEF Setting
<1>7. \A d \in Convs : held'[d] # 0 => held[d] # 0 /\ held[d] <= held'[d]
  BY <1>5, <1>6
<1> QED
  BY <1>1, <1>3, <1>4, <1>5, <1>7, Frame

LEMMA RestartStep ==
  ASSUME Translated, Secrets!Restart, UNCHANGED natSetup
  PROVE  Translated' /\ Grows
<1> USE DEF Translated
<1>1. /\ sessions' = [c \in Convs |-> 0] /\ held' = [c \in Convs |-> 0]
      /\ wire' = [c \in Convs |-> [turns |-> <<>>]] /\ got' = Secrets!None
      /\ UNCHANGED <<table, known, enabled, mode, conv, told>>
  BY DEF Secrets!Restart
<1>2. Setting' /\ Grows
  BY <1>1, SameTables, LaterSetting DEF Setting
<1>3. Handles'
  <2>1. Len(table') \in Nat
    BY <1>2, LenProperties DEF Setting
  <2>2. \A c \in Convs : sessions'[c] = 0 /\ held'[c] = 0
    BY <1>1
  <2>3. sessions' \in [Convs -> 0 .. Len(table')] /\ held' \in [Convs -> 0 .. Len(table')]
    BY <1>1, <2>1
  <2> QED
    BY <2>2, <2>3 DEF Handles
<1>4. Written'
  <2>1. \A c \in Convs : held'[c] = 0
    BY <1>1
  <2>2. UNCHANGED <<table, conv>>
    BY <1>1
  <2> QED
    BY <2>1, <2>2 DEF Written
<1>5. Sent'
  <2>1. /\ wire' = [c \in Convs |-> wire'[c]]
        /\ \A c \in Convs : wire'[c].turns = <<>>
    BY <1>1
  <2> QED
    BY <2>1 DEF Sent
<1>6. Secrets!Reversible'
  BY <1>1 DEF Secrets!Reversible, Secrets!None
<1>7. Repeated'
  <2>1. \A c \in Convs : wire'[c].turns = <<>> /\ DOMAIN <<>> = {}
    BY <1>1
  <2> QED
    BY <1>1, <2>1 DEF Repeated
<1> QED
  BY <1>2, <1>3, <1>4, <1>5, <1>6, <1>7

(* What the run of a conversation does to its own table.                   *)
LEMMA OwnTable ==
  ASSUME Translated, NEW c \in Convs, held[c] # 0, NEW u \in Table, Numbered(natSetup, u),
         Extends(table[held[c]], u), table' = [table EXCEPT ![held[c]] = u],
         UNCHANGED <<natSetup, sessions, held, known, enabled, mode>>
  PROVE  /\ held[c] \in 1 .. Len(table) /\ table'[held[c]] = u /\ Len(table') = Len(table)
         /\ Setting' /\ Handles' /\ Grows
<1> USE DEF Translated
<1>1. held[c] \in 1 .. Len(table)
  <2>1. held[c] \in 0 .. Len(table) /\ Len(table) \in Nat
    BY LenProperties DEF Handles, Setting
  <2> QED
    BY <2>1
<1>2. /\ Tables(natSetup, table') /\ Len(table) \in Nat /\ Len(table') = Len(table) /\ table'[held[c]] = u
      /\ \A i \in 1 .. Len(table) : Extends(table[i], table'[i])
  BY <1>1, ReplacedTable
<1>3. Setting' /\ Grows
  BY <1>2, LaterSetting DEF Setting, Grows
<1>4. Handles'
  BY <1>2 DEF Handles
<1> QED
  BY <1>1, <1>2, <1>3, <1>4

LEMMA Stays ==
  ASSUME Handles, Setting, UNCHANGED held
  PROVE  /\ \A c \in Convs : held[c] # 0 => held'[c] # 0
         /\ \A c \in Convs : held'[c] # 0 => held[c] # 0 /\ held[c] <= held'[c]
<1>1. \A d \in Convs : held[d] \in 0 .. Len(table) /\ held'[d] = held[d]
  BY DEF Handles
<1>2. Len(table) \in Nat
  BY LenProperties DEF Setting
<1> QED
  BY <1>1, <1>2

(* A turn is added to the conversation of a run.                           *)
LEMMA AppendedTurn ==
  ASSUME Translated, Setting', Handles', Grows, UNCHANGED <<natSetup, held, wire>>,
         NEW c \in Convs, held[c] # 0, NEW x \in Turn, x.table \in 1 .. Len(table'), x.table <= held[c],
         Told(table', x), conv' = [conv EXCEPT ![c] = Append(@, x)]
  PROVE  /\ Written' /\ Sent'
         /\ \A d \in Convs : \A i \in 1 .. Len(conv'[d]) :
               \/ d = c /\ conv'[d][i] = x
               \/ i \in 1 .. Len(conv[d]) /\ conv'[d][i] = conv[d][i]
<1> USE DEF Translated
<1>1. conv \in [Convs -> Seq(Turn)] /\ conv[c] \in Seq(Turn) /\ Len(conv[c]) \in Nat
  BY LenProperties DEF Written
<1>2. /\ Append(conv[c], x) \in Seq(Turn) /\ Len(Append(conv[c], x)) = Len(conv[c]) + 1
      /\ Append(conv[c], x)[Len(conv[c]) + 1] = x
      /\ \A i \in 1 .. Len(conv[c]) : Append(conv[c], x)[i] = conv[c][i]
  BY <1>1, AppendProperties
<1>3. conv' \in [Convs -> Seq(Turn)] /\ \A d \in Convs : conv'[d] = IF d = c THEN Append(conv[c], x) ELSE conv[d]
  BY <1>1, <1>2
<1>4. ASSUME NEW d \in Convs, NEW i \in 1 .. Len(conv'[d])
      PROVE  \/ d = c /\ conv'[d][i] = x
             \/ i \in 1 .. Len(conv[d]) /\ conv'[d][i] = conv[d][i]
  <2>1. CASE d # c
    BY <1>3, <1>4, <2>1
  <2>2. CASE d = c
    <3>1. i \in 1 .. (Len(conv[c]) + 1)
      BY <1>2, <1>3, <1>4, <2>2
    <3> QED
      BY <1>1, <1>2, <1>3, <2>2, <3>1
  <2> QED
    BY <2>1, <2>2
<1>5. Written'
  <2>1. ASSUME NEW d \in Convs, NEW i \in 1 .. Len(conv[d])
        PROVE  /\ conv[d][i].table \in 1 .. Len(table') /\ Told(table', conv[d][i])
               /\ held'[d] # 0 => conv[d][i].table <= held'[d]
    <3>1. /\ conv[d][i].table \in 1 .. Len(table) /\ Told(table, conv[d][i])
          /\ held[d] # 0 => conv[d][i].table <= held[d]
      BY <2>1 DEF Written
    <3> QED
      BY <3>1, ToldLater
  <2>2. ASSUME NEW d \in Convs, NEW i \in 1 .. Len(conv'[d])
        PROVE  /\ conv'[d][i].table \in 1 .. Len(table') /\ Told(table', conv'[d][i])
               /\ held'[d] # 0 => conv'[d][i].table <= held'[d]
    <3>1. CASE d = c /\ conv'[d][i] = x
      BY <3>1
    <3>2. CASE i \in 1 .. Len(conv[d]) /\ conv'[d][i] = conv[d][i]
      BY <2>1, <3>2
    <3> QED
      BY <1>4, <2>2, <3>1, <3>2
  <2> QED
    BY <1>3, <2>2 DEF Written
<1>6. Sent'
  <2>1. wire' = [d \in Convs |-> wire'[d]] /\ wire' = wire
    BY DEF Sent
  <2>2. ASSUME NEW d \in Convs, wire[d].turns # <<>>, NEW a, NEW k, NEW e, SentUnder(d, a, k, e)
        PROVE  SentUnder(d, a, k, e)'
    <3>1. held[d] # 0
      BY <2>2 DEF SentUnder
    <3>2. held'[d] # 0 /\ held[d] <= held'[d]
      BY <3>1, Stays
    <3>3. Len(conv[d]) \in Nat
      BY LenProperties DEF Written
    <3>4. /\ Len(conv'[d]) \in Nat /\ Len(conv[d]) <= Len(conv'[d])
          /\ \A i \in 1 .. Len(conv[d]) : conv'[d][i] = conv[d][i]
      <4>1. conv'[d] = IF d = c THEN Append(conv[c], x) ELSE conv[d]
        BY <1>3
      <4>2. CASE d = c
        BY <1>2, <3>3, <4>1, <4>2
      <4>3. CASE d # c
        BY <3>3, <4>1, <4>3
      <4> QED
        BY <4>2, <4>3
    <3> QED
      BY <2>1, <2>2, <3>2, <3>3, <3>4, SentLater
  <2> QED
    BY <2>1, <2>2 DEF Sent
<1> QED
  BY <1>4, <1>5, <1>6

(* A value as it is written down. *)
LEMMA WriteStep ==
  ASSUME Translated, NEW c \in natSetup.convs, NEW v \in natSetup.values, Secrets!Write(c, v), UNCHANGED natSetup
  PROVE  Translated' /\ Grows
<1> USE DEF Translated
<1>1. c \in Convs /\ v \in Values
  BY FewValues DEF Setting
<1> DEFINE h == held[c]
           on == Secrets!On(h)
           t == table[h]
           p == Secrets!Raw(v)
           after == Secrets!Mint(t, p)
           u == IF on THEN after ELSE t
           rendered == IF on THEN Secrets!Sanitized(after, p) ELSE p
           x == [shown |-> rendered, stood |-> v, table |-> h, kept |-> FALSE]
<1>2. /\ h # 0 /\ table' = IF on THEN [table EXCEPT ![h] = after] ELSE table
      /\ conv' = [conv EXCEPT ![c] = Append(@, x)]
      /\ UNCHANGED <<sessions, held, known, enabled, mode, wire, told, got>>
  BY DEF Secrets!Write
<1>3. table \in Seq(Table) /\ Len(table) \in Nat /\ h \in 1 .. Len(table)
  <2>1. h \in 0 .. Len(table) /\ table \in Seq(Table) /\ Len(table) \in Nat
    BY <1>1, LenProperties DEF Handles, Setting
  <2> QED
    BY <1>2, <2>1
<1>4. t \in Table /\ Numbered(natSetup, t)
  BY <1>3, ElementOfSeq DEF Setting
<1>5. p = [kind |-> "value", value |-> v] /\ p \in Piece
  BY <1>1 DEF Secrets!Raw, Piece
<1> HIDE DEF on, t, p
<1>6. /\ after \in Table /\ Numbered(natSetup, after) /\ Extends(t, after)
      /\ Plain(natSetup, known, p) => v \in DOMAIN after.token
  BY <1>4, <1>5, MintFacts DEF Setting
<1> HIDE DEF after
<1>7. u \in Table /\ Numbered(natSetup, u) /\ Extends(t, u)
  BY <1>4, <1>6, ExtendsSame
<1>8. table' = [table EXCEPT ![h] = u]
  <2>1. CASE on
    BY <1>2, <2>1
  <2>2. CASE ~on
    <3>1. table' = table /\ u = table[h]
      BY <1>2, <2>2 DEF t
    <3>2. table = [table EXCEPT ![h] = table[h]]
      BY <1>3
    <3> QED
      BY <3>1, <3>2
  <2> QED
    BY <2>1, <2>2
<1>9. rendered \in Piece /\ Told(table', x)
  <2>1. CASE ~on
    BY <1>5, <2>1 DEF Told, p
  <2>2. CASE on /\ ~Plain(natSetup, known, p) /\ NamesIn(known, v) = {}
    <3>1. rendered = p
      BY <1>5, <2>2, SameTranslation DEF ShownAs
    <3> QED
      BY <1>5, <3>1 DEF Told, p
  <2>3. CASE on /\ NamesIn(known, v) # {}
    <3>1. rendered = Secrets!Ref(CHOOSE n \in NamesIn(known, v) : TRUE)
      BY <1>5, <2>3, SameTranslation DEF ShownAs
    <3>2. DOMAIN known \subseteq Names
      BY DEF Setting, Known
    <3>3. (CHOOSE n \in NamesIn(known, v) : TRUE) \in Names
      BY <2>3, <3>2 DEF NamesIn
    <3>4. rendered.kind = "ref" /\ rendered \in Piece
      <4> HIDE DEF rendered
      <4>1. \A n \in Names : Secrets!Ref(n) \in Piece /\ Secrets!Ref(n).kind = "ref"
        BY DEF Secrets!Ref, Piece
      <4> QED
        BY <3>1, <3>3, <4>1
    <3> QED
      BY <3>4 DEF Told
  <2>4. CASE on /\ Plain(natSetup, known, p)
    <3>1. rendered = after.token[v] /\ v \in DOMAIN after.token
      BY <1>5, <1>6, <2>4, SameTranslation DEF ShownAs, Plain
    <3>2. rendered \in Token
      BY <1>6, <3>1 DEF Table, Naming
    <3>3. table'[h] = after
      BY <1>2, <1>3, <2>4
    <3> HIDE DEF rendered
    <3>4. rendered \in Piece /\ rendered.kind = "token"
      BY <3>2 DEF Piece, Token
    <3>5. x.shown = rendered /\ x.stood = v /\ x.table = h
      OBVIOUS
    <3> QED
      BY <3>1, <3>3, <3>4, <3>5 DEF Told
  <2> QED
    BY <1>5, <2>1, <2>2, <2>3, <2>4 DEF Plain
<1> HIDE DEF rendered, u
<1>10. x \in Turn /\ x.table = h
  BY <1>1, <1>3, <1>9 DEF Turn
<1> HIDE DEF x
<1>11. Len(table') = Len(table) /\ Setting' /\ Handles' /\ Grows
  BY <1>1, <1>2, <1>7, <1>8, OwnTable DEF t
<1>12. x.table \in 1 .. Len(table') /\ x.table <= held[c] /\ Told(table', x) /\ UNCHANGED <<natSetup, held, wire>>
  BY <1>2, <1>3, <1>10, <1>11, <1>9
<1>13. /\ Written' /\ Sent'
       /\ \A d \in Convs : \A i \in 1 .. Len(conv'[d]) :
             \/ d = c /\ conv'[d][i] = x
             \/ i \in 1 .. Len(conv[d]) /\ conv'[d][i] = conv[d][i]
  BY <1>1, <1>2, <1>10, <1>11, <1>12, AppendedTurn
<1>14. Repeated'
  <2>1. ~x.kept
    BY DEF x
  <2>2. UNCHANGED <<wire, told>>
    BY <1>2
  <2> QED
    BY <1>13, <2>1, <2>2 DEF Repeated
<1>15. Secrets!Reversible'
  BY <1>2 DEF Secrets!Reversible
<1> QED
  BY <1>11, <1>13, <1>14, <1>15

(* What a piece is shown as is a piece, and no secret.                     *)
LEMMA ShownAsFacts ==
  ASSUME Setting, NEW t \in Table, NEW p \in Piece, Plain(natSetup, known, p) => p.value \in DOMAIN t.token
  PROVE  /\ ShownAs(natSetup, t, known, p) \in Piece
         /\ ~Secrets!Secret(ShownAs(natSetup, t, known, p))
<1> DEFINE r == ShownAs(natSetup, t, known, p)
<1>1. CASE p.kind # "value"
  <2>1. r = p
    BY <1>1 DEF ShownAs
  <2> QED
    BY <1>1, <2>1 DEF Secrets!Secret
<1>2. CASE p.kind = "value" /\ NamesIn(known, p.value) # {}
  <2>1. r = Secrets!Ref(CHOOSE n \in NamesIn(known, p.value) : TRUE)
    BY <1>2 DEF ShownAs
  <2>2. DOMAIN known \subseteq Names
    BY DEF Setting, Known
  <2>3. (CHOOSE n \in NamesIn(known, p.value) : TRUE) \in Names
    BY <1>2, <2>2 DEF NamesIn
  <2>4. \A n \in Names : Secrets!Ref(n) \in Piece /\ Secrets!Ref(n).kind = "ref"
    BY DEF Secrets!Ref, Piece
  <2>5. r \in Piece /\ r.kind = "ref"
    <3> HIDE DEF r
    <3> QED
      BY <2>1, <2>3, <2>4
  <2> HIDE DEF r
  <2>6. ~Secrets!Secret(r)
    BY <2>5 DEF Secrets!Secret
  <2> QED
    BY <2>5, <2>6 DEF r
<1>3. CASE Plain(natSetup, known, p)
  <2>1. r = t.token[p.value] /\ p.value \in DOMAIN t.token
    BY <1>3 DEF ShownAs, Plain
  <2>2. \A v \in DOMAIN t.token : t.token[v] \in Token
    BY DEF Table, Naming
  <2>3. r \in Token
    <3> HIDE DEF r
    <3> QED
      BY <2>1, <2>2
  <2> HIDE DEF r
  <2>4. r \in Piece /\ r.kind = "token"
    BY <2>3 DEF Piece, Token
  <2>5. ~Secrets!Secret(r)
    BY <2>4 DEF Secrets!Secret
  <2> QED
    BY <2>4, <2>5 DEF r
<1>4. CASE p.kind = "value" /\ NamesIn(known, p.value) = {} /\ ~Plain(natSetup, known, p)
  <2>1. r = p /\ p.value \notin natSetup.detectable
    BY <1>4 DEF ShownAs, Plain
  <2>2. Secrets!NamesOf(p.value) = {}
    BY <1>4 DEF Secrets!NamesOf, NamesIn
  <2> QED
    BY <2>1, <2>2 DEF Secrets!Secret, Secrets!Detectable
<1> QED
  BY <1>1, <1>2, <1>3, <1>4 DEF Plain

(* The request of a conversation. *)
LEMMA RequestMade ==
  ASSUME Translated, NEW c \in Convs, Secrets!Request(c), UNCHANGED natSetup
  PROVE  /\ Setting' /\ Handles' /\ Grows /\ held[c] \in 1 .. Len(table) /\ conv[c] \in Seq(Turn)
         /\ UNCHANGED <<sessions, held, known, enabled, mode, conv, got>>
         /\ wire' = [d \in Convs |-> wire'[d]] /\ \A d \in Convs \ {c} : wire'[d] = wire[d]
         /\ wire'[c].under = <<held[c], known, Secrets!On(held[c])>>
         /\ told' = [told EXCEPT ![c] = @ \cup Secrets!InClear(wire'[c].turns)]
         /\ wire'[c].turns \in Seq(Piece) /\ Len(wire'[c].turns) = Len(conv[c])
         /\ \A i \in 1 .. Len(conv[c]) :
               /\ wire'[c].turns[i] = IF Secrets!On(held[c]) /\ ~conv[c][i].kept
                                      THEN ShownAs(natSetup, table'[held[c]], known, conv[c][i].shown)
                                      ELSE conv[c][i].shown
               /\ Secrets!On(held[c]) /\ ~conv[c][i].kept =>
                     /\ ~Secrets!Secret(wire'[c].turns[i])
                     /\ Plain(natSetup, known, conv[c][i].shown)
                          => conv[c][i].shown.value \in DOMAIN table'[held[c]].token
<1> USE DEF Translated
<1> DEFINE h == held[c]
           s == conv[c]
           on == Secrets!On(h)
           after == Secrets!Afterwards(c)
           u == IF on THEN after ELSE table[h]
<1>1. /\ h # 0 /\ table' = [table EXCEPT ![h] = u]
      /\ wire' = [wire EXCEPT ![c] = [turns |-> Secrets!Outgoing(c, u), under |-> <<h, known, on>>]]
      /\ told' = [told EXCEPT ![c] = @ \cup Secrets!InClear(Secrets!Outgoing(c, u))]
      /\ UNCHANGED <<sessions, held, known, enabled, mode, conv, got>>
  BY DEF Secrets!Request
<1>2. table \in Seq(Table) /\ Len(table) \in Nat /\ h \in 1 .. Len(table)
  <2>1. h \in 0 .. Len(table) /\ table \in Seq(Table) /\ Len(table) \in Nat
    BY LenProperties DEF Handles, Setting
  <2> QED
    BY <1>1, <2>1
<1>3. s \in Seq(Turn) /\ Len(s) \in Nat /\ DOMAIN s = 1 .. Len(s)
  BY LenProperties DEF Written
<1>4. /\ after \in Table /\ Numbered(natSetup, after) /\ Extends(table[h], after)
      /\ \A i \in 1 .. Len(s) :
           ~s[i].kept /\ Plain(natSetup, known, s[i].shown) => s[i].shown.value \in DOMAIN after.token
  BY <1>2, <1>3, AfterwardsFacts
<1>5. table[h] \in Table /\ Numbered(natSetup, table[h])
  BY <1>2, ElementOfSeq DEF Setting
<1> DEFINE piece(i) == IF on /\ ~s[i].kept THEN ShownAs(natSetup, u, known, s[i].shown) ELSE s[i].shown
<1>8. Secrets!Outgoing(c, u) = [i \in 1 .. Len(s) |-> piece(i)]
  BY <1>3, SameTranslation DEF Secrets!Outgoing
<1> HIDE DEF after, on
<1>6. /\ u \in Table /\ Numbered(natSetup, u) /\ Extends(table[h], u)
      /\ on => \A i \in 1 .. Len(s) :
           ~s[i].kept /\ Plain(natSetup, known, s[i].shown) => s[i].shown.value \in DOMAIN u.token
  BY <1>4, <1>5, ExtendsSame
<1> HIDE DEF u
<1>7. Setting' /\ Handles' /\ Grows /\ table'[h] = u
  BY <1>1, <1>6, OwnTable
<1>9. ASSUME NEW i \in 1 .. Len(s)
      PROVE  piece(i) \in Piece /\ (on /\ ~s[i].kept => ~Secrets!Secret(piece(i)))
  <2>1. s[i].shown \in Piece
    <3>1. s[i] \in Turn
      BY <1>3, <1>9, ElementOfSeq
    <3> QED
      BY <3>1 DEF Turn
  <2>2. CASE on /\ ~s[i].kept
    <3>1. Plain(natSetup, known, s[i].shown) => s[i].shown.value \in DOMAIN u.token
      BY <1>6, <1>9, <2>2
    <3> HIDE DEF s
    <3>2. /\ ShownAs(natSetup, u, known, s[i].shown) \in Piece
          /\ ~Secrets!Secret(ShownAs(natSetup, u, known, s[i].shown))
      BY <1>6, <2>1, <3>1, ShownAsFacts
    <3> QED
      BY <2>2, <3>2
  <2> QED
    BY <2>1, <2>2
<1> HIDE DEF s
<1> DEFINE turns == [i \in 1 .. Len(s) |-> piece(i)]
<1>10. /\ turns \in Seq(Piece) /\ Len(turns) = Len(s)
       /\ \A i \in 1 .. Len(s) : turns[i] = piece(i)
  <2> HIDE DEF piece
  <2>1. turns \in Seq(Piece)
    BY <1>3, <1>9, IsASeq
  <2> QED
    BY <1>3, <2>1, LenProperties
<1>11. /\ wire = [d \in Convs |-> wire[d]]
       /\ wire' = [wire EXCEPT ![c] = [turns |-> turns, under |-> <<h, known, on>>]]
       /\ told' = [told EXCEPT ![c] = @ \cup Secrets!InClear(turns)]
  BY <1>1, <1>8 DEF Sent
<1> HIDE DEF turns
<1>12. /\ wire' = [d \in Convs |-> wire'[d]] /\ \A d \in Convs \ {c} : wire'[d] = wire[d]
       /\ wire'[c].turns = turns /\ wire'[c].under = <<h, known, on>>
  BY <1>11
<1> HIDE DEF h, piece
<1>13. ASSUME NEW i \in 1 .. Len(s)
       PROVE  /\ wire'[c].turns[i] = piece(i)
              /\ on /\ ~s[i].kept => /\ ~Secrets!Secret(wire'[c].turns[i])
                                     /\ Plain(natSetup, known, s[i].shown) => s[i].shown.value \in DOMAIN u.token
  BY <1>6, <1>9, <1>10, <1>12
<1> QED
  BY <1>1, <1>2, <1>3, <1>7, <1>10, <1>11, <1>12, <1>13 DEF h, s, on, piece

LEMMA RequestStep ==
  ASSUME Translated, NEW c \in natSetup.convs, Secrets!Request(c), UNCHANGED natSetup
  PROVE  Translated' /\ Grows
<1> USE DEF Translated
<1>1. c \in Convs
  BY FewValues DEF Setting
<1>2. PICK h, k, e : h = held[c] /\ k = known /\ e = Secrets!On(held[c])
  OBVIOUS
<1>3. /\ Setting' /\ Handles' /\ Grows /\ h \in 1 .. Len(table) /\ conv[c] \in Seq(Turn)
      /\ UNCHANGED <<held, conv, got>>
      /\ wire' = [d \in Convs |-> wire'[d]] /\ \A d \in Convs \ {c} : wire'[d] = wire[d]
      /\ wire'[c].under = <<h, k, e>>
      /\ told' = [told EXCEPT ![c] = @ \cup Secrets!InClear(wire'[c].turns)]
      /\ wire'[c].turns \in Seq(Piece) /\ Len(wire'[c].turns) = Len(conv[c])
      /\ \A i \in 1 .. Len(conv[c]) :
            /\ wire'[c].turns[i] = IF e /\ ~conv[c][i].kept THEN ShownAs(natSetup, table'[h], k, conv[c][i].shown)
                                                            ELSE conv[c][i].shown
            /\ e /\ ~conv[c][i].kept /\ Plain(natSetup, k, conv[c][i].shown)
                 => conv[c][i].shown.value \in DOMAIN table'[h].token
  BY <1>1, <1>2, RequestMade
<1>4. Written'
  <2>1. conv' \in [Convs -> Seq(Turn)]
    BY <1>3 DEF Written
  <2>2. ASSUME NEW d \in Convs, NEW i \in 1 .. Len(conv[d])
        PROVE  /\ conv[d][i].table \in 1 .. Len(table') /\ Told(table', conv[d][i])
               /\ held'[d] # 0 => conv[d][i].table <= held'[d]
    <3>1. /\ conv[d][i].table \in 1 .. Len(table) /\ Told(table, conv[d][i])
          /\ held[d] # 0 => conv[d][i].table <= held[d]
      BY <2>2 DEF Written
    <3>2. held' = held
      BY <1>3
    <3>3. conv[d][i].table \in 1 .. Len(table') /\ Told(table', conv[d][i])
      BY <1>3, <3>1, ToldLater
    <3> QED
      BY <3>1, <3>2, <3>3
  <2>3. conv' = conv
    BY <1>3
  <2> QED
    BY <2>1, <2>2, <2>3 DEF Written
<1>5. SentUnder(c, h, k, e)'
  <2>1. held[c] # 0 /\ h \in 1 .. held[c] /\ k \in Known /\ Len(conv[c]) \in Nat
    BY <1>2, <1>3, LenProperties DEF Setting
  <2>2. \A i \in 1 .. Len(conv[c]) : conv[c][i].table <= h
    BY <1>1, <1>2, <2>1 DEF Written
  <2>3. held' = held /\ conv' = conv /\ natSetup' = natSetup /\ Len(conv[c]) <= Len(conv[c])
    BY <1>3, <2>1
  <2> QED
    BY <1>3, <2>1, <2>2, <2>3 DEF SentUnder
<1>6. Sent'
  <2>1. ASSUME NEW d \in Convs \ {c}, NEW a, NEW l, NEW b, SentUnder(d, a, l, b)
        PROVE  SentUnder(d, a, l, b)'
    <3>1. held[d] # 0
      BY <2>1 DEF SentUnder
    <3>2. held'[d] # 0 /\ held[d] <= held'[d]
      BY <1>3, <3>1, Stays
    <3>3. wire'[d] = wire[d] /\ conv' = conv /\ Len(conv[d]) \in Nat
      BY <1>3, LenProperties DEF Written
    <3> QED
      BY <1>3, <2>1, <3>2, <3>3, SentLater
  <2>2. ASSUME NEW d \in Convs, wire'[d].turns # <<>>
        PROVE  \E a, l, b : wire'[d].under = <<a, l, b>> /\ SentUnder(d, a, l, b)'
    <3>1. CASE d = c
      BY <1>3, <1>5, <3>1
    <3>2. CASE d # c
      <4>1. wire'[d] = wire[d]
        BY <1>3, <3>2
      <4>2. PICK a, l, b : wire[d].under = <<a, l, b>> /\ SentUnder(d, a, l, b)
        BY <2>2, <4>1 DEF Sent
      <4> QED
        BY <2>1, <3>2, <4>1, <4>2
    <3> QED
      BY <3>1, <3>2
  <2> QED
    BY <1>3, <2>2 DEF Sent
<1>7. Repeated'
  <2>1. /\ told' = [d \in Convs |-> told'[d]] /\ \A d \in Convs : told[d] \subseteq told'[d]
        /\ Secrets!InClear(wire'[c].turns) \subseteq told'[c]
    BY <1>1, <1>3 DEF Repeated
  <2>2. ASSUME NEW d \in Convs, NEW i \in DOMAIN wire'[d].turns, wire'[d].turns[i].kind = "value"
        PROVE  wire'[d].turns[i].value \in told'[d]
    <3>1. CASE d = c
      <4>1. wire'[c].turns[i].value \in Secrets!InClear(wire'[c].turns)
        BY <2>2, <3>1 DEF Secrets!InClear
      <4> QED
        BY <2>1, <3>1, <4>1
    <3>2. CASE d # c
      <4>1. wire'[d] = wire[d]
        BY <1>3, <3>2
      <4> QED
        BY <2>1, <2>2, <4>1 DEF Repeated
    <3> QED
      BY <3>1, <3>2
  <2>3. conv' = conv
    BY <1>3
  <2> QED
    BY <2>1, <2>2, <2>3 DEF Repeated
<1>8. Secrets!Reversible'
  BY <1>3 DEF Secrets!Reversible
<1> QED
  BY <1>3, <1>4, <1>6, <1>7, <1>8

(* A piece of the request that the model may repeat.                       *)
LEMMA Repeatable ==
  ASSUME Translated, NEW c \in Convs, NEW i \in DOMAIN wire[c].turns
  PROVE  /\ wire[c].turns # <<>> /\ wire[c].turns \in Seq(Piece)
         /\ i \in 1 .. Len(wire[c].turns) /\ i \in 1 .. Len(conv[c])
<1> USE DEF Translated
<1>1. wire[c].turns # <<>>
  OBVIOUS
<1>2. wire[c].turns \in Seq(Piece) /\ Len(wire[c].turns) <= Len(conv[c])
  BY <1>1 DEF Sent, SentUnder
<1>3. Len(wire[c].turns) \in Nat /\ Len(conv[c]) \in Nat /\ DOMAIN wire[c].turns = 1 .. Len(wire[c].turns)
  BY <1>2, LenProperties DEF Written
<1> QED
  BY <1>1, <1>2, <1>3

(* What the model writes is shown as its request showed it.                *)
LEMMA ReplyStep ==
  ASSUME Translated, NEW c \in natSetup.convs, NEW i, Secrets!Reply(c, i), UNCHANGED natSetup
  PROVE  Translated' /\ Grows
<1> USE DEF Translated
<1>1. c \in Convs
  BY FewValues DEF Setting
<1> DEFINE q == conv[c][i]
           p == wire[c].turns[i]
           n == IF q.shown.kind = "token" THEN q.table ELSE wire[c].under[1]
           x(b) == [shown |-> p, stood |-> q.stood, kept |-> b, table |-> n]
<1>2. PICK b \in BOOLEAN : conv' = [conv EXCEPT ![c] = Append(@, x(b))]
  BY DEF Secrets!Reply
<1>3. /\ held[c] # 0 /\ i \in DOMAIN wire[c].turns
      /\ UNCHANGED <<table, sessions, held, known, enabled, mode, wire, told, got>>
  BY DEF Secrets!Reply
<1>4. Setting' /\ Handles' /\ Grows /\ table' = table
  <2>1. Setting' /\ Grows
    BY <1>3, SameTables, LaterSetting DEF Setting
  <2> QED
    BY <1>3, <2>1 DEF Handles
<1>5. wire[c].turns # <<>> /\ wire[c].turns \in Seq(Piece) /\ i \in 1 .. Len(wire[c].turns) /\ i \in 1 .. Len(conv[c])
  BY <1>1, <1>3, Repeatable
<1>6. PICK h, k, e : wire[c].under = <<h, k, e>> /\ SentUnder(c, h, k, e)
  BY <1>1, <1>5 DEF Sent
<1>7. /\ h \in 1 .. held[c] /\ q.table <= h
      /\ p = IF e /\ ~q.kept THEN ShownAs(natSetup, table[h], k, q.shown) ELSE q.shown
      /\ e /\ ~q.kept /\ Plain(natSetup, k, q.shown) => q.shown.value \in DOMAIN table[h].token
  BY <1>5, <1>6 DEF SentUnder
<1>8. q \in Turn /\ q.table \in 1 .. Len(table) /\ Told(table, q) /\ p \in Piece
  <2>1. conv[c] \in Seq(Turn)
    BY <1>1 DEF Written
  <2> QED
    BY <1>1, <1>5, <2>1, ElementOfSeq DEF Written
<1>9. held[c] \in 1 .. Len(table) /\ Len(table) \in Nat
  BY <1>1, <1>3, LenProperties DEF Handles, Setting
<1>10. n = IF q.shown.kind = "token" THEN q.table ELSE h
  BY <1>6
<1> HIDE DEF p, q, n
<1>11. n \in 1 .. Len(table) /\ n <= held[c]
  BY <1>7, <1>8, <1>9, <1>10
<1>12. x(b) \in Turn
  BY <1>8, <1>11 DEF Turn
<1>13. Told(table, x(b))
  <2>1. CASE q.shown.kind = "token"
    <3>1. p = q.shown /\ n = q.table
      BY <1>7, <1>10, <2>1 DEF ShownAs
    <3> QED
      BY <1>8, <3>1 DEF Told
  <2>2. CASE q.shown.kind # "token" /\ p.kind = "token"
    <3>1. e /\ ~q.kept /\ p = ShownAs(natSetup, table[h], k, q.shown) /\ n = h
      BY <1>7, <1>10, <2>2
    <3>2. \A m : Secrets!Ref(m).kind # "token"
      BY DEF Secrets!Ref
    <3>3. q.shown.kind = "value" /\ Plain(natSetup, k, q.shown) /\ p = table[h].token[q.shown.value]
      BY <2>2, <3>1, <3>2 DEF ShownAs, Plain
    <3>4. q.shown.value = q.stood
      BY <1>8, <3>3 DEF Told, Secrets!Raw
    <3> QED
      BY <1>7, <2>2, <3>1, <3>3, <3>4 DEF Told
  <2>3. CASE p.kind # "token"
    <3>1. \A m : Secrets!Ref(m).kind # "value"
      BY DEF Secrets!Ref
    <3>2. ASSUME p.kind = "value" PROVE p = Secrets!Raw(q.stood)
      <4>1. CASE p = q.shown
        BY <1>8, <3>2, <4>1 DEF Told
      <4>2. CASE p # q.shown
        <5>1. e /\ ~q.kept /\ p = ShownAs(natSetup, table[h], k, q.shown)
          BY <1>7, <4>2
        <5>2. Plain(natSetup, k, q.shown) /\ p = table[h].token[q.shown.value]
          BY <3>1, <3>2, <4>2, <5>1 DEF ShownAs
        <5>3. table[h] \in Table
          BY <1>7, <1>9, ElementOfSeq DEF Setting
        <5>4. p \in Token
          BY <1>7, <5>1, <5>2, <5>3 DEF Table, Naming
        <5> QED
          BY <3>2, <5>4 DEF Token
      <4> QED
        BY <4>1, <4>2
    <3> QED
      BY <2>3, <3>2 DEF Told
  <2> QED
    BY <2>1, <2>2, <2>3
<1>14. x(b).table \in 1 .. Len(table') /\ x(b).table <= held[c] /\ Told(table', x(b)) /\ UNCHANGED <<natSetup, held, wire>>
  BY <1>3, <1>4, <1>11, <1>13
<1>15. b /\ p.kind = "value" => p.value \in told[c]
  BY <1>1, <1>3 DEF Repeated, p
<1> DEFINE y == x(b)
<1>16. y.shown = p /\ (y.kept <=> b)
  OBVIOUS
<1> HIDE DEF y
<1>17. /\ Written' /\ Sent'
       /\ \A d \in Convs : \A j \in 1 .. Len(conv'[d]) :
             \/ d = c /\ conv'[d][j] = y
             \/ j \in 1 .. Len(conv[d]) /\ conv'[d][j] = conv[d][j]
  <2>1. y \in Turn /\ y.table \in 1 .. Len(table') /\ y.table <= held[c] /\ Told(table', y)
        /\ conv' = [conv EXCEPT ![c] = Append(@, y)] /\ UNCHANGED <<natSetup, held, wire>>
    BY <1>2, <1>12, <1>14 DEF y
  <2> QED
    BY <1>1, <1>3, <1>4, <2>1, AppendedTurn
<1>18. Repeated'
  <2>1. UNCHANGED <<wire, told>>
    BY <1>3
  <2> QED
    BY <1>15, <1>16, <1>17, <2>1 DEF Repeated
<1>19. Secrets!Reversible'
  BY <1>3 DEF Secrets!Reversible
<1> QED
  BY <1>4, <1>17, <1>18, <1>19

(* The table under which a turn was written leads its token back.          *)
LEMMA RestoredFacts ==
  ASSUME Translated, NEW c \in Convs, NEW i \in 1 .. Len(wire[c].turns), wire[c].turns # <<>>,
         held[c] = conv[c][i].table, wire[c].turns[i].kind = "token"
  PROVE  Secrets!Restored(table[held[c]], wire[c].turns[i]) = Secrets!Raw(conv[c][i].stood)
<1> USE DEF Translated
<1> DEFINE x == conv[c][i]
           p == wire[c].turns[i]
           t == table[held[c]]
<1>1. PICK h, k, e : SentUnder(c, h, k, e)
  BY DEF Sent
<1>2. /\ held[c] # 0 /\ h \in 1 .. held[c] /\ x.table <= h
      /\ p = IF e /\ ~x.kept THEN ShownAs(natSetup, table[h], k, x.shown) ELSE x.shown
      /\ e /\ ~x.kept /\ Plain(natSetup, k, x.shown) => x.shown.value \in DOMAIN table[h].token
  BY <1>1 DEF SentUnder
<1>3. held[c] \in 1 .. Len(table) /\ table \in Seq(Table) /\ Len(wire[c].turns) \in Nat
      /\ Len(wire[c].turns) <= Len(conv[c]) /\ Len(conv[c]) \in Nat
  <2>1. held[c] \in 0 .. Len(table) /\ table \in Seq(Table) /\ Len(table) \in Nat
    BY LenProperties DEF Handles, Setting
  <2>2. Len(wire[c].turns) \in Nat /\ Len(wire[c].turns) <= Len(conv[c]) /\ Len(conv[c]) \in Nat
    BY <1>1, LenProperties DEF SentUnder, Written
  <2> QED
    BY <1>2, <2>1, <2>2
<1>4. h = held[c]
  BY <1>2, <1>3
<1>5. Told(table, x) /\ x.table = held[c]
  BY <1>3 DEF Written
<1>6. Numbered(natSetup, t)
  BY <1>3 DEF Setting
<1> HIDE DEF x, t, p
<1>7. x.stood \in DOMAIN t.token /\ t.token[x.stood] = p
  <2>1. p.kind = "token"
    BY DEF p
  <2>2. CASE x.shown.kind # "value"
    <3>1. p = x.shown
      BY <1>2, <2>2 DEF ShownAs
    <3> QED
      BY <1>5, <2>1, <3>1 DEF Told, t
  <2>3. CASE x.shown.kind = "value"
    <3>1. x.shown.value = x.stood
      BY <1>5, <2>3 DEF Told, Secrets!Raw
    <3>2. p # x.shown
      BY <2>1, <2>3
    <3>3. e /\ ~x.kept /\ p = ShownAs(natSetup, t, k, x.shown)
      BY <1>2, <1>4, <3>2 DEF t
    <3>4. \A n : Secrets!Ref(n).kind # "token"
      BY DEF Secrets!Ref
    <3>5. Plain(natSetup, k, x.shown) /\ p = t.token[x.shown.value]
      BY <2>1, <2>3, <3>2, <3>3, <3>4 DEF ShownAs
    <3> QED
      BY <1>2, <1>4, <3>1, <3>3, <3>5 DEF t
  <2> QED
    BY <2>2, <2>3
<1>8. \A v \in DOMAIN t.token : t.token[v] = p => v = x.stood
  BY <1>6, <1>7 DEF Numbered
<1>9. (CHOOSE v \in DOMAIN t.token : t.token[v] = p) = x.stood
  BY <1>7, <1>8
<1> QED
  BY <1>7, <1>9 DEF Secrets!Restored, x, t, p

LEMMA ToolCallStep ==
  ASSUME Translated, NEW c \in natSetup.convs, NEW i, Secrets!ToolCall(c, i), UNCHANGED natSetup
  PROVE  Translated' /\ Grows
<1> USE DEF Translated
<1>1. c \in Convs
  BY FewValues DEF Setting
<1> DEFINE h == held[c]
           t == table[h]
           on == Secrets!On(h)
           u == IF on /\ t.token # <<>> THEN [t EXCEPT !.idle = FALSE] ELSE t
<1>2. /\ h # 0 /\ i \in DOMAIN wire[c].turns
      /\ got' = [kind |-> "tool", conv |-> c, turn |-> conv[c][i], via |-> h, wrote |-> wire[c].turns[i],
                 on |-> on, input |-> IF on THEN Secrets!Restored(t, wire[c].turns[i])
                                           ELSE wire[c].turns[i]]
      /\ table' = IF on /\ t.token # <<>> THEN [table EXCEPT ![h].idle = FALSE] ELSE table
      /\ UNCHANGED <<sessions, held, known, enabled, mode, conv, wire, told>>
  BY DEF Secrets!ToolCall
<1> HIDE DEF on
<1>3. table \in Seq(Table) /\ Len(table) \in Nat /\ h \in 1 .. Len(table)
  <2>1. h \in 0 .. Len(table) /\ table \in Seq(Table) /\ Len(table) \in Nat
    BY <1>1, LenProperties DEF Handles, Setting
  <2> QED
    BY <1>2, <2>1
<1>4. t \in Table /\ Numbered(natSetup, t)
  BY <1>3, ElementOfSeq DEF Setting
<1>5. table' = [table EXCEPT ![h] = u]
  <2>1. CASE on /\ t.token # <<>>
    BY <1>2, <2>1
  <2>2. CASE ~(on /\ t.token # <<>>)
    <3>1. table' = table /\ u = table[h]
      BY <1>2, <2>2
    <3>2. table = [table EXCEPT ![h] = table[h]]
      BY <1>3
    <3> QED
      BY <3>1, <3>2
  <2> QED
    BY <2>1, <2>2
<1>6. u \in Table /\ Numbered(natSetup, u) /\ Extends(t, u)
  <2> HIDE DEF t
  <2>1. u \in Table /\ u.token = t.token /\ u.seq = t.seq
    BY <1>4 DEF Table
  <2> HIDE DEF u
  <2> QED
    BY <1>4, <2>1 DEF Numbered, Extends
<1> HIDE DEF u
<1>7. Setting' /\ Handles' /\ Grows
  BY <1>1, <1>2, <1>5, <1>6, OwnTable
<1>8. Secrets!Reversible'
  <2> SUFFICES ASSUME got'.kind = "tool", got'.wrote.kind = "token", got'.via = got'.turn.table, got'.on
               PROVE  got'.input = Secrets!Raw(got'.turn.stood)
    BY DEF Secrets!Reversible
  <2> DEFINE p == wire[c].turns[i]
  <2>1. /\ got'.turn = conv[c][i] /\ got'.via = h /\ got'.wrote = p /\ (got'.on <=> on)
        /\ on => got'.input = Secrets!Restored(t, p)
    BY <1>2
  <2>2. i \in 1 .. Len(wire[c].turns) /\ wire[c].turns # <<>>
    BY <1>1, <1>2, Repeatable
  <2> HIDE DEF p, t
  <2>3. Secrets!Restored(t, p) = Secrets!Raw(conv[c][i].stood)
    BY <1>1, <2>1, <2>2, RestoredFacts DEF p, t
  <2> QED
    BY <2>1, <2>3
<1>9. Written' /\ Sent'
  <2>1. UNCHANGED <<conv, wire, held>>
    BY <1>2
  <2>2. ASSUME NEW d \in Convs, NEW j \in 1 .. Len(conv[d])
        PROVE  /\ conv[d][j].table \in 1 .. Len(table') /\ Told(table', conv[d][j])
               /\ held[d] # 0 => conv[d][j].table <= held[d]
    <3>1. /\ conv[d][j].table \in 1 .. Len(table) /\ Told(table, conv[d][j])
          /\ held[d] # 0 => conv[d][j].table <= held[d]
      BY <2>2 DEF Written
    <3> QED
      BY <1>7, <3>1, ToldLater
  <2>3. Written'
    BY <2>1, <2>2 DEF Written
  <2>4. ASSUME NEW d \in Convs, wire[d].turns # <<>>, NEW a, NEW k, NEW e, SentUnder(d, a, k, e)
        PROVE  SentUnder(d, a, k, e)'
    <3>1. held[d] # 0
      BY <2>4 DEF SentUnder
    <3>2. held'[d] # 0 /\ held[d] <= held'[d]
      BY <2>1, <3>1, Stays
    <3>3. Len(conv[d]) \in Nat
      BY LenProperties DEF Written
    <3> QED
      BY <1>7, <2>1, <2>4, <3>2, <3>3, SentLater
  <2>5. Sent'
    BY <2>1, <2>4 DEF Sent
  <2> QED
    BY <2>3, <2>5
<1>10. Repeated'
  <2>1. UNCHANGED <<conv, wire, told>>
    BY <1>2
  <2> QED
    BY <2>1 DEF Repeated
<1> QED
  BY <1>7, <1>8, <1>9, <1>10

LEMMA TranslatedStep ==
  ASSUME Translated, [Secrets!Next]_Secrets!vars
  PROVE  Translated' /\ Grows
<1>1. CASE Secrets!Next
  <2>1. UNCHANGED natSetup /\ Secrets!Step
    BY <1>1 DEF Secrets!Next
  <2>2. ASSUME NEW c \in natSetup.convs,
               \/ Secrets!Session(c) \/ Secrets!Inspect(c) \/ Secrets!CloseSession(c)
               \/ Secrets!SetOverride(c) \/ Secrets!Request(c)
        PROVE  Translated' /\ Grows
    BY <2>1, <2>2, SessionStep, InspectStep, CloseSessionStep, OverrideStep, RequestStep
  <2>3. ASSUME NEW c \in natSetup.convs, NEW v \in natSetup.values, Secrets!Write(c, v)
        PROVE  Translated' /\ Grows
    BY <2>1, <2>3, WriteStep
  <2>4. ASSUME NEW c \in natSetup.convs, NEW i, Secrets!Reply(c, i) \/ Secrets!ToolCall(c, i)
        PROVE  Translated' /\ Grows
    BY <2>1, <2>4, ReplyStep, ToolCallStep
  <2>5. CASE Secrets!Silence \/ Secrets!Restart
    BY <2>1, <2>5, SilenceStep, RestartStep
  <2>6. CASE Secrets!UpdateKnownSecrets \/ Secrets!SetEnabled \/ Secrets!SetMode
    BY <2>1, <2>6, SettingsStep
  <2> QED
    BY <2>1, <2>2, <2>3, <2>4, <2>5, <2>6 DEF Secrets!Step
<1>2. CASE UNCHANGED Secrets!vars
  <2> USE DEF Translated
  <2>1. UNCHANGED <<natSetup, table, sessions, held, known, enabled, mode, conv, wire, told, got>>
    BY <1>2 DEF Secrets!vars
  <2>2. Setting' /\ Grows
    BY <2>1, SameTables, LaterSetting DEF Setting
  <2>3. Handles'
    BY <2>1 DEF Handles
  <2>4. /\ \A c \in Convs : held[c] # 0 => held'[c] # 0
        /\ \A c \in Convs : held'[c] # 0 => held[c] # 0 /\ held[c] <= held'[c]
    BY <2>1, Stays
  <2> QED
    BY <2>1, <2>2, <2>3, <2>4, Frame
<1> QED
  BY <1>1, <1>2

LEMMA TranslatedInit ==
  ASSUME Secrets!Init
  PROVE  Translated
<1>1. /\ natSetup \in NatSetups /\ table = <<>> /\ known = <<>> /\ enabled = TRUE /\ mode \in natSetup.modes
      /\ sessions = [c \in Convs |-> 0] /\ held = [c \in Convs |-> 0]
      /\ conv = [c \in Convs |-> <<>>] /\ wire = [c \in Convs |-> [turns |-> <<>>]] /\ got = Secrets!None
      /\ told = [c \in Convs |-> {}]
  BY DEF Secrets!Init, Secrets!Modes
<1>2. table \in Seq(Table) /\ Len(table) = 0
  BY <1>1, EmptySeq
<1>3. known \in Known
  <2>1. <<>> \in [{} -> Values]
    OBVIOUS
  <2> QED
    BY <1>1, <2>1 DEF Known
<1>4. Setting
  BY <1>1, <1>2, <1>3 DEF Setting
<1>5. Handles
  BY <1>1, <1>2 DEF Handles
<1>6. Written
  <2>1. \A c \in Convs : conv[c] = <<>> /\ Len(conv[c]) = 0 /\ conv[c] \in Seq(Turn)
    BY <1>1, EmptySeq
  <2> QED
    BY <1>1, <2>1 DEF Written
<1>7. Sent
  <2>1. wire = [c \in Convs |-> wire[c]] /\ \A c \in Convs : wire[c].turns = <<>>
    BY <1>1
  <2> QED
    BY <2>1 DEF Sent
<1>8. Secrets!Reversible
  BY <1>1 DEF Secrets!Reversible, Secrets!None
<1>9. Repeated
  <2>1. \A c \in Convs : wire[c].turns = <<>> /\ DOMAIN <<>> = {} /\ conv[c] = <<>> /\ Len(conv[c]) = 0
    BY <1>1
  <2>2. \A c \in Convs : 1 .. Len(conv[c]) = {}
    BY <2>1
  <2> QED
    BY <1>1, <2>1, <2>2 DEF Repeated
<1> QED
  BY <1>4, <1>5, <1>6, <1>7, <1>8, <1>9 DEF Translated

LEMMA TranslatedReversible == Translated => Secrets!TokensReversible
<1> SUFFICES ASSUME Translated PROVE Secrets!TokensReversible
  OBVIOUS
<1> USE DEF Translated
<1>1. /\ table \in Seq(Table) /\ Len(table) \in Nat /\ DOMAIN table = 1 .. Len(table)
      /\ natSetup \in NatSetups
  BY LenProperties DEF Setting
<1>2. Secrets!Isolated
  BY DEF Secrets!Isolated, Handles
<1>3. ASSUME NEW i \in DOMAIN table
      PROVE  DOMAIN table[i].token \subseteq natSetup.detectable
             /\ table[i].seq = Secrets!Cardinality(DOMAIN table[i].token)
  <2>1. Numbered(natSetup, table[i])
    BY <1>1 DEF Setting
  <2> QED
    BY <2>1, SameCount DEF Numbered
<1>4. {sessions[c] : c \in Convs} \cup {held[c] : c \in Convs} \subseteq 0 .. Len(table)
  <2>1. \A c \in Convs : sessions[c] \in 0 .. Len(table) /\ held[c] \in 0 .. Len(table)
    BY DEF Handles
  <2> QED
    BY <2>1
<1>5. ASSUME NEW c \in Convs, NEW i \in DOMAIN conv[c]
      PROVE  conv[c][i].shown \in Secrets!Pieces /\ conv[c][i].stood \in Values
  <2> DEFINE x == conv[c][i]
             p == x.shown
  <2>1. conv[c] \in Seq(Turn) /\ i \in 1 .. Len(conv[c])
    BY <1>5, LenProperties DEF Written
  <2>2. x \in Turn /\ x.table \in 1 .. Len(table) /\ Told(table, x)
    BY <2>1, ElementOfSeq DEF Written
  <2> HIDE DEF x
  <2>3. p \in Piece /\ x.stood \in Values
    BY <2>2 DEF Turn
  <2>4. CASE p \in Token
    <3> DEFINE t == table[x.table]
    <3>1. p.kind = "token"
      BY <2>4 DEF Token
    <3>2. x.stood \in DOMAIN t.token /\ t.token[x.stood] = p
      BY <2>2, <3>1 DEF Told
    <3>3. Numbered(natSetup, t)
      BY <2>2 DEF Setting
    <3> HIDE DEF t, p
    <3>4. /\ p.style \in natSetup.modes /\ p.n \in 1 .. t.seq
          /\ t.seq = Cardinality(DOMAIN t.token) /\ DOMAIN t.token \in SUBSET natSetup.detectable
      BY <3>2, <3>3 DEF Numbered
    <3>5. t.seq \in Nat /\ t.seq <= Cardinality(Values) /\ Cardinality(Values) \in Nat
      BY <1>1, <3>4, FewValues
    <3>6. p.n \in 1 .. Secrets!Cardinality(Values)
      BY <3>4, <3>5, SameCount
    <3>7. p = [kind |-> "token", style |-> p.style, n |-> p.n]
      BY <2>4 DEF Token
    <3>8. p \in [kind : {"token"}, style : Secrets!Modes, n : 1 .. Secrets!Cardinality(Values)]
      BY <3>4, <3>6, <3>7 DEF Secrets!Modes
    <3> QED
      BY <2>3, <3>8 DEF Secrets!Pieces, x, p
  <2>5. CASE p \notin Token
    BY <2>3, <2>5 DEF Piece, Secrets!Pieces, x
  <2> QED
    BY <2>4, <2>5
<1>6. Secrets!TypeOK
  BY <1>3, <1>4, <1>5 DEF Secrets!TypeOK, Secrets!Detectable
<1> QED
  BY <1>2, <1>6 DEF Secrets!TokensReversible

(* The step of a scene is a step of the sessions, or leaves them alone.    *)
LEMMA SecretsStep ==
  ASSUME [CNext]_<<vars, secrets, text, scene>>
  PROVE  [Secrets!Next]_Secrets!vars
<1>1. UNCHANGED secrets => UNCHANGED Secrets!vars
  BY DEF secrets, Secrets!vars
<1> QED
  BY <1>1 DEF CNext

(* A token leads back to the value it was written for, through later       *)
(* requests, other secrets and styles, closed and expired sessions and     *)
(* restarts, and a run never reads the table of another conversation       *)
(* (mapping.go, secretnat.go); for any conversations, values, names and    *)
(* setups.                                                                 *)
THEOREM TokensRestored == CSpec => []TokensReversible
<1>1. CInit => Translated
  BY TranslatedInit DEF CInit
<1>2. Translated /\ [CNext]_<<vars, secrets, text, scene>> => Translated'
  BY TranslatedStep, SecretsStep
<1>3. Translated => TokensReversible
  BY TranslatedReversible DEF TokensReversible
<1> QED
  BY <1>1, <1>2, <1>3, PTL DEF CSpec

(* A table takes no token back and gives none twice.                       *)
LEMMA TableGrowsStep ==
  ASSUME Translated, [Secrets!Next]_Secrets!vars
  PROVE  \A i \in DOMAIN table : \A v \in DOMAIN table[i].token :
            /\ v \in DOMAIN table'[i].token /\ table'[i].token[v] = table[i].token[v]
            /\ \A w \in DOMAIN table'[i].token : w # v => table'[i].token[w] # table[i].token[v]
<1>1. Translated' /\ Grows
  BY TranslatedStep
<1>2. DOMAIN table = 1 .. Len(table)
  BY LenProperties DEF Translated, Setting
<1>3. ASSUME NEW i \in 1 .. Len(table), NEW v \in DOMAIN table[i].token
      PROVE  /\ v \in DOMAIN table'[i].token /\ table'[i].token[v] = table[i].token[v]
             /\ \A w \in DOMAIN table'[i].token : w # v => table'[i].token[w] # table[i].token[v]
  <2>1. Extends(table[i], table'[i]) /\ i \in 1 .. Len(table')
    BY <1>1 DEF Grows
  <2>2. Numbered(natSetup', table'[i])
    BY <1>1, <2>1 DEF Translated, Setting
  <2> QED
    BY <1>3, <2>1, <2>2 DEF Extends, Numbered
<1> QED
  BY <1>2, <1>3

(* The step that changes a request: a request that carries turns is made,  *)
(* or all are forgotten.                                                   *)
LEMMA WireChanges ==
  ASSUME Translated, [Secrets!Next]_Secrets!vars, NEW c \in Convs
  PROVE  \/ wire'[c] = wire[c]
         \/ wire'[c].turns = <<>>
         \/ Secrets!Request(c) /\ UNCHANGED natSetup
<1>1. CASE Secrets!Next
  <2>1. UNCHANGED natSetup /\ Secrets!Step
    BY <1>1 DEF Secrets!Next
  <2>2. ASSUME NEW d \in natSetup.convs, Secrets!Request(d)
        PROVE  wire'[c] = wire[c] \/ Secrets!Request(c)
    <3>1. d \in Convs
      BY FewValues DEF Translated, Setting
    <3>2. CASE d # c
      BY <2>1, <2>2, <3>1, <3>2, RequestMade
    <3> QED
      BY <2>2, <3>2
  <2>3. CASE Secrets!Restart
    BY <2>3 DEF Secrets!Restart
  <2>4. CASE \/ \E d \in natSetup.convs :
                  Secrets!Session(d) \/ Secrets!Inspect(d) \/ Secrets!CloseSession(d) \/ Secrets!SetOverride(d)
             \/ \E d \in natSetup.convs, v \in natSetup.values : Secrets!Write(d, v)
             \/ \E d \in natSetup.convs, i \in 1 .. Secrets!MaxTurns : Secrets!Reply(d, i) \/ Secrets!ToolCall(d, i)
             \/ Secrets!Silence \/ Secrets!UpdateKnownSecrets \/ Secrets!SetEnabled \/ Secrets!SetMode
    <3>1. wire' = wire
      BY <2>4 DEF Secrets!Session, Secrets!Inspect, Secrets!CloseSession, Secrets!Write, Secrets!ToolCall, Secrets!SetOverride, Secrets!Reply,
                  Secrets!Silence, Secrets!UpdateKnownSecrets, Secrets!SetEnabled, Secrets!SetMode
    <3> QED
      BY <3>1
  <2> QED
    BY <2>1, <2>2, <2>3, <2>4 DEF Secrets!Step
<1>2. CASE UNCHANGED Secrets!vars
  BY <1>2 DEF Secrets!vars
<1> QED
  BY <1>1, <1>2

LEMMA RequestCleanStep ==
  ASSUME Translated, [Secrets!Next]_Secrets!vars, NEW c \in Convs, wire'[c] # wire[c], Secrets!On(held[c]),
         NEW i \in DOMAIN wire'[c].turns, Secrets!Secret(wire'[c].turns[i])
  PROVE  conv[c][i].kept /\ wire'[c].turns[i].value \in told[c]
<1>1. Secrets!Request(c) /\ UNCHANGED natSetup
  BY WireChanges
<1>2. wire'[c].turns \in Seq(Piece) /\ Len(wire'[c].turns) = Len(conv[c])
  BY <1>1, RequestMade
<1>3. i \in 1 .. Len(conv[c])
  BY <1>2, LenProperties
<1>4. conv[c][i].kept /\ wire'[c].turns[i] = conv[c][i].shown
  BY <1>1, <1>3, RequestMade
<1>5. conv[c][i].shown.kind = "value"
  BY <1>4 DEF Secrets!Secret
<1> QED
  BY <1>3, <1>4, <1>5 DEF Translated, Repeated

LEMMA RequestStableStep ==
  ASSUME Translated, [Secrets!Next]_Secrets!vars, NEW c \in Convs, wire[c].turns # <<>>,
         wire'[c].turns # <<>>, wire'[c].under = wire[c].under
  PROVE  Secrets!IsPrefix(wire[c].turns, wire'[c].turns)
<1> USE DEF Translated
<1> DEFINE old == wire[c].turns
           new == wire'[c].turns
<1>1. PICK h, k, e : wire[c].under = <<h, k, e>> /\ SentUnder(c, h, k, e)
  BY DEF Sent
<1>2. old \in Seq(Piece) /\ Len(old) \in Nat /\ Len(old) <= Len(conv[c])
  BY <1>1, LenProperties DEF SentUnder
<1>3. CASE wire'[c] = wire[c]
  BY <1>2, <1>3 DEF Secrets!IsPrefix
<1>4. CASE Secrets!Request(c) /\ UNCHANGED natSetup
  <2>1. /\ Grows /\ held[c] \in 1 .. Len(table)
        /\ new \in Seq(Piece) /\ Len(new) = Len(conv[c]) /\ wire'[c].under = <<held[c], known, Secrets!On(held[c])>>
        /\ \A i \in 1 .. Len(conv[c]) :
             new[i] = IF Secrets!On(held[c]) /\ ~conv[c][i].kept
                      THEN ShownAs(natSetup, table'[held[c]], known, conv[c][i].shown) ELSE conv[c][i].shown
    BY <1>4, RequestMade
  <2>2. h = held[c] /\ k = known /\ e = Secrets!On(held[c])
    BY <1>1, <2>1
  <2>3. Extends(table[h], table'[h])
    BY <2>1, <2>2 DEF Grows
  <2>4. Len(conv[c]) \in Nat /\ Len(new) \in Nat
    BY <2>1, LenProperties
  <2>5. ASSUME NEW i \in 1 .. Len(old)
        PROVE  new[i] = old[i]
    <3> DEFINE p == conv[c][i].shown
               kept == conv[c][i].kept
    <3>1. i \in 1 .. Len(conv[c])
      BY <1>2, <2>4
    <3>2. /\ old[i] = IF e /\ ~kept THEN ShownAs(natSetup, table[h], k, p) ELSE p
          /\ e /\ ~kept /\ Plain(natSetup, k, p) => p.value \in DOMAIN table[h].token
      BY <1>1, <2>5 DEF SentUnder
    <3>3. new[i] = IF e /\ ~kept THEN ShownAs(natSetup, table'[h], k, p) ELSE p
      BY <2>1, <2>2, <3>1
    <3> HIDE DEF p, kept, old, new
    <3>4. CASE e /\ ~kept
      <4>1. Plain(natSetup, k, p) => p.value \in DOMAIN table[h].token
        BY <3>2, <3>4
      <4>2. ShownAs(natSetup, table'[h], k, p) = ShownAs(natSetup, table[h], k, p)
        BY <2>3, <4>1, ShownSame
      <4> QED
        BY <3>2, <3>3, <3>4, <4>2
    <3>5. CASE ~(e /\ ~kept)
      BY <3>2, <3>3, <3>5
    <3> QED
      BY <3>4, <3>5
  <2> HIDE DEF old, new
  <2>6. SubSeq(old, 1, Len(old)) = [i \in 1 .. Len(old) |-> old[i]]
        /\ SubSeq(new, 1, Len(old)) = [i \in 1 .. Len(old) |-> new[i]]
    BY <1>2, <2>1, <2>4
  <2>7. Len(old) <= Len(new)
    BY <1>2, <2>1
  <2>8. SubSeq(old, 1, Len(old)) = SubSeq(new, 1, Len(old))
    BY <2>5, <2>6
  <2> QED
    BY <2>7, <2>8 DEF Secrets!IsPrefix, old, new
<1> QED
  BY <1>3, <1>4, WireChanges

(* While translation is on no request tells the model a registered or      *)
(* detected secret, unless the model repeats where nothing is rewritten    *)
(* what it was told in clear before; a request repeats the last one made with the same secrets,      *)
(* switch and handle; and no table takes a token back or gives it twice    *)
(* (sanitize.go, mapping.go).                                              *)
THEOREM RequestsClean == CSpec => RequestsTranslated
<1>1. CInit => Translated
  BY TranslatedInit DEF CInit
<1>2. Translated /\ [CNext]_<<vars, secrets, text, scene>> => Translated' /\ [Secrets!Next]_Secrets!vars
  BY TranslatedStep, SecretsStep
<1>3. Translated /\ [Secrets!Next]_Secrets!vars =>
        \A c \in Convs : wire'[c] # wire[c] /\ held[c] # 0 /\ Secrets!On(held[c]) =>
            \A i \in DOMAIN wire'[c].turns : Secrets!Secret(wire'[c].turns[i]) =>
                conv[c][i].kept /\ wire'[c].turns[i].value \in told[c]
  BY RequestCleanStep
<1>4. Translated /\ [Secrets!Next]_Secrets!vars =>
        \A c \in Convs : wire[c].turns # <<>> /\ wire'[c].turns # <<>> /\ wire'[c].under = wire[c].under
            => Secrets!IsPrefix(wire[c].turns, wire'[c].turns)
  BY RequestStableStep
<1>5. Translated /\ [Secrets!Next]_Secrets!vars =>
        \A i \in DOMAIN table : \A v \in DOMAIN table[i].token :
            /\ v \in DOMAIN table'[i].token /\ table'[i].token[v] = table[i].token[v]
            /\ \A w \in DOMAIN table'[i].token : w # v => table'[i].token[w] # table[i].token[v]
  BY TableGrowsStep
<1>6. CSpec => Secrets!RequestClean
  BY <1>1, <1>2, <1>3, PTL DEF CSpec, Secrets!RequestClean
<1>7. CSpec => Secrets!RequestStable
  BY <1>1, <1>2, <1>4, PTL DEF CSpec, Secrets!RequestStable
<1>8. CSpec => Secrets!TableGrows
  BY <1>1, <1>2, <1>5, PTL DEF CSpec, Secrets!TableGrows
<1> QED
  BY <1>6, <1>7, <1>8 DEF RequestsTranslated, Secrets!RequestsTranslated

-----------------------------------------------------------------------------
(* Streams: the text so far, however it was cut, is restored as a whole.   *)
(* A token that stands across the place where the text was cut would have  *)
(* been held back.                                                         *)

(* Texts one after the other, in any grouping.                             *)
Grouped(a, b, c) == (a \o b) \o c = a \o (b \o c)

LEMMA ListGrouped ==
  ASSUME NEW a, IsList(a), NEW b, IsList(b), NEW c, IsList(c)
  PROVE  Grouped(a, b, c)
BY ListAssociative DEF Grouped

(* A symbol in front of a text.                                            *)
Front(v, s) == <<v>> \o s

(* What has one in front.                                                  *)
LEMMA InFront ==
  ASSUME NEW v, NEW s, IsList(s)
  PROVE  /\ IsList(Front(v, s)) /\ Len(Front(v, s)) = Len(s) + 1 /\ Front(v, s)[1] = v
         /\ \A i \in 1 .. Len(s) : Front(v, s)[i + 1] = s[i]
<1> DEFINE h == <<v>>
           r == h \o s
<1>1. IsList(h) /\ Len(h) = 1 /\ h[1] = v
  BY ListOne
<1> HIDE DEF h
<1>2. /\ IsList(r) /\ Len(r) = Len(h) + Len(s)
      /\ \A i \in 1 .. Len(h) + Len(s) : r[i] = IF i <= Len(h) THEN h[i] ELSE s[i - Len(h)]
  BY <1>1, ListConcat
<1>3. Len(s) \in Nat
  BY ListFacts
<1> HIDE DEF r
<1>4. r[1] = v
  BY <1>1, <1>2, <1>3
<1>5. ASSUME NEW i \in 1 .. Len(s)
      PROVE  r[i + 1] = s[i]
  <2>1. i + 1 \in 1 .. 1 + Len(s) /\ ~(i + 1 <= 1) /\ (i + 1) - 1 = i
    BY <1>3
  <2> QED
    BY <1>1, <1>2, <2>1
<1> QED
  BY <1>1, <1>2, <1>3, <1>4, <1>5 DEF h, r, Front

LEMMA FrontConcat ==
  ASSUME NEW v, NEW s, IsList(s), NEW z, IsList(z)
  PROVE  Front(v, s) \o z = Front(v, s \o z)
<1> DEFINE h == <<v>>
<1>1. IsList(h)
  BY ListOne
<1> HIDE DEF h
<1>2. (h \o s) \o z = h \o (s \o z)
  BY <1>1, ListAssociative
<1> QED
  BY <1>2 DEF h, Front

(* A token that stands in the last symbols is not longer than they are.    *)
LEMMA StandsShort ==
  ASSUME NEW s, IsList(s), NEW t, Len(t) \in Nat, NEW n \in 0 .. Len(s),
         Stream!StandsAt(t, s, Len(s) - n + 1)
  PROVE  Len(t) <= n
<1>1. Len(s) \in Nat /\ Len(t) \in Nat
  BY ListFacts
<1> QED
  BY <1>1 DEF Stream!StandsAt

(* The recursion over the rests of a text exists.                          *)
LEMMA RestsExists ==
  ASSUME NEW s, IsList(s), NEW t, Len(t) \in Nat \ {0}, NEW v
  PROVE  \A n \in 0 .. Len(s) : Stream!Rests(s, t, v)[n] =
            IF n = 0 THEN <<>>
            ELSE IF Stream!StandsAt(t, s, Len(s) - n + 1) THEN Front(v, Stream!Rests(s, t, v)[n - Len(t)])
                                                   ELSE Front(s[Len(s) - n + 1], Stream!Rests(s, t, v)[n - 1])
<1> DEFINE St(n) == Stream!StandsAt(t, s, Len(s) - n + 1)
           H(n) == <<s[Len(s) - n + 1]>>
           Good(f, k) == f = [n \in 0 .. k |-> IF n = 0 THEN <<>> ELSE IF St(n) THEN Front(v, f[n - Len(t)]) ELSE H(n) \o f[n - 1]]
           Bad == {k \in 0 .. Len(s) : \A f : ~Good(f, k)}
<1>1. Len(s) \in Nat /\ Len(t) \in Nat /\ Len(t) > 0
  BY ListFacts
<1>2. \A n \in 0 .. Len(s) : St(n) => Len(t) <= n
  BY StandsShort
<1> HIDE DEF Good, St, H
<1>3. Bad = {}
  <2>1. SUFFICES ASSUME Bad # {} PROVE FALSE
    OBVIOUS
  <2>2. Bad \in SUBSET Nat
    BY <1>1
  <2>3. PICK k \in Bad : \A j \in Bad : k <= j
    BY <2>1, <2>2, LeastNumber
  <2>4. CASE k = 0
    <3> DEFINE g == [n \in 0 .. 0 |-> <<>>]
    <3>1. g = [n \in 0 .. 0 |-> IF n = 0 THEN <<>> ELSE IF St(n) THEN Front(v, g[n - Len(t)]) ELSE H(n) \o g[n - 1]]
      OBVIOUS
    <3> HIDE DEF g
    <3>2. Good(g, 0)
      BY <3>1 DEF Good
    <3> QED
      BY <2>3, <2>4, <3>2
  <2>5. CASE k # 0
    <3>1. k \in Nat /\ k - 1 \in 0 .. Len(s) /\ ~(k <= k - 1) /\ k \in 0 .. Len(s)
      BY <1>1, <2>3, <2>5
    <3>2. PICK f : Good(f, k - 1)
      BY <2>3, <3>1
    <3> DEFINE g == [n \in 0 .. k |-> IF n = 0 THEN <<>> ELSE IF St(n) THEN Front(v, f[n - Len(t)]) ELSE H(n) \o f[n - 1]]
    <3>3. ASSUME NEW n \in 0 .. (k - 1) PROVE g[n] = f[n]
      <4>1. n \in 0 .. k
        BY <3>1
      <4>2. f[n] = IF n = 0 THEN <<>> ELSE IF St(n) THEN Front(v, f[n - Len(t)]) ELSE H(n) \o f[n - 1]
        BY <3>2, Zenon DEF Good
      <4> QED
        BY <4>1, <4>2
    <3>4. ASSUME NEW n \in 0 .. k, n # 0
          PROVE  g[n - 1] = f[n - 1] /\ (St(n) => g[n - Len(t)] = f[n - Len(t)])
      <4>1. n - 1 \in 0 .. (k - 1) /\ n \in 0 .. Len(s)
        BY <1>1, <3>1, <3>4
      <4>2. St(n) => n - Len(t) \in 0 .. (k - 1)
        BY <1>1, <1>2, <3>1, <3>4, <4>1
      <4> QED
        BY <3>3, <4>1, <4>2
    <3>5. ASSUME NEW n \in 0 .. k
          PROVE  g[n] = IF n = 0 THEN <<>> ELSE IF St(n) THEN Front(v, g[n - Len(t)]) ELSE H(n) \o g[n - 1]
      BY <3>4
    <3>6. Good(g, k)
      <4>1. g = [n \in 0 .. k |-> g[n]]
        OBVIOUS
      <4> HIDE DEF g
      <4> QED
        BY <3>5, <4>1, Zenon DEF Good
    <3> QED
      BY <2>3, <3>6
  <2> QED
    BY <2>4, <2>5
<1>4. PICK f : Good(f, Len(s))
  BY <1>1, <1>3
<1> DEFINE R == Stream!Rests(s, t, v)
<1>5. R = [n \in 0 .. Len(s) |-> IF n = 0 THEN <<>> ELSE IF St(n) THEN Front(v, R[n - Len(t)]) ELSE H(n) \o R[n - 1]]
  BY <1>4, Zenon DEF Stream!Rests, Good, St, H, Front
<1> HIDE DEF R
<1>6. \A n \in 0 .. Len(s) : R[n] = IF n = 0 THEN <<>> ELSE IF St(n) THEN Front(v, R[n - Len(t)]) ELSE H(n) \o R[n - 1]
  BY <1>5, Zenon
<1> QED
  BY <1>6, Zenon DEF R, St, H, Front

(* What becomes of the last n symbols, and of all shorter rests.           *)
Rest(s, t, v, R, n) ==
    \/ Stream!StandsAt(t, s, Len(s) - n + 1) /\ n - Len(t) \in 0 .. (n - 1) /\ R[n] = Front(v, R[n - Len(t)])
    \/ ~Stream!StandsAt(t, s, Len(s) - n + 1) /\ n - 1 \in 0 .. (n - 1) /\ R[n] = Front(s[Len(s) - n + 1], R[n - 1])

Rested(s, t, v, R) ==
    R[0] = <<>> /\ (\A n \in 0 .. Len(s) : IsList(R[n])) /\ \A n \in 1 .. Len(s) : Rest(s, t, v, R, n)

LEMMA RestsFacts ==
  ASSUME NEW s, IsList(s), NEW t, Len(t) \in Nat \ {0}, NEW v
  PROVE  Rested(s, t, v, Stream!Rests(s, t, v))
<1> DEFINE R == Stream!Rests(s, t, v)
           St(n) == Stream!StandsAt(t, s, Len(s) - n + 1)
           Bad == {n \in 0 .. Len(s) : ~IsList(R[n])}
<1>1. Len(s) \in Nat /\ Len(t) \in Nat /\ Len(t) > 0
  BY ListFacts
<1>3. \A n \in 0 .. Len(s) : St(n) => Len(t) <= n
  BY StandsShort
<1>7. \A n \in 0 .. Len(s) :
        R[n] = IF n = 0 THEN <<>> ELSE IF St(n) THEN Front(v, R[n - Len(t)]) ELSE Front(s[Len(s) - n + 1], R[n - 1])
  BY RestsExists
<1> HIDE DEF R, St
<1>4. R[0] = <<>>
  <2>1. 0 \in 0 .. Len(s)
    BY <1>1
  <2> QED
    BY <1>7, <2>1, Zenon
<1>5. ASSUME NEW n \in 1 .. Len(s)
      PROVE  \/ St(n) /\ n - Len(t) \in 0 .. (n - 1) /\ R[n] = Front(v, R[n - Len(t)])
             \/ ~St(n) /\ n - 1 \in 0 .. (n - 1) /\ R[n] = Front(s[Len(s) - n + 1], R[n - 1])
  <2>1. n \in 0 .. Len(s) /\ n # 0 /\ n - 1 \in 0 .. (n - 1)
    BY <1>1
  <2>2. St(n) => n - Len(t) \in 0 .. (n - 1)
    BY <1>1, <1>3, <2>1
  <2>3. R[n] = IF St(n) THEN Front(v, R[n - Len(t)]) ELSE Front(s[Len(s) - n + 1], R[n - 1])
    BY <1>7, <2>1
  <2> QED
    BY <2>1, <2>2, <2>3
<1>6. Bad = {}
  <2>1. SUFFICES ASSUME Bad # {} PROVE FALSE
    OBVIOUS
  <2>2. Bad \in SUBSET Nat
    BY <1>1
  <2>3. PICK n \in Bad : \A m \in Bad : n <= m
    BY <2>1, <2>2, LeastNumber
  <2>4. n # 0
    BY <1>4, <2>3, EmptyList
  <2>5. n \in 1 .. Len(s)
    BY <1>1, <2>3, <2>4
  <2>6. ASSUME NEW m \in 0 .. (n - 1)
        PROVE  IsList(R[m])
    <3>1. m \in 0 .. Len(s) /\ ~(n <= m)
      BY <1>1, <2>5
    <3> QED
      BY <2>3, <3>1
  <2>8. IsList(R[n])
    <3>1. CASE n - Len(t) \in 0 .. (n - 1) /\ R[n] = Front(v, R[n - Len(t)])
      BY <2>6, <3>1, InFront
    <3>2. CASE n - 1 \in 0 .. (n - 1) /\ R[n] = Front(s[Len(s) - n + 1], R[n - 1])
      <4> DEFINE h == s[Len(s) - n + 1]
      <4>1. IsList(R[n - 1]) /\ R[n] = Front(h, R[n - 1])
        BY <2>6, <3>2
      <4> HIDE DEF h
      <4> QED
        BY <4>1, InFront
    <3> QED
      BY <1>5, <2>5, <3>1, <3>2
  <2> QED
    BY <2>3, <2>8
<1> QED
  BY <1>4, <1>5, <1>6 DEF R, St, Rested, Rest

(* The same for the whole text.                                            *)
LEMMA ReplaceType ==
  ASSUME NEW s, IsList(s), NEW t, Len(t) \in Nat \ {0}, NEW v
  PROVE  IsList(Stream!Replace(s, t, v))
<1>1. Len(s) \in 0 .. Len(s)
  BY ListFacts
<1>2. \A n \in 0 .. Len(s) : IsList(Stream!Rests(s, t, v)[n])
  BY RestsFacts DEF Rested
<1> QED
  BY <1>1, <1>2 DEF Stream!Replace

(* A token may stand across the border of two texts.                       *)
Straddles(a, b, t) == \E n \in 1 .. Len(a) : n < Len(t) /\ Stream!StandsAt(t, a \o b, Len(a) - n + 1)

(* Behind the border, and before it.                                       *)
LEMMA StandsBehind ==
  ASSUME NEW a, IsList(a), NEW b, IsList(b), NEW t, Len(t) \in Nat, NEW n \in 0 .. Len(b)
  PROVE  Stream!StandsAt(t, a \o b, Len(a \o b) - n + 1) <=> Stream!StandsAt(t, b, Len(b) - n + 1)
<1> DEFINE s == a \o b
           p == Len(b) - n + 1
<1>1. Len(a) \in Nat /\ Len(b) \in Nat /\ Len(t) \in Nat
  BY ListFacts
<1>2. /\ Len(s) = Len(a) + Len(b)
      /\ \A i \in 1 .. Len(a) + Len(b) : s[i] = IF i <= Len(a) THEN a[i] ELSE b[i - Len(a)]
  BY ListConcat
<1> HIDE DEF s
<1>3. Len(s) - n + 1 = Len(a) + p /\ p \in Nat \ {0}
  BY <1>1, <1>2
<1> HIDE DEF p
<1>4. Len(a) + p + Len(t) - 1 <= Len(s) <=> p + Len(t) - 1 <= Len(b)
  BY <1>1, <1>2, <1>3
<1>5. ASSUME p + Len(t) - 1 <= Len(b), NEW i \in 1 .. Len(t)
      PROVE  s[Len(a) + p + i - 1] = b[p + i - 1]
  <2>1. /\ Len(a) + p + i - 1 \in 1 .. Len(a) + Len(b) /\ ~(Len(a) + p + i - 1 <= Len(a))
        /\ (Len(a) + p + i - 1) - Len(a) = p + i - 1
    BY <1>1, <1>3, <1>5
  <2> QED
    BY <1>2, <2>1
<1>6. Stream!StandsAt(t, s, Len(a) + p) <=> Stream!StandsAt(t, b, p)
  BY <1>4, <1>5 DEF Stream!StandsAt
<1> QED
  BY <1>3, <1>6 DEF s, p

LEMMA StandsBefore ==
  ASSUME NEW a, IsList(a), NEW b, IsList(b), NEW t, Len(t) \in Nat, NEW n \in 1 .. Len(a), Len(t) <= n
  PROVE  Stream!StandsAt(t, a \o b, Len(a) - n + 1) <=> Stream!StandsAt(t, a, Len(a) - n + 1)
<1> DEFINE s == a \o b
           p == Len(a) - n + 1
<1>1. Len(a) \in Nat /\ Len(b) \in Nat /\ Len(t) \in Nat
  BY ListFacts
<1>2. /\ Len(s) = Len(a) + Len(b)
      /\ \A i \in 1 .. Len(a) + Len(b) : s[i] = IF i <= Len(a) THEN a[i] ELSE b[i - Len(a)]
  BY ListConcat
<1> HIDE DEF s
<1>3. p \in Nat \ {0} /\ p + Len(t) - 1 <= Len(a) /\ p + Len(t) - 1 <= Len(s)
  BY <1>1, <1>2
<1> HIDE DEF p
<1>4. ASSUME NEW i \in 1 .. Len(t)
      PROVE  s[p + i - 1] = a[p + i - 1]
  <2>1. p + i - 1 \in 1 .. Len(a) + Len(b) /\ p + i - 1 <= Len(a)
    BY <1>1, <1>3
  <2> QED
    BY <1>2, <2>1
<1>5. Stream!StandsAt(t, s, p) <=> Stream!StandsAt(t, a, p)
  BY <1>3, <1>4 DEF Stream!StandsAt
<1> QED
  BY <1>5 DEF s, p

(* What is replaced behind the border does not depend on what is before it. *)
LEMMA ReplaceBehind ==
  ASSUME NEW a, IsList(a), NEW b, IsList(b), NEW t, Len(t) \in Nat \ {0}, NEW v,
         NEW k \in 0 .. Len(b)
  PROVE  Stream!Rests(a \o b, t, v)[k] = Stream!Rests(b, t, v)[k]
<1> DEFINE s == a \o b
           R == Stream!Rests(s, t, v)
           B == Stream!Rests(b, t, v)
           Bad == {n \in 0 .. Len(b) : R[n] # B[n]}
<1>1. Len(a) \in Nat /\ Len(b) \in Nat
  BY ListFacts
<1>2. /\ IsList(s) /\ Len(s) = Len(a) + Len(b)
      /\ \A i \in 1 .. Len(a) + Len(b) : s[i] = IF i <= Len(a) THEN a[i] ELSE b[i - Len(a)]
  BY ListConcat
<1>3. \A n \in 0 .. Len(b) : Stream!StandsAt(t, s, Len(s) - n + 1) <=> Stream!StandsAt(t, b, Len(b) - n + 1)
  BY StandsBehind
<1> HIDE DEF s
<1>4. Rested(s, t, v, R)
  BY <1>2, RestsFacts
<1>5. Rested(b, t, v, B)
  BY RestsFacts
<1> HIDE DEF R, B
<1>6. Bad = {}
  <2>1. SUFFICES ASSUME Bad # {} PROVE FALSE
    OBVIOUS
  <2>2. Bad \in SUBSET Nat
    BY <1>1
  <2>3. PICK n \in Bad : \A m \in Bad : n <= m
    BY <2>1, <2>2, LeastNumber
  <2>4. n # 0
    BY <1>4, <1>5, <2>3 DEF Rested
  <2>5. n \in 1 .. Len(b) /\ n \in 1 .. Len(s) /\ n \in 0 .. Len(b)
    BY <1>1, <1>2, <2>3, <2>4
  <2>6. ASSUME NEW m \in 0 .. (n - 1)
        PROVE  R[m] = B[m]
    <3>1. m \in 0 .. Len(b) /\ ~(n <= m)
      BY <1>1, <2>5
    <3> QED
      BY <2>3, <3>1
  <2>7. s[Len(s) - n + 1] = b[Len(b) - n + 1]
    <3>1. /\ Len(s) - n + 1 \in 1 .. Len(a) + Len(b) /\ ~(Len(s) - n + 1 <= Len(a))
          /\ (Len(s) - n + 1) - Len(a) = Len(b) - n + 1
      BY <1>1, <1>2, <2>5
    <3> QED
      BY <1>2, <3>1
  <2>8. R[n] = B[n]
    <3>1. CASE Stream!StandsAt(t, s, Len(s) - n + 1)
      <4>1. n - Len(t) \in 0 .. (n - 1) /\ R[n] = Front(v, R[n - Len(t)])
        BY <1>4, <2>5, <3>1 DEF Rested, Rest
      <4>2. B[n] = Front(v, B[n - Len(t)])
        BY <1>3, <1>5, <2>5, <3>1 DEF Rested, Rest
      <4> QED
        BY <2>6, <4>1, <4>2
    <3>2. CASE ~Stream!StandsAt(t, s, Len(s) - n + 1)
      <4>1. n - 1 \in 0 .. (n - 1) /\ R[n] = Front(s[Len(s) - n + 1], R[n - 1])
        BY <1>4, <2>5, <3>2 DEF Rested, Rest
      <4>2. B[n] = Front(b[Len(b) - n + 1], B[n - 1])
        BY <1>3, <1>5, <2>5, <3>2 DEF Rested, Rest
      <4> QED
        BY <2>6, <2>7, <4>1, <4>2
    <3> QED
      BY <3>1, <3>2
  <2> QED
    BY <2>3, <2>8
<1> QED
  BY <1>6 DEF s, R, B

(* When no token stands across the border, both parts can be replaced by   *)
(* themselves.                                                             *)
LEMMA ReplaceApart ==
  ASSUME NEW a, IsList(a), NEW b, IsList(b), NEW t, Len(t) \in Nat \ {0}, NEW v,
         ~Straddles(a, b, t)
  PROVE  Stream!Replace(a \o b, t, v) = Stream!Replace(a, t, v) \o Stream!Replace(b, t, v)
<1> DEFINE s == a \o b
           R == Stream!Rests(s, t, v)
           A == Stream!Rests(a, t, v)
           Z == Stream!Replace(b, t, v)
           Bad == {n \in 0 .. Len(a) : R[Len(b) + n] # A[n] \o Z}
<1>1. Len(a) \in Nat /\ Len(b) \in Nat /\ Len(t) \in Nat
  BY ListFacts
<1>2. /\ IsList(s) /\ Len(s) = Len(a) + Len(b)
      /\ \A i \in 1 .. Len(a) + Len(b) : s[i] = IF i <= Len(a) THEN a[i] ELSE b[i - Len(a)]
  BY ListConcat
<1>3. \A n \in 1 .. Len(a) : Stream!StandsAt(t, s, Len(a) - n + 1) <=> Stream!StandsAt(t, a, Len(a) - n + 1)
  <2>1. SUFFICES ASSUME NEW n \in 1 .. Len(a)
                 PROVE  Stream!StandsAt(t, s, Len(a) - n + 1) <=> Stream!StandsAt(t, a, Len(a) - n + 1)
    OBVIOUS
  <2>2. CASE Len(t) <= n
    BY <2>2, StandsBefore
  <2>3. CASE ~(Len(t) <= n)
    <3>1. n < Len(t) /\ n \in 0 .. Len(a)
      BY <1>1, <2>3
    <3>2. ~Stream!StandsAt(t, s, Len(a) - n + 1)
      BY <3>1 DEF Straddles
    <3>3. ~Stream!StandsAt(t, a, Len(a) - n + 1)
      BY <2>3, <3>1, StandsShort
    <3> QED
      BY <3>2, <3>3
  <2> QED
    BY <2>2, <2>3
<1>4. R[Len(b)] = Z
  <2>1. Len(b) \in 0 .. Len(b)
    BY <1>1
  <2> QED
    BY <2>1, ReplaceBehind DEF Stream!Replace
<1>5. IsList(Z)
  BY ReplaceType
<1> HIDE DEF s, Z
<1>6. Rested(s, t, v, R)
  BY <1>2, RestsFacts
<1>7. Rested(a, t, v, A)
  BY RestsFacts
<1> HIDE DEF R, A
<1>8. Bad = {}
  <2>1. SUFFICES ASSUME Bad # {} PROVE FALSE
    OBVIOUS
  <2>2. Bad \in SUBSET Nat
    BY <1>1
  <2>3. PICK n \in Bad : \A m \in Bad : n <= m
    BY <2>1, <2>2, LeastNumber
  <2>4. n # 0
    <3>1. R[Len(b) + 0] = A[0] \o Z
      BY <1>1, <1>4, <1>5, <1>7, EmptyBefore DEF Rested
    <3> QED
      BY <2>3, <3>1
  <2>5. n \in 1 .. Len(a) /\ Len(b) + n \in 1 .. Len(s) /\ Len(s) - (Len(b) + n) + 1 = Len(a) - n + 1
    BY <1>1, <1>2, <2>3, <2>4
  <2>6. ASSUME NEW m \in 0 .. (n - 1)
        PROVE  R[Len(b) + m] = A[m] \o Z /\ IsList(A[m])
    <3>1. m \in 0 .. Len(a) /\ ~(n <= m)
      BY <1>1, <2>5
    <3> QED
      BY <1>7, <2>3, <3>1 DEF Rested
  <2> DEFINE h == s[Len(a) - n + 1]
  <2>7. h = a[Len(a) - n + 1]
    <3>1. Len(a) - n + 1 \in 1 .. Len(a) + Len(b) /\ Len(a) - n + 1 <= Len(a) /\ Len(a) - n + 1 \in 1 .. Len(a)
      BY <1>1, <2>5
    <3> QED
      BY <1>2, <3>1
  <2>8. R[Len(b) + n] = A[n] \o Z
    <3>1. CASE Stream!StandsAt(t, a, Len(a) - n + 1)
      <4>1. n - Len(t) \in 0 .. (n - 1) /\ A[n] = Front(v, A[n - Len(t)])
        BY <1>7, <2>5, <3>1 DEF Rested, Rest
      <4>2. R[Len(b) + n] = Front(v, R[(Len(b) + n) - Len(t)])
        BY <1>3, <1>6, <2>5, <3>1 DEF Rested, Rest
      <4>3. (Len(b) + n) - Len(t) = Len(b) + (n - Len(t))
        BY <1>1, <2>5
      <4>4. R[Len(b) + n] = Front(v, (A[n - Len(t)] \o Z)) /\ IsList(A[n - Len(t)])
        BY <2>6, <4>1, <4>2, <4>3
      <4> DEFINE c == A[n - Len(t)]
      <4>5. IsList(c)
        BY <4>4
      <4> HIDE DEF c
      <4>6. Front(v, c) \o Z = Front(v, (c \o Z))
        BY <1>5, <4>5, FrontConcat
      <4> QED
        BY <4>1, <4>4, <4>6 DEF c
    <3>2. CASE ~Stream!StandsAt(t, a, Len(a) - n + 1)
      <4>1. n - 1 \in 0 .. (n - 1) /\ A[n] = Front(h, A[n - 1])
        BY <1>7, <2>5, <2>7, <3>2 DEF Rested, Rest
      <4>2. R[Len(b) + n] = Front(h, R[(Len(b) + n) - 1])
        BY <1>3, <1>6, <2>5, <3>2 DEF Rested, Rest
      <4>3. (Len(b) + n) - 1 = Len(b) + (n - 1)
        BY <1>1, <2>5
      <4> HIDE DEF h
      <4>4. R[Len(b) + n] = Front(h, (A[n - 1] \o Z)) /\ IsList(A[n - 1])
        BY <2>6, <4>1, <4>2, <4>3
      <4> DEFINE c == A[n - 1]
      <4>5. IsList(c)
        BY <4>4
      <4> HIDE DEF c
      <4>6. Front(h, c) \o Z = Front(h, (c \o Z))
        BY <1>5, <4>5, FrontConcat
      <4> QED
        BY <4>1, <4>4, <4>6 DEF c
    <3> QED
      BY <3>1, <3>2
  <2> QED
    BY <2>3, <2>8
<1>9. Len(a) \in 0 .. Len(a) /\ Len(s) = Len(b) + Len(a)
  BY <1>1, <1>2
<1>10. R[Len(s)] = A[Len(a)] \o Z
  BY <1>8, <1>9
<1> QED
  BY <1>10 DEF s, R, A, Z, Stream!Replace

(* What is left of a text: symbols other than v at the beginning, and at   *)
(* the end, have not been replaced.                                        *)
HeadKept(s, v, r, n) ==
    \A k \in 0 .. Len(r) : (\A i \in 1 .. k : r[i] # v) =>
        k <= n /\ \A i \in 1 .. k : r[i] = s[Len(s) - n + i]

TailKept(s, v, r, n) ==
    \A k \in 0 .. Len(r) : (\A i \in 1 .. k : r[Len(r) - k + i] # v) =>
        k <= n /\ (k = Len(r) => k = n) /\ \A i \in 1 .. k : r[Len(r) - k + i] = s[Len(s) - k + i]

(* A token more, and a symbol more.                                        *)
LEMMA KeptToken ==
  ASSUME NEW s, NEW v, NEW r, IsList(r), NEW m \in Nat, NEW n \in Nat, m <= n, TailKept(s, v, r, m)
  PROVE  HeadKept(s, v, Front(v, r), n) /\ TailKept(s, v, Front(v, r), n)
<1> DEFINE f == Front(v, r)
<1>1. IsList(f) /\ Len(f) = Len(r) + 1 /\ f[1] = v /\ \A i \in 1 .. Len(r) : f[i + 1] = r[i]
  BY InFront
<1>2. Len(r) \in Nat
  BY ListFacts
<1> HIDE DEF f
<1>3. ASSUME NEW k \in 0 .. Len(f), \A i \in 1 .. k : f[i] # v
      PROVE  k = 0
  BY <1>1, <1>2, <1>3
<1>4. HeadKept(s, v, f, n)
  BY <1>1, <1>2, <1>3 DEF HeadKept
<1>5. ASSUME NEW k \in 0 .. Len(f), \A i \in 1 .. k : f[Len(f) - k + i] # v
      PROVE  /\ k <= n /\ (k = Len(f) => k = n)
             /\ \A i \in 1 .. k : f[Len(f) - k + i] = s[Len(s) - k + i]
  <2>1. k # Len(f)
    <3>1. SUFFICES ASSUME k = Len(f) PROVE FALSE
      OBVIOUS
    <3>2. 1 \in 1 .. k /\ Len(f) - k + 1 = 1
      BY <1>1, <1>2, <3>1
    <3> QED
      BY <1>1, <1>5, <3>2
  <2>2. k \in 0 .. Len(r) /\ k \in Nat
    BY <1>1, <1>2, <2>1
  <2>3. ASSUME NEW i \in 1 .. k
        PROVE  f[Len(f) - k + i] = r[Len(r) - k + i]
    <3>1. Len(r) - k + i \in 1 .. Len(r) /\ Len(f) - k + i = (Len(r) - k + i) + 1
      BY <1>1, <1>2, <2>2
    <3> QED
      BY <1>1, <3>1
  <2>4. \A i \in 1 .. k : r[Len(r) - k + i] # v
    BY <1>5, <2>3
  <2>5. k <= m /\ \A i \in 1 .. k : r[Len(r) - k + i] = s[Len(s) - k + i]
    BY <2>2, <2>4 DEF TailKept
  <2>6. k <= n
    BY <2>2, <2>5
  <2>7. \A i \in 1 .. k : f[Len(f) - k + i] = s[Len(s) - k + i]
    BY <2>3, <2>5
  <2> QED
    BY <2>1, <2>6, <2>7
<1>6. TailKept(s, v, f, n)
  BY <1>5 DEF TailKept
<1> QED
  BY <1>4, <1>6 DEF f

LEMMA KeptSymbol ==
  ASSUME NEW s, IsList(s), NEW v, NEW r, IsList(r), NEW n \in 1 .. Len(s),
         HeadKept(s, v, r, n - 1), TailKept(s, v, r, n - 1)
  PROVE  LET f == Front(s[Len(s) - n + 1], r) IN HeadKept(s, v, f, n) /\ TailKept(s, v, f, n)
<1> DEFINE h == s[Len(s) - n + 1]
           f == Front(h, r)
<1>1. IsList(f) /\ Len(f) = Len(r) + 1 /\ f[1] = h /\ \A i \in 1 .. Len(r) : f[i + 1] = r[i]
  BY InFront
<1>2. Len(r) \in Nat /\ Len(s) \in Nat /\ n \in Nat
  BY ListFacts
<1> HIDE DEF f
<1>3. ASSUME NEW k \in 0 .. Len(f), \A i \in 1 .. k : f[i] # v
      PROVE  k <= n /\ \A i \in 1 .. k : f[i] = s[Len(s) - n + i]
  <2>1. CASE k = 0
    BY <1>2, <2>1
  <2>2. CASE k # 0
    <3>1. k - 1 \in 0 .. Len(r) /\ k \in Nat
      BY <1>1, <1>2, <2>2
    <3>2. ASSUME NEW i \in 1 .. (k - 1)
          PROVE  r[i] = f[i + 1] /\ i + 1 \in 1 .. k /\ Len(s) - (n - 1) + i = Len(s) - n + (i + 1)
      <4>1. i \in 1 .. Len(r) /\ i + 1 \in 1 .. k
        BY <1>2, <3>1
      <4> QED
        BY <1>1, <1>2, <4>1
    <3>3. \A i \in 1 .. (k - 1) : r[i] # v
      BY <1>3, <3>2
    <3>4. k - 1 <= n - 1 /\ \A i \in 1 .. (k - 1) : r[i] = s[Len(s) - (n - 1) + i]
      BY <3>1, <3>3 DEF HeadKept
    <3>5. ASSUME NEW i \in 1 .. k
          PROVE  f[i] = s[Len(s) - n + i]
      <4>1. CASE i = 1
        BY <1>1, <4>1
      <4>2. CASE i # 1
        <5>1. i - 1 \in 1 .. (k - 1) /\ (i - 1) + 1 = i
          BY <3>1, <4>2
        <5>2. f[i] = s[Len(s) - (n - 1) + (i - 1)]
          BY <3>2, <3>4, <5>1
        <5>3. Len(s) - (n - 1) + (i - 1) = Len(s) - n + i
          BY <1>2, <5>1
        <5> QED
          BY <5>2, <5>3
      <4> QED
        BY <4>1, <4>2
    <3> QED
      BY <1>2, <3>1, <3>4, <3>5
  <2> QED
    BY <2>1, <2>2
<1>4. HeadKept(s, v, f, n)
  BY <1>3 DEF HeadKept
<1>5. ASSUME NEW k \in 0 .. Len(f), \A i \in 1 .. k : f[Len(f) - k + i] # v
      PROVE  /\ k <= n /\ (k = Len(f) => k = n)
             /\ \A i \in 1 .. k : f[Len(f) - k + i] = s[Len(s) - k + i]
  <2>1. CASE k # Len(f)
    <3>2. k \in 0 .. Len(r) /\ k \in Nat
      BY <1>1, <1>2, <2>1
    <3>3. ASSUME NEW i \in 1 .. k
          PROVE  f[Len(f) - k + i] = r[Len(r) - k + i]
      <4>1. Len(r) - k + i \in 1 .. Len(r) /\ Len(f) - k + i = (Len(r) - k + i) + 1
        BY <1>1, <1>2, <3>2
      <4> QED
        BY <1>1, <4>1
    <3>4. \A i \in 1 .. k : r[Len(r) - k + i] # v
      BY <1>5, <3>3
    <3>5. k <= n - 1 /\ \A i \in 1 .. k : r[Len(r) - k + i] = s[Len(s) - k + i]
      BY <3>2, <3>4 DEF TailKept
    <3>6. k <= n
      BY <1>2, <3>2, <3>5
    <3>7. \A i \in 1 .. k : f[Len(f) - k + i] = s[Len(s) - k + i]
      BY <3>3, <3>5
    <3> QED
      BY <2>1, <3>6, <3>7
  <2>2. CASE k = Len(f)
    <3> DEFINE l == Len(r)
    <3>1. l \in 0 .. Len(r) /\ k = l + 1 /\ l = Len(r)
      BY <1>1, <1>2, <2>2
    <3> HIDE DEF l
    <3>2. ASSUME NEW i \in 1 .. l
          PROVE  r[Len(r) - l + i] = f[i + 1] /\ r[i] = f[i + 1] /\ f[i + 1] # v
      <4>1. i \in 1 .. Len(r) /\ Len(r) - l + i = i /\ i + 1 \in 1 .. k /\ Len(f) - k + (i + 1) = i + 1
        BY <1>1, <1>2, <2>2, <3>1
      <4> QED
        BY <1>1, <1>5, <4>1
    <3>3. l = n - 1 /\ \A i \in 1 .. l : r[Len(r) - l + i] = s[Len(s) - l + i]
      BY <3>1, <3>2 DEF TailKept
    <3>4. k = n
      BY <1>2, <3>1, <3>3
    <3>5. ASSUME NEW i \in 1 .. k
          PROVE  f[Len(f) - k + i] = s[Len(s) - k + i]
      <4>1. Len(f) - k + i = i /\ Len(f) \in Nat
        BY <1>1, <1>2, <2>2
      <4>2. CASE i = 1
        BY <1>1, <3>4, <4>1, <4>2
      <4>3. CASE i # 1
        <5>1. i - 1 \in 1 .. l /\ (i - 1) + 1 = i
          BY <1>2, <3>1, <3>4, <4>3
        <5>2. f[i] = s[Len(s) - l + (i - 1)]
          BY <3>2, <3>3, <5>1
        <5>3. Len(s) - l + (i - 1) = Len(s) - k + i
          BY <1>2, <3>1, <5>1
        <5> QED
          BY <4>1, <5>2, <5>3
      <4> QED
        BY <4>2, <4>3
    <3>6. k <= n /\ (k = Len(f) => k = n)
      BY <1>2, <3>4
    <3>7. \A i \in 1 .. k : f[Len(f) - k + i] = s[Len(s) - k + i]
      BY <3>5
    <3> QED
      BY <3>6, <3>7
  <2> QED
    BY <2>1, <2>2
<1>6. TailKept(s, v, f, n)
  BY <1>5 DEF TailKept
<1> QED
  BY <1>4, <1>6 DEF f

(* And so for what becomes of any rest of a text, and of all of it.        *)
LEMMA RestsKept ==
  ASSUME NEW s, IsList(s), NEW t, Len(t) \in Nat \ {0}, NEW v, NEW k \in 0 .. Len(s)
  PROVE  LET r == Stream!Rests(s, t, v)[k]
         IN  IsList(r) /\ HeadKept(s, v, r, k) /\ TailKept(s, v, r, k)
<1> DEFINE R == Stream!Rests(s, t, v)
           Good(n) == HeadKept(s, v, R[n], n) /\ TailKept(s, v, R[n], n)
           Bad == {n \in 0 .. Len(s) : ~Good(n)}
<1>1. Len(s) \in Nat
  BY ListFacts
<1>2. Rested(s, t, v, R)
  BY RestsFacts
<1> HIDE DEF R
<1>3. Bad = {}
  <2>1. SUFFICES ASSUME Bad # {} PROVE FALSE
    OBVIOUS
  <2>2. Bad \in SUBSET Nat
    BY <1>1
  <2>3. PICK n \in Bad : \A m \in Bad : n <= m
    BY <2>1, <2>2, LeastNumber
  <2>4. n # 0
    <3>1. R[0] = <<>> /\ Len(<<>>) = 0
      BY <1>2, EmptyList DEF Rested
    <3>2. HeadKept(s, v, <<>>, 0) /\ TailKept(s, v, <<>>, 0)
      BY <3>1 DEF HeadKept, TailKept
    <3> QED
      BY <2>3, <3>1, <3>2
  <2>5. n \in 1 .. Len(s) /\ n \in Nat
    BY <1>1, <2>3, <2>4
  <2>6. ASSUME NEW m \in 0 .. (n - 1)
        PROVE  Good(m) /\ IsList(R[m]) /\ m <= n /\ m \in Nat
    <3>1. m \in 0 .. Len(s) /\ ~(n <= m) /\ m <= n /\ m \in Nat
      BY <1>1, <2>5
    <3> QED
      BY <1>2, <2>3, <3>1 DEF Rested
  <2>7. Good(n)
    <3>1. CASE n - Len(t) \in 0 .. (n - 1) /\ R[n] = Front(v, R[n - Len(t)])
      BY <2>5, <2>6, <3>1, KeptToken
    <3>2. CASE n - 1 \in 0 .. (n - 1) /\ R[n] = Front(s[Len(s) - n + 1], R[n - 1])
      BY <2>5, <2>6, <3>2, KeptSymbol
    <3> QED
      BY <1>2, <2>5, <3>1, <3>2 DEF Rested, Rest
  <2> QED
    BY <2>3, <2>7
<1>4. Good(k) /\ IsList(R[k])
  BY <1>2, <1>3 DEF Rested
<1> QED
  BY <1>4 DEF R

LEMMA ReplaceKept ==
  ASSUME NEW s, IsList(s), NEW t, Len(t) \in Nat \ {0}, NEW v
  PROVE  LET r == Stream!Replace(s, t, v)
         IN  IsList(r) /\ HeadKept(s, v, r, Len(s)) /\ TailKept(s, v, r, Len(s))
<1>1. Len(s) \in 0 .. Len(s)
  BY ListFacts
<1> QED
  BY <1>1, RestsKept DEF Stream!Replace

(* What stands across the border of two texts: n symbols before it.        *)
Across(a, b, u, n) ==
    /\ Len(u) - n <= Len(b)
    /\ \A i \in 1 .. n : a[Len(a) - n + i] = u[i]
    /\ \A i \in 1 .. Len(u) - n : b[i] = u[n + i]

LEMMA AcrossFacts ==
  ASSUME NEW a, IsList(a), NEW b, IsList(b), NEW u, Len(u) \in Nat, NEW n \in 1 .. Len(a), n < Len(u)
  PROVE  Stream!StandsAt(u, a \o b, Len(a) - n + 1) <=> Across(a, b, u, n)
<1> DEFINE s == a \o b
<1>1. Len(a) \in Nat /\ Len(b) \in Nat /\ n \in Nat
  BY ListFacts
<1>2. /\ Len(s) = Len(a) + Len(b)
      /\ \A i \in 1 .. Len(a) + Len(b) : s[i] = IF i <= Len(a) THEN a[i] ELSE b[i - Len(a)]
  BY ListConcat
<1> HIDE DEF s
<1>3. Len(a) - n + 1 + Len(u) - 1 <= Len(s) <=> Len(u) - n <= Len(b)
  BY <1>1, <1>2
<1>4. ASSUME NEW i \in 1 .. n
      PROVE  s[Len(a) - n + 1 + i - 1] = a[Len(a) - n + i]
  <2>1. /\ Len(a) - n + 1 + i - 1 = Len(a) - n + i /\ Len(a) - n + i <= Len(a)
        /\ Len(a) - n + i \in 1 .. Len(a) + Len(b)
    BY <1>1
  <2> QED
    BY <1>2, <2>1
<1>5. ASSUME Len(u) - n <= Len(b), NEW i \in 1 .. Len(u) - n
      PROVE  s[Len(a) - n + 1 + (n + i) - 1] = b[i]
  <2>1. /\ Len(a) - n + 1 + (n + i) - 1 = Len(a) + i /\ ~(Len(a) + i <= Len(a))
        /\ Len(a) + i \in 1 .. Len(a) + Len(b) /\ (Len(a) + i) - Len(a) = i
    BY <1>1, <1>5
  <2> QED
    BY <1>2, <2>1
<1>6. ASSUME Stream!StandsAt(u, s, Len(a) - n + 1)
      PROVE  Across(a, b, u, n)
  <2>1. Len(u) - n <= Len(b) /\ \A i \in 1 .. Len(u) : s[Len(a) - n + 1 + i - 1] = u[i]
    BY <1>3, <1>6 DEF Stream!StandsAt
  <2>2. \A i \in 1 .. n : i \in 1 .. Len(u)
    BY <1>1
  <2>3. \A i \in 1 .. Len(u) - n : n + i \in 1 .. Len(u)
    BY <1>1
  <2>4. \A i \in 1 .. n : a[Len(a) - n + i] = u[i]
    BY <1>4, <2>1, <2>2
  <2>5. \A i \in 1 .. Len(u) - n : b[i] = u[n + i]
    BY <1>5, <2>1, <2>3
  <2> QED
    BY <2>1, <2>4, <2>5 DEF Across
<1>7. ASSUME Across(a, b, u, n)
      PROVE  Stream!StandsAt(u, s, Len(a) - n + 1)
  <2>1. Len(u) - n <= Len(b)
    BY <1>7 DEF Across
  <2>2. ASSUME NEW i \in 1 .. Len(u)
        PROVE  s[Len(a) - n + 1 + i - 1] = u[i]
    <3>1. CASE i <= n
      <4>1. i \in 1 .. n
        BY <1>1, <3>1
      <4> QED
        BY <1>4, <1>7, <4>1 DEF Across
    <3>2. CASE ~(i <= n)
      <4>1. i - n \in 1 .. Len(u) - n /\ n + (i - n) = i
        BY <1>1, <3>2
      <4>2. s[Len(a) - n + 1 + (n + (i - n)) - 1] = b[i - n] /\ b[i - n] = u[n + (i - n)]
        BY <1>5, <1>7, <2>1, <4>1 DEF Across
      <4> QED
        BY <4>1, <4>2
    <3> QED
      BY <3>1, <3>2
  <2> QED
    BY <1>3, <2>1, <2>2 DEF Stream!StandsAt
<1> QED
  BY <1>6, <1>7 DEF s

(* A token that stands across the border after another has been replaced   *)
(* stood there before.                                                     *)
LEMMA StraddlesKept ==
  ASSUME NEW a, IsList(a), NEW b, IsList(b), NEW t, Len(t) \in Nat \ {0}, NEW v,
         NEW u, Len(u) \in Nat, \A i \in 1 .. Len(u) : u[i] # v,
         Straddles(Stream!Replace(a, t, v), Stream!Replace(b, t, v), u)
  PROVE  Straddles(a, b, u)
<1> DEFINE r == Stream!Replace(a, t, v)
           z == Stream!Replace(b, t, v)
<1>1. IsList(r) /\ HeadKept(a, v, r, Len(a)) /\ TailKept(a, v, r, Len(a))
  BY ReplaceKept
<1>2. IsList(z) /\ HeadKept(b, v, z, Len(b)) /\ TailKept(b, v, z, Len(b))
  BY ReplaceKept
<1>3. Straddles(r, z, u)
  OBVIOUS
<1> HIDE DEF r, z
<1>4. Len(a) \in Nat /\ Len(b) \in Nat /\ Len(r) \in Nat /\ Len(z) \in Nat
  BY <1>1, <1>2, ListFacts
<1>5. PICK n \in 1 .. Len(r) : n < Len(u) /\ Stream!StandsAt(u, r \o z, Len(r) - n + 1)
  BY <1>3 DEF Straddles
<1>6. Across(r, z, u, n)
  BY <1>1, <1>2, <1>5, AcrossFacts
<1> DEFINE m == Len(u) - n
<1>7. n \in 0 .. Len(r) /\ m \in 0 .. Len(z) /\ n \in Nat /\ m \in Nat
  BY <1>4, <1>5, <1>6 DEF Across
<1>8. \A i \in 1 .. n : i \in 1 .. Len(u)
  BY <1>5, <1>7
<1>9. \A i \in 1 .. m : n + i \in 1 .. Len(u)
  BY <1>5, <1>7
<1>10. n <= Len(a) /\ \A i \in 1 .. n : a[Len(a) - n + i] = u[i]
  <2>1. \A i \in 1 .. n : r[Len(r) - n + i] = u[i] /\ u[i] # v
    BY <1>6, <1>8 DEF Across
  <2>2. n <= Len(a) /\ \A i \in 1 .. n : r[Len(r) - n + i] = a[Len(a) - n + i]
    BY <1>1, <1>7, <2>1 DEF TailKept
  <2> QED
    BY <2>1, <2>2
<1>11. m <= Len(b) /\ \A i \in 1 .. m : b[i] = u[n + i]
  <2>1. \A i \in 1 .. m : z[i] = u[n + i] /\ u[n + i] # v
    BY <1>6, <1>9 DEF Across
  <2>2. m <= Len(b) /\ \A i \in 1 .. m : z[i] = b[Len(b) - Len(b) + i]
    BY <1>2, <1>7, <2>1 DEF HeadKept
  <2>3. \A i \in 1 .. m : Len(b) - Len(b) + i = i
    BY <1>4, <1>7
  <2> QED
    BY <2>1, <2>2, <2>3
<1>12. Across(a, b, u, n) /\ n \in 1 .. Len(a)
  BY <1>4, <1>5, <1>7, <1>10, <1>11 DEF Across
<1> QED
  BY <1>5, <1>12, AcrossFacts DEF Straddles

-----------------------------------------------------------------------------
(* All tokens, one after the other. *)

(* A token is a text of symbols that no value is.                          *)
LEMMA TokenFacts ==
  ASSUME Stream!TokensFinite, NEW t \in StreamTokens
  PROVE  /\ IsList(t) /\ Len(t) \in Nat \ {0}
         /\ \A u \in StreamTokens : \A i \in 1 .. Len(t) : t[i] # StreamValue[u]
<1>1. t \in Seq(StreamSymbols) /\ t # <<>>
  BY DEF Stream!TokensFinite
<1>2. t = [i \in 1 .. Len(t) |-> t[i]] /\ Len(t) \in Nat /\ (\A i \in 1 .. Len(t) : t[i] \in StreamSymbols) /\ Len(t) # 0
  BY <1>1
<1>3. IsList(t)
  BY <1>2, ListIntro
<1> QED
  BY <1>2, <1>3 DEF Stream!TokensFinite

(* The number of tokens.                                                   *)
Count == Stream!Cardinality(StreamTokens)

LEMMA CountFacts ==
  ASSUME Stream!TokensFinite
  PROVE  IsFiniteSet(StreamTokens) /\ Count \in Nat /\ Count = Cardinality(StreamTokens)
<1>1. Count = Cardinality(StreamTokens)
  BY DEF Count, Stream!Cardinality, Cardinality
<1>2. IsFiniteSet(StreamTokens)
  BY DEF Stream!TokensFinite, Stream!IsFiniteSet, IsFiniteSet
<1> QED
  BY <1>1, <1>2, FS_CardinalityType

(* Tokens can be put in an order.                                          *)
Sorted(order) ==
    \A i, j \in DOMAIN order : i < j => order[i] # order[j] /\ Len(order[i]) >= Len(order[j])

LEMMA SortedMore ==
  ASSUME NEW S, NEW t \in S, \A u \in S : Len(u) \in Nat /\ Len(t) <= Len(u), NEW k \in Nat,
         NEW o \in [1 .. k -> S \ {t}], Sorted(o)
  PROVE  \E order \in [1 .. k + 1 -> S] : Sorted(order)
<1> DEFINE f == [i \in 1 .. k + 1 |-> IF i = k + 1 THEN t ELSE o[i]]
<1>1. f \in [1 .. k + 1 -> S] /\ f[k + 1] = t
  BY DEF f
<1>2. ASSUME NEW i \in 1 .. k + 1, i # k + 1
      PROVE  f[i] = o[i] /\ i \in 1 .. k /\ o[i] \in S \ {t}
  BY <1>2
<1>3. ASSUME NEW i \in 1 .. k + 1, NEW j \in 1 .. k + 1, i < j
      PROVE  f[i] # f[j] /\ Len(f[i]) >= Len(f[j])
  <2>1. i # k + 1
    BY <1>3
  <2>2. CASE j = k + 1
    BY <1>1, <1>2, <2>1, <2>2
  <2>3. CASE j # k + 1
    BY <1>2, <1>3, <2>1, <2>3 DEF Sorted
  <2> QED
    BY <2>2, <2>3
<1>4. DOMAIN f = 1 .. k + 1
  OBVIOUS
<1> HIDE DEF f
<1> QED
  BY <1>1, <1>3, <1>4 DEF Sorted

LEMMA SortedAll ==
  ASSUME Stream!TokensFinite
  PROVE  Stream!LongestFirst \in [1 .. Count -> StreamTokens]
<1> DEFINE Open == {S \in SUBSET StreamTokens : \A o \in [1 .. Cardinality(S) -> S] : ~Sorted(o)}
           Sizes == {Cardinality(S) : S \in Open}
<1>1. IsFiniteSet(StreamTokens)
  BY CountFacts
<1>2. \A S \in SUBSET StreamTokens : IsFiniteSet(S) /\ Cardinality(S) \in Nat
  BY <1>1, FS_Subset, FS_CardinalityType
<1>3. \A t \in StreamTokens : Len(t) \in Nat
  BY TokenFacts
<1>4. Open = {}
  <2>1. SUFFICES ASSUME Open # {} PROVE FALSE
    OBVIOUS
  <2>2. Sizes \in SUBSET Nat /\ Sizes # {}
    BY <1>2, <2>1
  <2>3. PICK k \in Sizes : \A j \in Sizes : k <= j
    <3> HIDE DEF Sizes
    <3> QED
      BY <2>2, LeastNumber
  <2>4. PICK S \in Open : Cardinality(S) = k
    BY <2>3
  <2>5. S \in SUBSET StreamTokens /\ IsFiniteSet(S) /\ k \in Nat
    BY <1>2, <2>4
  <2>6. CASE S = {}
    <3>1. Cardinality(S) = 0
      BY <2>6, FS_EmptySet
    <3>2. <<>> \in [1 .. 0 -> S] /\ Sorted(<<>>)
      BY DEF Sorted
    <3> QED
      BY <2>4, <3>1, <3>2
  <2>7. CASE S # {}
    <3> DEFINE Lens == {Len(u) : u \in S}
    <3>1. Lens \in SUBSET Nat /\ Lens # {}
      BY <1>3, <2>5, <2>7
    <3>2. PICK l \in Lens : \A m \in Lens : l <= m
      <4> HIDE DEF Lens
      <4> QED
        BY <3>1, LeastNumber
    <3>3. PICK t \in S : Len(t) = l
      BY <3>2
    <3>4. \A u \in S : Len(u) \in Nat /\ Len(t) <= Len(u)
      BY <1>3, <2>5, <3>2, <3>3
    <3>5. Cardinality(S \ {t}) = k - 1 /\ S \ {t} \in SUBSET StreamTokens /\ k - 1 \in Nat
      <4>1. IsFiniteSet(S \ {t}) /\ Cardinality(S \ {t}) = k - 1
        BY <2>4, <2>5, FS_RemoveElement
      <4>2. Cardinality(S \ {t}) \in Nat
        BY <4>1, FS_CardinalityType
      <4> QED
        BY <2>5, <4>1, <4>2
    <3>6. S \ {t} \notin Open
      <4>1. SUFFICES ASSUME S \ {t} \in Open PROVE FALSE
        OBVIOUS
      <4>2. k - 1 \in Sizes
        BY <3>5, <4>1
      <4>3. k <= k - 1
        BY <2>3, <4>2
      <4> QED
        BY <2>5, <4>3
    <3>7. PICK o \in [1 .. k - 1 -> S \ {t}] : Sorted(o)
      BY <3>5, <3>6
    <3>8. \E order \in [1 .. (k - 1) + 1 -> S] : Sorted(order)
      BY <3>4, <3>5, <3>7, SortedMore
    <3>9. (k - 1) + 1 = k
      BY <2>5
    <3> QED
      BY <2>4, <3>8, <3>9
  <2> QED
    BY <2>6, <2>7
<1>5. \E order \in [1 .. Cardinality(StreamTokens) -> StreamTokens] : Sorted(order)
  BY <1>4
<1>6. \E order \in [1 .. Count -> StreamTokens] : Sorted(order)
  BY <1>5, CountFacts
<1> QED
  BY <1>6 DEF Stream!LongestFirst, Sorted, Count

(* The passes over a text.                                                 *)
Order == Stream!LongestFirst

Passed(s, M, P) ==
    P[0] = s /\ \A n \in 1 .. Count : P[n] = Stream!Pass(P[n - 1], Order[n], M)

LEMMA PassesFacts ==
  ASSUME Stream!TokensFinite, NEW s, NEW M
  PROVE  Passed(s, M, Stream!Passes(s, M))
<1> DEFINE K == Count
           Re(x, n) == Stream!Pass(x, Stream!LongestFirst[n], M)
           Good(f, k) == f = [n \in 0 .. k |-> IF n = 0 THEN s ELSE Re(f[n - 1], n)]
           Bad == {k \in 0 .. K : \A f : ~Good(f, k)}
<1>1. K \in Nat
  BY CountFacts
<1> HIDE DEF Good, Re, K
<1>2. Bad = {}
  <2>1. SUFFICES ASSUME Bad # {} PROVE FALSE
    OBVIOUS
  <2>2. Bad \in SUBSET Nat
    BY <1>1
  <2>3. PICK k \in Bad : \A j \in Bad : k <= j
    BY <2>1, <2>2, LeastNumber
  <2>4. CASE k = 0
    <3> DEFINE g == [n \in 0 .. 0 |-> s]
    <3>1. g = [n \in 0 .. 0 |-> IF n = 0 THEN s ELSE Re(g[n - 1], n)]
      OBVIOUS
    <3> HIDE DEF g
    <3>2. Good(g, 0)
      BY <3>1 DEF Good
    <3> QED
      BY <2>3, <2>4, <3>2
  <2>5. CASE k # 0
    <3>1. k \in Nat /\ k - 1 \in 0 .. K /\ ~(k <= k - 1) /\ k \in 0 .. K
      BY <1>1, <2>3, <2>5
    <3>2. PICK f : Good(f, k - 1)
      BY <2>3, <3>1
    <3> DEFINE g == [n \in 0 .. k |-> IF n = 0 THEN s ELSE Re(f[n - 1], n)]
    <3>3. ASSUME NEW n \in 0 .. (k - 1) PROVE g[n] = f[n]
      <4>1. n \in 0 .. k
        BY <3>1
      <4>2. f[n] = IF n = 0 THEN s ELSE Re(f[n - 1], n)
        BY <3>2, Zenon DEF Good
      <4> QED
        BY <4>1, <4>2
    <3>4. ASSUME NEW n \in 0 .. k, n # 0
          PROVE  g[n - 1] = f[n - 1]
      <4>1. n - 1 \in 0 .. (k - 1)
        BY <1>1, <3>1, <3>4
      <4> QED
        BY <3>3, <4>1
    <3>5. ASSUME NEW n \in 0 .. k
          PROVE  g[n] = IF n = 0 THEN s ELSE Re(g[n - 1], n)
      BY <3>4
    <3>6. Good(g, k)
      <4>1. g = [n \in 0 .. k |-> g[n]]
        OBVIOUS
      <4> HIDE DEF g
      <4> QED
        BY <3>5, <4>1, Zenon DEF Good
    <3> QED
      BY <2>3, <3>6
  <2> QED
    BY <2>4, <2>5
<1>3. PICK f : Good(f, K)
  BY <1>1, <1>2
<1> DEFINE R == Stream!Passes(s, M)
<1>4. R = [n \in 0 .. K |-> IF n = 0 THEN s ELSE Re(R[n - 1], n)]
  BY <1>3, Zenon DEF Stream!Passes, Good, Re, K, Count
<1> HIDE DEF R
<1>5. \A n \in 0 .. K : R[n] = IF n = 0 THEN s ELSE Re(R[n - 1], n)
  BY <1>4, Zenon
<1>6. 0 \in 0 .. K /\ \A n \in 1 .. K : n \in 0 .. K /\ n # 0
  BY <1>1
<1>7. R[0] = s /\ \A n \in 1 .. K : R[n] = Re(R[n - 1], n)
  BY <1>5, <1>6
<1> QED
  BY <1>7, Zenon DEF R, Passed, Order, Re, K

(* No token across the border: both texts are restored by themselves.      *)
LEMMA RestoreApart ==
  ASSUME Stream!TokensFinite, NEW a, IsList(a), NEW b, IsList(b),
         NEW M \in SUBSET StreamTokens, \A u \in M : ~Straddles(a, b, u)
  PROVE  Stream!Restore(a \o b, M) = Stream!Restore(a, M) \o Stream!Restore(b, M)
<1> DEFINE A == Stream!Passes(a, M)
           B == Stream!Passes(b, M)
           S == Stream!Passes(a \o b, M)
           Good(n) == /\ S[n] = A[n] \o B[n] /\ IsList(A[n]) /\ IsList(B[n])
                      /\ \A u \in M : ~Straddles(A[n], B[n], u)
           Bad == {n \in 0 .. Count : ~Good(n)}
<1>1. Passed(a, M, A) /\ Passed(b, M, B) /\ Passed(a \o b, M, S)
  BY PassesFacts
<1>2. Count \in Nat /\ \A n \in 1 .. Count : Order[n] \in StreamTokens
  BY CountFacts, SortedAll DEF Order
<1> HIDE DEF A, B, S, Good
<1>3. Bad = {}
  <2>1. SUFFICES ASSUME Bad # {} PROVE FALSE
    OBVIOUS
  <2>2. Bad \in SUBSET Nat
    BY <1>2
  <2>3. PICK n \in Bad : \A m \in Bad : n <= m
    BY <2>1, <2>2, LeastNumber
  <2>4. n # 0
    <3>1. A[0] = a /\ B[0] = b /\ S[0] = a \o b
      BY <1>1 DEF Passed
    <3>2. Good(0)
      BY <3>1 DEF Good
    <3> QED
      BY <2>3, <3>2
  <2>5. n \in 1 .. Count /\ n - 1 \in 0 .. Count /\ ~(n <= n - 1)
    BY <1>2, <2>3, <2>4
  <2>6. Good(n - 1)
    BY <2>3, <2>5
  <2> DEFINE t == Order[n]
             v == StreamValue[t]
             c == A[n - 1]
             d == B[n - 1]
  <2>7. t \in StreamTokens
    BY <1>2, <2>5
  <2>8. /\ A[n] = Stream!Pass(c, t, M) /\ B[n] = Stream!Pass(d, t, M)
        /\ S[n] = Stream!Pass(c \o d, t, M)
    BY <1>1, <2>5, <2>6 DEF Passed, Good
  <2>9. IsList(c) /\ IsList(d) /\ \A u \in M : ~Straddles(c, d, u)
    BY <2>6 DEF Good
  <2> HIDE DEF t, c, d
  <2>10. Len(t) \in Nat \ {0}
    BY <2>7, TokenFacts
  <2>11. \A u \in M : Len(u) \in Nat /\ \A i \in 1 .. Len(u) : u[i] # v
    BY <2>7, TokenFacts
  <2> HIDE DEF v
  <2>12. CASE t \notin M
    <3>1. A[n] = c /\ B[n] = d /\ S[n] = c \o d
      BY <2>8, <2>12 DEF Stream!Pass
    <3>2. Good(n)
      BY <2>9, <3>1 DEF Good
    <3> QED
      BY <2>3, <3>2
  <2>13. CASE t \in M
    <3>1. /\ A[n] = Stream!Replace(c, t, v) /\ B[n] = Stream!Replace(d, t, v)
          /\ S[n] = Stream!Replace(c \o d, t, v)
      BY <2>8, <2>13 DEF Stream!Pass, v
    <3>2. IsList(A[n]) /\ IsList(B[n])
      BY <2>9, <2>10, <3>1, ReplaceType
    <3>3. S[n] = A[n] \o B[n]
      BY <2>9, <2>10, <2>13, <3>1, ReplaceApart
    <3>4. ASSUME NEW u \in M, Straddles(A[n], B[n], u)
          PROVE  FALSE
      <4>1. Straddles(Stream!Replace(c, t, v), Stream!Replace(d, t, v), u)
        BY <3>1, <3>4
      <4>2. Straddles(c, d, u)
        BY <2>9, <2>10, <2>11, <4>1, StraddlesKept
      <4> QED
        BY <2>9, <4>2
    <3>5. Good(n)
      BY <3>2, <3>3, <3>4 DEF Good
    <3> QED
      BY <2>3, <3>5
  <2> QED
    BY <2>12, <2>13
<1>4. Good(Count)
  BY <1>2, <1>3
<1> QED
  BY <1>4 DEF Good, A, B, S, Stream!Restore, Count

(* Nothing becomes nothing.                                                *)
LEMMA RestoreNothing ==
  ASSUME Stream!TokensFinite, NEW M
  PROVE  Stream!Restore(<<>>, M) = <<>>
<1> DEFINE e == <<>>
           P == Stream!Passes(e, M)
           Bad == {n \in 0 .. Count : P[n] # e}
<1>1. Passed(e, M, P) /\ IsList(e) /\ Len(e) = 0
  BY PassesFacts, EmptyList
<1>2. Count \in Nat /\ \A n \in 1 .. Count : Order[n] \in StreamTokens
  BY CountFacts, SortedAll DEF Order
<1>3. ASSUME NEW t \in StreamTokens, NEW v
      PROVE  Stream!Replace(e, t, v) = e
  <2>1. Len(t) \in Nat \ {0}
    BY TokenFacts
  <2>2. Rested(e, t, v, Stream!Rests(e, t, v))
    BY <1>1, <2>1, RestsFacts
  <2> QED
    BY <1>1, <2>2 DEF Rested, Stream!Replace
<1> HIDE DEF P, e
<1>4. Bad = {}
  <2>1. SUFFICES ASSUME Bad # {} PROVE FALSE
    OBVIOUS
  <2>2. Bad \in SUBSET Nat
    BY <1>2
  <2>3. PICK n \in Bad : \A m \in Bad : n <= m
    BY <2>1, <2>2, LeastNumber
  <2>4. n # 0
    BY <1>1, <2>3 DEF Passed
  <2>5. n \in 1 .. Count /\ n - 1 \in 0 .. Count /\ ~(n <= n - 1)
    BY <1>2, <2>3, <2>4
  <2>6. P[n - 1] = e
    BY <2>3, <2>5
  <2>7. P[n] = Stream!Pass(e, Order[n], M)
    BY <1>1, <2>5, <2>6 DEF Passed
  <2>8. P[n] = e
    BY <1>2, <1>3, <2>5, <2>7 DEF Stream!Pass
  <2> QED
    BY <2>3, <2>8
<1>5. P[Count] = e
  BY <1>2, <1>4
<1> QED
  BY <1>5 DEF P, e, Stream!Restore, Count

(* A finite set of numbers has its greatest.                               *)
LEMMA GreatestListed ==
  ASSUME NEW S \in SUBSET Nat, IsFiniteSet(S), S # {}
  PROVE  \E m \in S : \A y \in S : y <= m
<1> DEFINE k == Cardinality(S)
           m == InOrder(S)[k]
<1>1. k \in Nat /\ k # 0
  BY FS_CardinalityType, FS_EmptySet
<1>2. k \in 1 .. k
  BY <1>1
<1>3. m \in S
  BY <1>2, InOrderFacts
<1>4. ASSUME NEW y \in S
      PROVE  y <= m
  <2>1. PICK n \in 1 .. k : InOrder(S)[n] = y
    BY InOrderAll
  <2>2. CASE n = k
    BY <1>3, <2>1, <2>2
  <2>3. CASE n # k
    <3>1. n < k
      BY <1>1, <2>1, <2>3
    <3>2. InOrder(S)[n] < InOrder(S)[k]
      BY <1>2, <2>1, <3>1, InOrderGrows
    <3>3. y < m /\ y \in Nat /\ m \in Nat
      BY <1>3, <2>1, <3>2
    <3> QED
      BY <3>3
  <2> QED
    BY <2>2, <2>3
<1> QED
  BY <1>3, <1>4

(* What is held back: a beginning of a token, and the longest one.         *)
LEMMA HoldFacts ==
  ASSUME Stream!TokensFinite, NEW s, IsList(s), NEW M \in SUBSET StreamTokens
  PROVE  /\ Stream!Hold(s, M) \in 0 .. Len(s)
         /\ Stream!Hold(s, M) # 0 => Stream!Ambiguous(s, Stream!Hold(s, M), M)
         /\ \A n \in 1 .. Len(s) : Stream!Ambiguous(s, n, M) => n <= Stream!Hold(s, M)
<1> DEFINE Lens == {0} \union {Len(t) : t \in M}
           K == Stream!MaxTokenLen(M)
           Some == {0} \union {n \in 1 .. (K - 1) : n <= Len(s) /\ Stream!Ambiguous(s, n, M)}
           h == Stream!Hold(s, M)
<1>0. IsFiniteSet(M)
  BY CountFacts, FS_Subset
<1>1. Len(s) \in Nat
  BY ListFacts
<1>2. K \in Nat /\ \A t \in M : Len(t) \in Nat /\ Len(t) <= K
  <2>1. \A t \in M : Len(t) \in Nat
    BY TokenFacts
  <2>2. Lens \in SUBSET Nat /\ Lens # {}
    BY <2>1
  <2>3. IsFiniteSet(Lens)
    <3>1. IsFiniteSet({Len(t) : t \in M})
      <4> DEFINE L == {Len(t) : t \in M}
                 f == [t \in M |-> Len(t)]
      <4>1. f \in Surjection(M, L)
        BY DEF Surjection
      <4> HIDE DEF f, L
      <4>2. IsFiniteSet(L)
        BY <1>0, <4>1, FS_Surjection
      <4> QED
        BY <4>2 DEF L
    <3>2. IsFiniteSet({0})
      BY FS_Singleton
    <3> QED
      BY <3>1, <3>2, FS_Union
  <2>4. K = Stream!Max(Lens)
    BY DEF Stream!MaxTokenLen
  <2>5. \A t \in M : Len(t) \in Lens
    OBVIOUS
  <2> HIDE DEF Lens, K
  <2>6. PICK m \in Lens : \A y \in Lens : y <= m
    BY <2>2, <2>3, GreatestListed
  <2>7. \A y \in Lens : m >= y
    BY <2>2, <2>6
  <2>8. K \in Lens /\ \A y \in Lens : K >= y
    BY <2>4, <2>6, <2>7, Zenon DEF Stream!Max
  <2> QED
    BY <2>1, <2>2, <2>5, <2>8
<1> HIDE DEF K
<1>3. Some \in SUBSET (0 .. Len(s)) /\ 0 \in Some
  BY <1>1, <1>2
<1>4. h = Stream!Max(Some)
  BY DEF Stream!Hold, K
<1>5. ASSUME NEW n \in 1 .. Len(s), Stream!Ambiguous(s, n, M)
      PROVE  n \in Some
  <2>1. PICK t \in M : n < Len(t)
    BY <1>5 DEF Stream!Ambiguous
  <2> QED
    BY <1>1, <1>2, <1>5, <2>1
<1>6. \A n \in Some : n # 0 => Stream!Ambiguous(s, n, M)
  OBVIOUS
<1> HIDE DEF Some, h
<1>7. PICK m \in Some : \A y \in Some : y <= m
  BY <1>1, <1>3, GreatestNumber
<1>8. \A y \in Some : m >= y
  BY <1>1, <1>3, <1>7
<1>9. h \in Some /\ \A y \in Some : h >= y
  BY <1>4, <1>7, <1>8, Zenon DEF Stream!Max
<1>10. \A n \in 1 .. Len(s) : Stream!Ambiguous(s, n, M) => n <= h
  BY <1>1, <1>3, <1>5, <1>9
<1> QED
  BY <1>3, <1>6, <1>9, <1>10 DEF h

-----------------------------------------------------------------------------
(* What stands in a text. *)

Stands(t, s) == \E p \in 1 .. Len(s) : Stream!StandsAt(t, s, p)

(* More text does not remove it.                                           *)
LEMMA StandsMore ==
  ASSUME NEW s, IsList(s), NEW x, IsList(x), NEW t, IsList(t), NEW p \in Nat \ {0}, Stream!StandsAt(t, s, p)
  PROVE  Stream!StandsAt(t, s \o x, p)
<1> DEFINE r == s \o x
<1>1. Len(s) \in Nat /\ Len(x) \in Nat /\ Len(t) \in Nat
  BY ListFacts
<1>2. Len(r) = Len(s) + Len(x) /\ \A i \in 1 .. Len(s) + Len(x) : r[i] = IF i <= Len(s) THEN s[i] ELSE x[i - Len(s)]
  BY ListConcat
<1> HIDE DEF r
<1>3. p + Len(t) - 1 <= Len(s) /\ \A i \in 1 .. Len(t) : s[p + i - 1] = t[i]
  BY DEF Stream!StandsAt
<1>4. ASSUME NEW i \in 1 .. Len(t)
      PROVE  r[p + i - 1] = t[i]
  <2>1. p + i - 1 \in 1 .. Len(s) + Len(x) /\ p + i - 1 <= Len(s)
    BY <1>1, <1>3
  <2> QED
    BY <1>2, <1>3, <2>1
<1>5. p + Len(t) - 1 <= Len(r)
  BY <1>1, <1>2, <1>3
<1> QED
  BY <1>4, <1>5 DEF r, Stream!StandsAt

(* A token that stands in a text after another has been replaced stood     *)
(* there before: values are not of tokens.                                 *)
LEMMA StandsKept ==
  ASSUME NEW s, IsList(s), NEW u, Len(u) \in Nat \ {0}, NEW v,
         NEW t, Len(t) \in Nat \ {0}, \A i \in 1 .. Len(t) : t[i] # v,
         Stands(t, Stream!Replace(s, u, v))
  PROVE  Stands(t, s)
<1> DEFINE R == Stream!Rests(s, u, v)
           Good(n) == Stands(t, R[n]) => Stands(t, s)
           Bad == {n \in 0 .. Len(s) : ~Good(n)}
<1>1. Len(s) \in Nat
  BY ListFacts
<1>2. Rested(s, u, v, R)
  BY RestsFacts
<1>3. \A n \in 0 .. Len(s) : IsList(R[n]) /\ HeadKept(s, v, R[n], n)
  BY RestsKept
<1>4. Stands(t, R[Len(s)])
  BY DEF Stream!Replace
<1> HIDE DEF R
<1>5. Bad = {}
  <2>1. SUFFICES ASSUME Bad # {} PROVE FALSE
    OBVIOUS
  <2>2. Bad \in SUBSET Nat
    BY <1>1
  <2>3. PICK n \in Bad : \A m \in Bad : n <= m
    BY <2>1, <2>2, LeastNumber
  <2>4. IsList(R[n]) /\ HeadKept(s, v, R[n], n) /\ Len(R[n]) \in Nat
    BY <1>3, <2>3, ListFacts
  <2>5. PICK p \in 1 .. Len(R[n]) : Stream!StandsAt(t, R[n], p)
    BY <2>3 DEF Stands
  <2>6. p \in Nat \ {0} /\ p + Len(t) - 1 <= Len(R[n]) /\ \A i \in 1 .. Len(t) : R[n][p + i - 1] = t[i]
    BY <2>4, <2>5 DEF Stream!StandsAt
  <2>7. CASE p = 1
    <3>1. Len(t) \in 0 .. Len(R[n]) /\ \A i \in 1 .. Len(t) : 1 + i - 1 = i
      BY <2>4, <2>6, <2>7
    <3>2. \A i \in 1 .. Len(t) : R[n][i] = t[i] /\ R[n][i] # v
      BY <2>6, <2>7, <3>1
    <3>3. Len(t) <= n /\ \A i \in 1 .. Len(t) : R[n][i] = s[Len(s) - n + i]
      BY <2>4, <3>1, <3>2 DEF HeadKept
    <3> DEFINE q == Len(s) - n + 1
    <3>4. q \in 1 .. Len(s) /\ q + Len(t) - 1 <= Len(s) /\ \A i \in 1 .. Len(t) : q + i - 1 = Len(s) - n + i
      BY <1>1, <2>3, <3>3
    <3>5. \A i \in 1 .. Len(t) : s[q + i - 1] = t[i]
      BY <3>2, <3>3, <3>4
    <3>6. Stands(t, s)
      BY <3>4, <3>5 DEF Stands, Stream!StandsAt
    <3> QED
      BY <2>3, <3>6
  <2>8. CASE p # 1
    <3>1. n # 0
      BY <1>2, <2>4, <2>5, EmptyList DEF Rested
    <3>2. n \in 1 .. Len(s) /\ n \in Nat
      BY <1>1, <2>3, <3>1
    <3>3. PICK m \in 0 .. (n - 1) : \E x : R[n] = Front(x, R[m])
      BY <1>2, <3>2 DEF Rested, Rest
    <3>11. PICK x : R[n] = Front(x, R[m])
      BY <3>3
    <3>4. m \in 0 .. Len(s) /\ ~(n <= m)
      BY <1>1, <3>2, <3>3
    <3>5. IsList(R[m]) /\ Len(R[m]) \in Nat
      BY <1>3, <3>4, ListFacts
    <3>6. Len(R[n]) = Len(R[m]) + 1 /\ \A i \in 1 .. Len(R[m]) : R[n][i + 1] = R[m][i]
      BY <3>5, <3>11, InFront
    <3> DEFINE q == p - 1
    <3>7. q \in 1 .. Len(R[m]) /\ q + Len(t) - 1 <= Len(R[m])
      BY <2>5, <2>6, <2>8, <3>5, <3>6
    <3>8. ASSUME NEW i \in 1 .. Len(t)
          PROVE  R[m][q + i - 1] = t[i]
      <4> DEFINE l == Len(R[m])
                 k == Len(t)
      <4>3. /\ l \in Nat /\ k \in Nat /\ p \in Nat /\ i \in 1 .. k /\ p - 1 \in 1 .. l
            /\ (p - 1) + k - 1 <= l
        BY <2>6, <3>5, <3>7
      <4> HIDE DEF l, k
      <4>4. (p - 1) + i - 1 \in 1 .. l /\ ((p - 1) + i - 1) + 1 = p + i - 1
        BY <4>3
      <4>1. q + i - 1 \in 1 .. Len(R[m]) /\ (q + i - 1) + 1 = p + i - 1
        BY <4>4 DEF l
      <4>2. R[n][(q + i - 1) + 1] = R[m][q + i - 1]
        BY <3>6, <4>1
      <4> QED
        BY <2>6, <4>1, <4>2
    <3>9. Stands(t, R[m])
      BY <3>7, <3>8 DEF Stands, Stream!StandsAt
    <3>10. Good(m)
      BY <2>3, <3>4
    <3> QED
      BY <2>3, <3>9, <3>10
  <2> QED
    BY <2>7, <2>8
<1>6. Len(s) \in 0 .. Len(s)
  BY <1>1
<1>7. Good(Len(s))
  BY <1>5, <1>6
<1> QED
  BY <1>4, <1>7

(* A token that does not stand in a text changes nothing there.            *)
LEMMA ReplaceNothing ==
  ASSUME NEW s, IsList(s), NEW t, Len(t) \in Nat \ {0}, NEW v, ~Stands(t, s)
  PROVE  Stream!Replace(s, t, v) = s
<1> DEFINE R == Stream!Rests(s, t, v)
           Good(n) == Len(R[n]) = n /\ \A i \in 1 .. n : R[n][i] = s[Len(s) - n + i]
           Bad == {n \in 0 .. Len(s) : ~Good(n)}
<1>1. Len(s) \in Nat
  BY ListFacts
<1>2. Rested(s, t, v, R)
  BY RestsFacts
<1> HIDE DEF R
<1>3. Bad = {}
  <2>1. SUFFICES ASSUME Bad # {} PROVE FALSE
    OBVIOUS
  <2>2. Bad \in SUBSET Nat
    BY <1>1
  <2>3. PICK n \in Bad : \A m \in Bad : n <= m
    BY <2>1, <2>2, LeastNumber
  <2>4. n # 0
    BY <1>2, <2>3, EmptyList DEF Rested
  <2>5. n \in 1 .. Len(s) /\ n - 1 \in 0 .. Len(s) /\ ~(n <= n - 1) /\ Len(s) - n + 1 \in 1 .. Len(s)
    BY <1>1, <2>3, <2>4
  <2>6. R[n] = Front(s[Len(s) - n + 1], R[n - 1])
    BY <1>2, <2>5 DEF Rested, Rest, Stands
  <2>7. Len(R[n - 1]) = n - 1 /\ \A i \in 1 .. (n - 1) : R[n - 1][i] = s[Len(s) - (n - 1) + i]
    BY <2>3, <2>5
  <2> DEFINE h == s[Len(s) - n + 1]
  <2>8. IsList(R[n - 1])
    BY <1>2, <2>5 DEF Rested
  <2> HIDE DEF h
  <2>9. /\ Len(R[n]) = Len(R[n - 1]) + 1 /\ R[n][1] = h
        /\ \A i \in 1 .. Len(R[n - 1]) : R[n][i + 1] = R[n - 1][i]
    BY <2>6, <2>8, InFront DEF h
  <2>10. ASSUME NEW i \in 1 .. n
         PROVE  R[n][i] = s[Len(s) - n + i]
    <3>1. CASE i = 1
      BY <2>9, <3>1 DEF h
    <3>2. CASE i # 1
      <4>1. i - 1 \in 1 .. (n - 1) /\ (i - 1) + 1 = i /\ Len(s) - (n - 1) + (i - 1) = Len(s) - n + i
        BY <1>1, <2>5, <3>2
      <4> QED
        BY <2>7, <2>9, <4>1
    <3> QED
      BY <3>1, <3>2
  <2>11. Len(R[n]) = n
    BY <2>5, <2>7, <2>9
  <2> QED
    BY <2>3, <2>10, <2>11
<1>4. Len(s) \in 0 .. Len(s) /\ \A i \in 1 .. Len(s) : Len(s) - Len(s) + i = i
  BY <1>1
<1>5. Len(R[Len(s)]) = Len(s) /\ IsList(R[Len(s)]) /\ \A i \in 1 .. Len(s) : R[Len(s)][i] = s[i]
  BY <1>2, <1>3, <1>4 DEF Rested
<1>6. R[Len(s)] = s
  BY <1>5, ListEqual
<1> QED
  BY <1>6 DEF R, Stream!Replace

(* So a token more in the table changes nothing of a text without it.      *)
LEMMA RestoreMore ==
  ASSUME Stream!TokensFinite, NEW s, IsList(s), NEW M \in SUBSET StreamTokens,
         NEW t \in StreamTokens \ M, ~Stands(t, s)
  PROVE  Stream!Restore(s, M \union {t}) = Stream!Restore(s, M)
<1> DEFINE P == Stream!Passes(s, M)
           Q == Stream!Passes(s, M \union {t})
           Good(n) == IsList(P[n]) /\ Q[n] = P[n] /\ ~Stands(t, P[n])
           Bad == {n \in 0 .. Count : ~Good(n)}
<1>1. Passed(s, M, P) /\ Passed(s, M \union {t}, Q)
  BY PassesFacts
<1>2. Count \in Nat /\ \A n \in 1 .. Count : Order[n] \in StreamTokens
  BY CountFacts, SortedAll DEF Order
<1> HIDE DEF P, Q, Good
<1>3. Bad = {}
  <2>1. SUFFICES ASSUME Bad # {} PROVE FALSE
    OBVIOUS
  <2>2. Bad \in SUBSET Nat
    BY <1>2
  <2>3. PICK n \in Bad : \A m \in Bad : n <= m
    BY <2>1, <2>2, LeastNumber
  <2>4. n # 0
    <3>1. P[0] = s /\ Q[0] = s
      BY <1>1 DEF Passed
    <3>2. Good(0)
      BY <3>1 DEF Good
    <3> QED
      BY <2>3, <3>2
  <2>5. n \in 1 .. Count /\ n - 1 \in 0 .. Count /\ ~(n <= n - 1)
    BY <1>2, <2>3, <2>4
  <2>6. Good(n - 1)
    BY <2>3, <2>5
  <2> DEFINE u == Order[n]
             v == StreamValue[u]
             c == P[n - 1]
  <2>7. u \in StreamTokens
    BY <1>2, <2>5
  <2>8. P[n] = Stream!Pass(c, u, M) /\ Q[n] = Stream!Pass(c, u, M \union {t})
    BY <1>1, <2>5, <2>6 DEF Passed, Good
  <2>9. IsList(c) /\ ~Stands(t, c)
    BY <2>6 DEF Good
  <2> HIDE DEF u, c
  <2>10. /\ Len(u) \in Nat \ {0} /\ Len(t) \in Nat \ {0}
         /\ \A i \in 1 .. Len(t) : t[i] # v
    BY <2>7, TokenFacts
  <2> HIDE DEF v
  <2>11. CASE u \in M
    <3>1. P[n] = Stream!Replace(c, u, v) /\ Q[n] = P[n]
      BY <2>8, <2>11 DEF Stream!Pass, v
    <3>2. IsList(P[n])
      BY <2>9, <2>10, <3>1, ReplaceType
    <3>3. ~Stands(t, P[n])
      BY <2>9, <2>10, <3>1, StandsKept
    <3> QED
      BY <2>3, <3>1, <3>2, <3>3 DEF Good
  <2>12. CASE u = t
    <3>1. P[n] = c /\ Q[n] = Stream!Replace(c, u, v)
      BY <2>8, <2>12 DEF Stream!Pass, v
    <3>2. Stream!Replace(c, u, v) = c
      BY <2>9, <2>10, <2>12, ReplaceNothing
    <3> QED
      BY <2>3, <2>9, <3>1, <3>2 DEF Good
  <2>13. CASE u \notin M /\ u # t
    <3>1. P[n] = c /\ Q[n] = c
      BY <2>8, <2>13 DEF Stream!Pass
    <3> QED
      BY <2>3, <2>9, <3>1 DEF Good
  <2> QED
    BY <2>11, <2>12, <2>13
<1>4. Good(Count)
  BY <1>2, <1>3
<1> QED
  BY <1>4 DEF Good, P, Q, Stream!Restore, Count

-----------------------------------------------------------------------------
(* Where a stream may be cut. *)

(* As far as both go, u stands in the text from a place on; and no token   *)
(* of a table does so across a place of the text, unless it was minted     *)
(* after it would begin there.                                             *)
Meets(u, s, p) == \A i \in 1 .. Len(u) : p + i - 1 <= Len(s) => s[p + i - 1] = u[i]

Border(B, s, k) ==
    \A u \in DOMAIN B : \A n \in 1 .. k : n < Len(u) /\ B[u] < k - n + 1 => ~Meets(u, s, k - n + 1)

(* A table, with the places at which its tokens were minted; and what is   *)
(* assumed of it.                                                          *)
IsTable(B) == DOMAIN B \in SUBSET StreamTokens /\ \A u \in DOMAIN B : B[u] \in Nat

Late(B, s) == \A u \in DOMAIN B : \A p \in 1 .. B[u] : ~Stream!StandsAt(u, s, p)

(* More text does not change that.                                         *)
LEMMA BorderLonger ==
  ASSUME NEW s, IsList(s), NEW x, IsList(x), NEW k \in 0 .. Len(s), NEW B, Border(B, s, k)
  PROVE  Border(B, s \o x, k)
<1> DEFINE r == s \o x
<1>1. Len(s) \in Nat /\ Len(x) \in Nat /\ k \in Nat
  BY ListFacts
<1>2. Len(r) = Len(s) + Len(x) /\ \A i \in 1 .. Len(s) + Len(x) : r[i] = IF i <= Len(s) THEN s[i] ELSE x[i - Len(s)]
  BY ListConcat
<1> HIDE DEF r
<1>3. ASSUME NEW u \in DOMAIN B, NEW n \in 1 .. k, n < Len(u), B[u] < k - n + 1, Meets(u, r, k - n + 1)
      PROVE  FALSE
  <2>1. ASSUME NEW i \in 1 .. Len(u), k - n + 1 + i - 1 <= Len(s)
        PROVE  s[k - n + 1 + i - 1] = u[i]
    <3>1. k - n + 1 + i - 1 \in 1 .. Len(s) + Len(x) /\ k - n + 1 + i - 1 <= Len(r)
      BY <1>1, <1>2, <2>1
    <3>2. r[k - n + 1 + i - 1] = u[i]
      BY <1>3, <3>1 DEF Meets
    <3> QED
      BY <1>2, <2>1, <3>1, <3>2
  <2>2. Meets(u, s, k - n + 1)
    BY <2>1 DEF Meets
  <2> QED
    BY <1>3, <2>2 DEF Border
<1> QED
  BY <1>3 DEF Border, r

(* No token straddles such a place.                                        *)
LEMMA BorderApart ==
  ASSUME Stream!TokensFinite, NEW a, IsList(a), NEW e, IsList(e), NEW x, IsList(x),
         NEW B, IsTable(B), Late(B, (a \o e) \o x), Border(B, (a \o e) \o x, Len(a))
  PROVE  \A u \in DOMAIN B : ~Straddles(a, e, u)
<1> DEFINE s == a \o e
           r == s \o x
<1>1. IsList(s) /\ Len(s) \in Nat /\ Len(x) \in Nat /\ Len(a) \in Nat
  BY ListFacts, ListConcat
<1>2. Late(B, r) /\ Border(B, r, Len(a)) /\ \A u : Straddles(a, e, u) => \E n \in 1 .. Len(a) : n < Len(u) /\ Stream!StandsAt(u, s, Len(a) - n + 1)
  BY DEF Straddles
<1> HIDE DEF s
<1>3. Len(r) = Len(s) + Len(x) /\ \A i \in 1 .. Len(s) + Len(x) : r[i] = IF i <= Len(s) THEN s[i] ELSE x[i - Len(s)]
  BY <1>1, ListConcat
<1> HIDE DEF r
<1>4. ASSUME NEW u \in DOMAIN B, NEW n \in 1 .. Len(a), n < Len(u), Stream!StandsAt(u, s, Len(a) - n + 1)
      PROVE  FALSE
  <2> DEFINE p == Len(a) - n + 1
  <2>1. p \in Nat \ {0}
    BY <1>1
  <2>2. p + Len(u) - 1 <= Len(s) /\ \A i \in 1 .. Len(u) : s[p + i - 1] = u[i]
    BY <1>4 DEF Stream!StandsAt
  <2>0. u \in StreamTokens /\ B[u] \in Nat
    BY DEF IsTable
  <2>8. B[u] < p
    <3>1. SUFFICES ASSUME p \in 1 .. B[u] PROVE FALSE
      BY <2>0, <2>1
    <3>2. IsList(u)
      BY <2>0, TokenFacts
    <3>3. Stream!StandsAt(u, r, p)
      BY <1>1, <1>4, <2>1, <3>2, StandsMore DEF r
    <3> QED
      BY <1>2, <3>1, <3>3 DEF Late
  <2>3. ~Meets(u, r, p)
    BY <1>2, <1>4, <2>8 DEF Border
  <2> HIDE DEF p
  <2>4. PICK i \in 1 .. Len(u) : p + i - 1 <= Len(r) /\ r[p + i - 1] # u[i]
    BY <2>3 DEF Meets
  <2>5. i \in Nat \ {0} /\ (Len(u) \in Int => i <= Len(u))
    BY <2>4
  <2>6. p + i - 1 <= Len(s)
    <3>1. i <= Len(u) /\ Len(u) \in Int
      BY <1>4, <2>4
    <3> QED
      BY <1>1, <2>1, <2>2, <2>5, <3>1
  <2>7. p + i - 1 \in 1 .. Len(s) + Len(x)
    BY <1>1, <2>1, <2>5, <2>6
  <2> QED
    BY <1>3, <2>2, <2>4, <2>6, <2>7
<1> QED
  BY <1>2, <1>4

(* The place moves to where the hold begins: a token across the new place  *)
(* would be held longer, or end in the beginning of the one that is held.  *)
LEMMA BorderMoves ==
  ASSUME Stream!TokensFinite, NEW a, IsList(a), NEW e, IsList(e), NEW r, IsList(r),
         NEW B, IsTable(B), Stream!Apart(DOMAIN B),
         Border(B, (a \o e) \o r, Len(a)), Stream!Hold(e \o r, DOMAIN B) = Len(r)
  PROVE  Border(B, (a \o e) \o r, Len(a) + Len(e))
<1> DEFINE s == e \o r
           g == (a \o e) \o r
<1>1. Len(a) \in Nat /\ Len(e) \in Nat /\ Len(r) \in Nat
  BY ListFacts
<1>2. /\ IsList(s) /\ Len(s) = Len(e) + Len(r)
      /\ \A i \in 1 .. Len(e) + Len(r) : s[i] = IF i <= Len(e) THEN e[i] ELSE r[i - Len(e)]
  BY ListConcat
<1>3. g = a \o s
  <2>1. Grouped(a, e, r)
    BY ListGrouped
  <2> QED
    BY <2>1 DEF Grouped
<1>0. DOMAIN B \in SUBSET StreamTokens
  BY DEF IsTable
<1>4. /\ \A n \in 1 .. Len(s) : Stream!Ambiguous(s, n, DOMAIN B) => n <= Len(r)
      /\ Len(r) # 0 => Stream!Ambiguous(s, Len(r), DOMAIN B)
  BY <1>0, <1>2, HoldFacts
<1>5. Border(B, g, Len(a))
  OBVIOUS
<1> HIDE DEF s, g
<1>6. /\ Len(g) = Len(a) + Len(s)
      /\ \A i \in 1 .. Len(a) + Len(s) : g[i] = IF i <= Len(a) THEN a[i] ELSE s[i - Len(a)]
  BY <1>2, <1>3, ListConcat
<1> DEFINE k == Len(a) + Len(e)
<1>7. ASSUME NEW u \in DOMAIN B, NEW n \in 1 .. k, n < Len(u), B[u] < k - n + 1, Meets(u, g, k - n + 1)
      PROVE  FALSE
  <2>1. Len(u) \in Nat \ {0} /\ k \in Nat /\ n \in Nat \ {0} /\ IsList(u)
    BY <1>0, <1>1, <1>7, TokenFacts
  <2>2. CASE n > Len(e)
    <3>1. /\ n - Len(e) \in 1 .. Len(a) /\ n - Len(e) < Len(u)
          /\ Len(a) - (n - Len(e)) + 1 = k - n + 1 /\ B[u] < Len(a) - (n - Len(e)) + 1
      BY <1>1, <1>7, <2>1, <2>2
    <3>2. ~Meets(u, g, Len(a) - (n - Len(e)) + 1)
      BY <1>5, <3>1 DEF Border
    <3> QED
      BY <1>7, <3>1, <3>2
  <2>3. CASE ~(n > Len(e))
    <3> DEFINE q == n + Len(r)
    <3>1. q \in 1 .. Len(s) /\ Len(s) - q = Len(e) - n /\ Len(e) - n \in Nat
      BY <1>1, <1>2, <2>1, <2>3
    <3>2. ASSUME NEW i \in 1 .. Len(u), i <= q
          PROVE  s[Len(e) - n + i] = u[i] /\ s[Len(s) - q + i] = u[i]
      <4> DEFINE j == k - n + 1 + i - 1
      <4>1. /\ j \in 1 .. Len(a) + Len(s) /\ j <= Len(g) /\ ~(j <= Len(a))
            /\ j - Len(a) = Len(e) - n + i /\ Len(s) - q + i = Len(e) - n + i
        BY <1>1, <1>2, <1>6, <2>1, <2>3, <3>1, <3>2
      <4>2. g[j] = u[i]
        BY <1>7, <4>1 DEF Meets
      <4>3. g[j] = s[j - Len(a)]
        BY <1>6, <4>1
      <4> QED
        BY <4>1, <4>2, <4>3
    <3>3. CASE q < Len(u)
      <4>1. \A i \in 1 .. q : i \in 1 .. Len(u) /\ i <= q
        BY <2>1, <3>1, <3>3
      <4>2. \A i \in 1 .. q : s[Len(s) - q + i] = u[i]
        BY <3>2, <4>1
      <4>3. Stream!Ambiguous(s, q, DOMAIN B)
        BY <3>3, <4>2 DEF Stream!Ambiguous
      <4>4. q <= Len(r)
        BY <1>4, <3>1, <4>3
      <4> QED
        BY <1>1, <2>1, <4>4
    <3>4. CASE ~(q < Len(u))
      <4> DEFINE m == Len(u) - n
      <4>1. m \in Nat \ {0} /\ m <= Len(r) /\ Len(r) # 0 /\ n + 1 \in Nat \ {0} /\ n + 1 <= Len(u) + 1
        BY <1>1, <1>7, <2>1, <3>4
      <4>2. PICK w \in DOMAIN B : Len(r) < Len(w) /\ \A i \in 1 .. Len(r) : s[Len(s) - Len(r) + i] = w[i]
        BY <1>4, <4>1 DEF Stream!Ambiguous
      <4>3. ASSUME NEW i \in 1 .. m
            PROVE  u[n + i] = w[i]
        <5>1. /\ i \in 1 .. Len(r) /\ n + i \in 1 .. Len(u) /\ n + i <= q
              /\ Len(e) - n + (n + i) = Len(s) - Len(r) + i
          BY <1>1, <1>2, <2>1, <3>4, <4>1
        <5>2. s[Len(e) - n + (n + i)] = u[n + i]
          BY <3>2, <5>1
        <5> QED
          BY <4>2, <5>1, <5>2
      <4> DEFINE z == SubSeq(u, n + 1, Len(u))
      <4>4. Len(z) = Len(u) - (n + 1) + 1 /\ \A i \in 1 .. Len(z) : z[i] = u[n + 1 + i - 1]
        BY <2>1, <4>1, ListSub
      <4> HIDE DEF z
      <4>5. Len(z) = m /\ Len(w) \in Nat
        BY <1>0, <2>1, <4>1, <4>4, TokenFacts
      <4>6. 1 + Len(z) - 1 <= Len(w)
        BY <1>1, <4>1, <4>2, <4>5
      <4>7. ASSUME NEW i \in 1 .. Len(z)
            PROVE  w[1 + i - 1] = z[i]
        <5>1. n + 1 + i - 1 = n + i /\ 1 + i - 1 = i /\ i \in 1 .. m
          BY <2>1, <4>5
        <5> QED
          BY <4>3, <4>4, <5>1
      <4>8. Stream!StandsAt(z, w, 1)
        BY <4>6, <4>7 DEF Stream!StandsAt
      <4>9. n \in 1 .. Len(u) - 1
        BY <1>7, <2>1
      <4> QED
        BY <4>8, <4>9 DEF z, Stream!Apart
    <3> QED
      BY <3>3, <3>4
  <2> QED
    BY <2>2, <2>3
<1> QED
  BY <1>7 DEF Border, g

-----------------------------------------------------------------------------
(* What holds of a stream. *)

(* What has been shown is the translation of the text before a place that  *)
(* no token can straddle; the rest is held.                                *)
Shown ==
    \E a : IsList(a) /\ fed = a \o tail /\ out = Stream!Restore(a, DOMAIN born) /\ Border(born, fed, Len(a))

(* Under what is assumed of the tokens there are.                          *)
Regular == Stream!Apart(DOMAIN born) /\ Late(born, fed)

StreamKept ==
    /\ ended \in BOOLEAN /\ IsList(tail) /\ IsList(fed) /\ IsTable(born)
    /\ tail # <<>> => Stream!Ambiguous(tail, Len(tail), DOMAIN born)
    /\ Regular => IF ended THEN out = Stream!Restore(fed, DOMAIN born) ELSE Shown

LEMMA KeptFirst ==
  ASSUME Stream!TokensFinite, Stream!Init
  PROVE  StreamKept
<1> DEFINE a == <<>>
<1>1. IsList(a) /\ a \o a = a /\ Len(a) = 0
  BY EmptyList, EmptyBefore
<1>2. a = Stream!Restore(a, DOMAIN born)
  BY RestoreNothing
<1>3. Border(born, a, 0)
  BY DEF Border
<1>4. fed = a /\ tail = a /\ out = a /\ ended = FALSE /\ born = [t \in {} |-> 0]
  BY DEF Stream!Init
<1>5. IsTable(born)
  BY <1>4 DEF IsTable
<1> HIDE DEF a
<1>6. IsList(a) /\ fed = a \o tail /\ out = Stream!Restore(a, DOMAIN born) /\ Border(born, fed, Len(a))
  BY <1>1, <1>2, <1>3, <1>4
<1> QED
  BY <1>1, <1>4, <1>5, <1>6 DEF StreamKept, Shown, a

(* What is assumed of the tokens later was so before, as more text and     *)
(* more tokens can only break it.                                          *)
LEMMA LateBefore ==
  ASSUME Stream!TokensFinite, NEW B, IsTable(B), NEW s, IsList(s), NEW x, IsList(x), Late(B, s \o x)
  PROVE  Late(B, s)
<1>1. SUFFICES ASSUME NEW u \in DOMAIN B, NEW p \in 1 .. B[u], Stream!StandsAt(u, s, p) PROVE FALSE
  BY DEF Late
<1>2. u \in StreamTokens /\ B[u] \in Nat
  BY DEF IsTable
<1>3. IsList(u) /\ p \in Nat \ {0}
  BY <1>2, TokenFacts
<1>4. Stream!StandsAt(u, s \o x, p)
  BY <1>1, <1>3, StandsMore
<1> QED
  BY <1>4 DEF Late

(* What a chunk makes of what has been shown.                              *)
LEMMA ShownFeed ==
  ASSUME Stream!TokensFinite, StreamKept, ended = FALSE, NEW n \in Nat,
         NEW chunk \in [1 .. n -> StreamSymbols], Stream!Feed(chunk), Regular'
  PROVE  Shown'
<1> DEFINE s == tail \o chunk
           c == Len(s) - Stream!Hold(s, DOMAIN born)
           e == SubSeq(s, 1, c)
           r == SubSeq(s, c + 1, Len(s))
<1>1. IsList(chunk)
  BY ListIntro
<1>2. /\ born' = born /\ fed' = fed \o chunk /\ out' = out \o Stream!Restore(e, DOMAIN born) /\ tail' = r
  BY DEF Stream!Feed, Stream!minted
<1>3. IsList(fed) /\ IsTable(born) /\ DOMAIN born \in SUBSET StreamTokens
  BY DEF StreamKept, IsTable
<1>4. Stream!Apart(DOMAIN born) /\ Late(born, fed')
  BY <1>2 DEF Regular
<1>5. Regular
  <2>1. Late(born, fed)
    BY <1>1, <1>2, <1>3, <1>4, LateBefore
  <2> QED
    BY <1>4, <2>1 DEF Regular
<1>6. PICK a : IsList(a) /\ fed = a \o tail /\ out = Stream!Restore(a, DOMAIN born) /\ Border(born, fed, Len(a))
  BY <1>5 DEF StreamKept, Shown
<1>7. IsList(tail) /\ IsList(s) /\ Len(fed) = Len(a) + Len(tail)
  BY <1>1, <1>6, ListConcat DEF StreamKept
<1>8. fed' = a \o s
  <2>1. Grouped(a, tail, chunk)
    BY <1>1, <1>6, <1>7, ListGrouped
  <2> QED
    BY <1>2, <1>6, <2>1 DEF Grouped
<1> HIDE DEF s
<1>9. Stream!Hold(s, DOMAIN born) \in 0 .. Len(s) /\ Len(s) \in Nat
  BY <1>3, <1>7, HoldFacts, ListFacts
<1>10. c \in 0 .. Len(s) /\ Len(s) - c = Stream!Hold(s, DOMAIN born)
  BY <1>9
<1> HIDE DEF c
<1>11. IsList(e) /\ Len(e) = c /\ IsList(r) /\ Len(r) = Len(s) - c /\ s = e \o r
  BY <1>7, <1>10, ListCut
<1> HIDE DEF e, r
<1>12. fed' = (a \o e) \o r
  <2>1. Grouped(a, e, r)
    BY <1>6, <1>11, ListGrouped
  <2> QED
    BY <1>8, <1>11, <2>1 DEF Grouped
<1>13. Border(born, fed', Len(a))
  <2>1. Len(a) \in 0 .. Len(fed)
    BY <1>6, <1>7, ListFacts
  <2>2. Border(born, fed \o chunk, Len(a))
    BY <1>1, <1>3, <1>6, <2>1, BorderLonger
  <2> QED
    BY <1>2, <2>2
<1>14. out' = Stream!Restore(a \o e, DOMAIN born)
  <2>1. \A u \in DOMAIN born : ~Straddles(a, e, u)
    BY <1>3, <1>4, <1>6, <1>11, <1>12, <1>13, BorderApart
  <2>2. Stream!Restore(a \o e, DOMAIN born) = Stream!Restore(a, DOMAIN born) \o Stream!Restore(e, DOMAIN born)
    <3> DEFINE M == DOMAIN born
    <3>1. M \in SUBSET StreamTokens /\ \A u \in M : ~Straddles(a, e, u)
      BY <1>3, <2>1
    <3> HIDE DEF M
    <3>2. Stream!Restore(a \o e, M) = Stream!Restore(a, M) \o Stream!Restore(e, M)
      BY <1>6, <1>11, <3>1, RestoreApart
    <3> QED
      BY <3>2 DEF M
  <2> QED
    BY <1>2, <1>6, <2>2
<1>15. IsList(a \o e) /\ Len(a \o e) = Len(a) + Len(e)
  BY <1>6, <1>11, ListConcat
<1>16. Border(born, fed', Len(a \o e))
  <2>1. Stream!Hold(e \o r, DOMAIN born) = Len(r)
    BY <1>10, <1>11
  <2>2. Border(born, (a \o e) \o r, Len(a) + Len(e))
    BY <1>3, <1>4, <1>6, <1>11, <1>12, <1>13, <2>1, BorderMoves
  <2> QED
    BY <1>12, <1>15, <2>2
<1> QED
  BY <1>2, <1>12, <1>14, <1>15, <1>16 DEF Shown

(* What is held back after a chunk.                                        *)
LEMMA KeptFeed ==
  ASSUME Stream!TokensFinite, StreamKept, NEW n \in Nat, NEW chunk \in [1 .. n -> StreamSymbols], Stream!Feed(chunk)
  PROVE  StreamKept'
<1> DEFINE s == tail \o chunk
           c == Len(s) - Stream!Hold(s, DOMAIN born)
           r == SubSeq(s, c + 1, Len(s))
<1>1. IsList(chunk)
  BY ListIntro
<1>2. ended = FALSE /\ ended' = ended /\ born' = born /\ fed' = fed \o chunk /\ tail' = r
  BY DEF Stream!Feed, Stream!minted, StreamKept
<1>3. IsList(tail) /\ IsList(fed) /\ IsTable(born) /\ DOMAIN born \in SUBSET StreamTokens
  BY DEF StreamKept, IsTable
<1>4. IsList(s) /\ IsList(fed')
  BY <1>1, <1>2, <1>3, ListConcat
<1> HIDE DEF s
<1>5. /\ Stream!Hold(s, DOMAIN born) \in 0 .. Len(s) /\ Len(s) \in Nat
      /\ Stream!Hold(s, DOMAIN born) # 0 => Stream!Ambiguous(s, Stream!Hold(s, DOMAIN born), DOMAIN born)
  BY <1>3, <1>4, HoldFacts, ListFacts
<1>6. c \in 0 .. Len(s) /\ Len(s) - c = Stream!Hold(s, DOMAIN born)
  BY <1>5
<1> HIDE DEF c
<1>7. IsList(r) /\ Len(r) = Len(s) - c
  BY <1>4, <1>6, ListCut
<1>8. \A i \in 1 .. Len(r) : r[i] = s[c + 1 + i - 1]
  <2>1. c + 1 \in Nat \ {0} /\ c + 1 <= Len(s) + 1
    BY <1>5, <1>6
  <2> QED
    BY <1>4, <2>1, ListSub
<1> HIDE DEF r
<1>9. tail' # <<>> => Stream!Ambiguous(tail', Len(tail'), DOMAIN born')
  <2>1. SUFFICES ASSUME r # <<>> PROVE Stream!Ambiguous(r, Len(r), DOMAIN born)
    BY <1>2
  <2>2. Len(r) # 0 /\ Len(r) \in Nat /\ Stream!Ambiguous(s, Len(r), DOMAIN born)
    BY <1>5, <1>6, <1>7, <2>1, ListFacts
  <2>3. PICK t \in DOMAIN born : Len(r) < Len(t) /\ \A i \in 1 .. Len(r) : s[Len(s) - Len(r) + i] = t[i]
    BY <2>2 DEF Stream!Ambiguous
  <2>4. ASSUME NEW i \in 1 .. Len(r)
        PROVE  r[Len(r) - Len(r) + i] = t[i]
    <3>1. Len(r) - Len(r) + i = i /\ c + 1 + i - 1 = Len(s) - Len(r) + i
      BY <1>5, <1>6, <1>7, <2>2
    <3> QED
      BY <1>8, <2>3, <3>1
  <2> QED
    BY <2>3, <2>4 DEF Stream!Ambiguous
<1>10. Regular' => Shown'
  BY <1>2, ShownFeed
<1>11. IsTable(born')
  BY <1>2, <1>3
<1> QED
  BY <1>2, <1>4, <1>7, <1>9, <1>10, <1>11 DEF StreamKept

LEMMA KeptFlush ==
  ASSUME Stream!TokensFinite, StreamKept, Stream!Flush
  PROVE  StreamKept'
<1>1. /\ ended = FALSE /\ ended' = TRUE /\ fed' = fed /\ born' = born
      /\ out' = out \o Stream!Restore(tail, DOMAIN born) /\ tail' = <<>>
  BY DEF Stream!Flush, Stream!minted, StreamKept
<1>2. IsList(fed) /\ IsTable(born) /\ DOMAIN born \in SUBSET StreamTokens /\ IsList(tail)
  BY DEF StreamKept, IsTable
<1>3. ASSUME Regular'
      PROVE  out' = Stream!Restore(fed', DOMAIN born')
  <2>1. Regular
    BY <1>1, <1>3 DEF Regular
  <2>2. PICK a : IsList(a) /\ fed = a \o tail /\ out = Stream!Restore(a, DOMAIN born) /\ Border(born, fed, Len(a))
    BY <1>1, <2>1 DEF StreamKept, Shown
  <2>3. \A u \in DOMAIN born : ~Straddles(a, tail, u)
    <3> DEFINE e == <<>>
    <3>1. IsList(e) /\ (a \o tail) \o e = fed
      BY <1>2, <2>2, EmptyList, EmptyBefore
    <3> HIDE DEF e
    <3>2. Late(born, (a \o tail) \o e) /\ Border(born, (a \o tail) \o e, Len(a))
      BY <2>1, <2>2, <3>1 DEF Regular
    <3> QED
      BY <1>2, <2>2, <3>1, <3>2, BorderApart
  <2>4. Stream!Restore(a \o tail, DOMAIN born) = Stream!Restore(a, DOMAIN born) \o Stream!Restore(tail, DOMAIN born)
    <3> DEFINE M == DOMAIN born
    <3>1. M \in SUBSET StreamTokens /\ (\A u \in M : ~Straddles(a, tail, u)) /\ IsList(a) /\ IsList(tail)
      BY <1>2, <2>2, <2>3
    <3> HIDE DEF M
    <3>2. Stream!Restore(a \o tail, M) = Stream!Restore(a, M) \o Stream!Restore(tail, M)
      BY <3>1, RestoreApart
    <3> QED
      BY <3>2 DEF M
  <2> QED
    BY <1>1, <2>2, <2>4
<1>4. IsTable(born') /\ IsList(fed')
  BY <1>1, <1>2
<1> QED
  BY <1>1, <1>3, <1>4, EmptyList DEF StreamKept

(* A token minted meanwhile stands in nothing that was shown.              *)
LEMMA KeptMint ==
  ASSUME Stream!TokensFinite, StreamKept, NEW t \in StreamTokens, Stream!Mint(t)
  PROVE  StreamKept'
<1> DEFINE M == DOMAIN born
<1>1. /\ ended = FALSE /\ ended' = ended /\ fed' = fed /\ tail' = tail /\ out' = out /\ t \in StreamTokens \ M
      /\ born' = [u \in M \union {t} |-> IF u = t THEN Len(fed) ELSE born[u]]
  BY DEF Stream!Mint, Stream!minted, StreamKept
<1>2. IsList(fed) /\ IsTable(born) /\ M \in SUBSET StreamTokens /\ IsList(tail) /\ Len(fed) \in Nat
  BY ListFacts DEF StreamKept, IsTable
<1>3. DOMAIN born' = M \union {t} /\ born'[t] = Len(fed) /\ \A u \in M : born'[u] = born[u]
  BY <1>1
<1>4. IsTable(born')
  BY <1>2, <1>3 DEF IsTable
<1>5. tail # <<>> => Stream!Ambiguous(tail', Len(tail'), DOMAIN born')
  BY <1>1, <1>3 DEF StreamKept, Stream!Ambiguous
<1>6. ASSUME Regular'
      PROVE  Shown'
  <2>1. Stream!Apart(M \union {t}) /\ Late(born', fed)
    BY <1>1, <1>3, <1>6 DEF Regular
  <2>2. Regular
    <3>1. Stream!Apart(M)
      BY <2>1 DEF Stream!Apart
    <3>2. Late(born, fed)
      BY <1>3, <2>1 DEF Late
    <3> QED
      BY <3>1, <3>2 DEF Regular
  <2>3. PICK a : IsList(a) /\ fed = a \o tail /\ out = Stream!Restore(a, M) /\ Border(born, fed, Len(a))
    BY <1>1, <2>2 DEF StreamKept, Shown
  <2>4. Len(a) \in Nat /\ Len(tail) \in Nat /\ Len(fed) = Len(a) + Len(tail)
    BY <1>2, <2>3, ListConcat, ListFacts
  <2>5. ~Stands(t, a)
    <3>1. SUFFICES ASSUME NEW p \in 1 .. Len(a), Stream!StandsAt(t, a, p) PROVE FALSE
      BY DEF Stands
    <3>2. IsList(t) /\ p \in Nat \ {0} /\ p \in 1 .. Len(fed)
      BY <2>4, TokenFacts
    <3>3. Stream!StandsAt(t, fed, p)
      BY <1>2, <2>3, <3>1, <3>2, StandsMore
    <3> QED
      BY <1>3, <2>1, <3>2, <3>3 DEF Late
  <2>6. Stream!Restore(a, M \union {t}) = Stream!Restore(a, M)
    BY <1>1, <1>2, <2>3, <2>5, RestoreMore
  <2>7. Border(born', fed, Len(a))
    <3>1. SUFFICES ASSUME NEW u \in M \union {t}, NEW k \in 1 .. Len(a), k < Len(u), born'[u] < Len(a) - k + 1,
                          Meets(u, fed, Len(a) - k + 1)
                   PROVE  FALSE
      BY <1>3 DEF Border
    <3>2. u # t
      BY <1>2, <1>3, <2>4, <3>1
    <3> QED
      BY <1>3, <2>3, <3>1, <3>2 DEF Border
  <2>8. /\ IsList(a) /\ fed' = a \o tail' /\ out' = Stream!Restore(a, DOMAIN born')
        /\ Border(born', fed', Len(a))
    BY <1>1, <1>3, <2>3, <2>6, <2>7
  <2> QED
    BY <2>8 DEF Shown
<1> QED
  BY <1>1, <1>2, <1>4, <1>5, <1>6 DEF StreamKept

(* The step of a scene is a step of the stream, or leaves it alone.        *)
LEMMA StreamStep ==
  ASSUME [CNext]_<<vars, secrets, text, scene>>
  PROVE  [Stream!Next]_Stream!vars
<1>1. UNCHANGED text => UNCHANGED Stream!vars
  BY DEF text, Stream!vars
<1> QED
  BY <1>1 DEF CNext

(* A stream shows what the translation of the whole text shows, however it *)
(* was cut and whatever was minted meanwhile, if no token there is ends in *)
(* the beginning of one; and it holds back only the beginning of a token,  *)
(* whatever the tokens are (stream.go:7, stream.go:58).  For finitely many *)
(* tokens, any symbols and any texts.                                      *)
THEOREM StreamSafe ==
  ASSUME Stream!TokensFinite, MaxChunk \in Nat
  PROVE  CSpec => []StreamExact
<1>1. CInit => StreamKept
  BY KeptFirst DEF CInit
<1>2. StreamKept /\ [CNext]_<<vars, secrets, text, scene>> => StreamKept'
  <2>1. SUFFICES ASSUME StreamKept, [Stream!Next]_Stream!vars PROVE StreamKept'
    BY StreamStep
  <2>2. CASE Stream!Flush
    BY <2>1, <2>2, KeptFlush
  <2>3. ASSUME NEW n \in 1 .. MaxChunk, NEW chunk \in [1 .. n -> StreamSymbols], Stream!Feed(chunk)
        PROVE  StreamKept'
    <3>1. n \in Nat
      OBVIOUS
    <3> QED
      BY <2>1, <2>3, <3>1, KeptFeed
  <2>4. ASSUME NEW t \in StreamTokens, Stream!Mint(t)
        PROVE  StreamKept'
    BY <2>1, <2>4, KeptMint
  <2>5. CASE UNCHANGED Stream!vars
    BY <2>1, <2>5 DEF StreamKept, Shown, Regular, Stream!vars
  <2> QED
    BY <2>1, <2>2, <2>3, <2>4, <2>5 DEF Stream!Next
<1>3. StreamKept => StreamExact
  BY DEF StreamKept, Regular, Late, StreamExact, Stream!StreamExact, Stream!StreamEqualsWhole, Stream!HeldAmbiguous,
         Stream!NoneEarly, Stream!minted
<1> QED
  BY <1>1, <1>2, <1>3, PTL DEF CSpec
=============================================================================
