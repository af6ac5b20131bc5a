--------------------------- MODULE TaskLifecycle ---------------------------
(***************************************************************************)
(* What the coordination board promises about tasks, without sessions,     *)
(* leaders, leases or versions: the life of a task as its assigner sees    *)
(* it.  Only one task moves at a time; an attempt is fenced by the right   *)
(* to report, which belongs to the latest attempt alone and is granted by  *)
(* its claim; a task that is done stays done; a task that ended otherwise  *)
(* comes back only as a new attempt without that right.                    *)
(***************************************************************************)
EXTENDS Naturals

CONSTANT Task

VARIABLES
    phase,      \* none, open, active, submitted, done or ended
    attempt,    \* number of the latest attempt
    fence       \* <<task, attempt>> that hold the right to report

lvars == <<phase, attempt, fence>>

LInit ==
    /\ phase = [t \in Task |-> "none"]
    /\ attempt = [t \in Task |-> 0]
    /\ fence = {}

Move(t, from, to) == phase[t] \in from /\ phase' = [phase EXCEPT ![t] = to]

Offer(t) ==
    /\ Move(t, {"none"}, "open")
    /\ attempt' = [attempt EXCEPT ![t] = 1]
    /\ UNCHANGED fence

TakeUp(t) ==
    /\ Move(t, {"open"}, "active")
    /\ fence' = fence \cup {<<t, attempt[t]>>}
    /\ UNCHANGED attempt

(* Only the holder of the right submits. *)
Submit(t) ==
    /\ Move(t, {"active"}, "submitted")
    /\ <<t, attempt[t]>> \in fence
    /\ UNCHANGED <<attempt, fence>>

Accept(t) ==
    /\ Move(t, {"submitted"}, "done")
    /\ UNCHANGED <<attempt, fence>>

(* Failed or cancelled; the right to report may be withdrawn with it. *)
End(t) ==
    /\ Move(t, {"open", "active", "submitted"}, "ended")
    /\ fence' \in {fence, fence \ {<<t, attempt[t]>>}}
    /\ UNCHANGED attempt

Reopen(t) ==
    /\ Move(t, {"ended"}, "open")
    /\ attempt' = [attempt EXCEPT ![t] = @ + 1]
    /\ fence' = fence \ {<<t, attempt[t]>>}

LNext == \E t \in Task : \/ Offer(t) \/ TakeUp(t) \/ Submit(t)
                         \/ Accept(t) \/ End(t) \/ Reopen(t)

LSpec == LInit /\ [][LNext]_lvars
=============================================================================
