---------------------------- MODULE ToolDispatch ----------------------------
(***************************************************************************)
(* executeTool of one orchestrator: what stands between a tool call of the *)
(* model and its effect.  A call passes loop detection, the grounding      *)
(* gate, the permission policy, the stale-edit check and the approval      *)
(* decision in one step; the preview, the answer of the human, the         *)
(* execution and the update of the read tracker follow, and between any    *)
(* two of them other programs write files and the host installs a new      *)
(* approval policy.                                                        *)
(*                                                                         *)
(* Abstractions.  The content of a file is a number, 0 for a missing file; *)
(* its stamp stands for the modification second and the size.  sub_agent,  *)
(* unknown tools, SecretNAT, output shaping and everything displayed are   *)
(* left out.  A key of the approval memory is a pair of tool and context,  *)
(* with "" for the whole tool.                                             *)
(***************************************************************************)
EXTENDS Naturals, Sequences, FiniteSets, SequencesExt

CONSTANTS
    Call,            \* the calls the model may make: see CallRecord
    File,            \* the files they name
    Permission,      \* PermissionPolicy.Decide of each call
    Policies,        \* the approval policies the host may install
    Enforced,        \* the grounding mode is GroundingEnforced
    AutoApproveAll,  \* headless auto-approval
    Previews,        \* edit and file_write implement Previewer
    Answers,         \* how an approval may be answered
    Threshold,       \* loopThreshold
    HistoryMax,      \* entries kept in callHistory
    GroundingMax,    \* DefaultGroundingMaxIterations
    MaxVersions,     \* bound on the contents ever written
    MaxStamps        \* bound on the stamps

(* kind is what a patch does, or what a grounding_report says; risky is    *)
(* the verdict of the tool's own RequiresApproval.                         *)
CallRecord == [tool : STRING, file : File \cup {""}, kind : STRING, risky : BOOLEAN]
Tool == {c.tool : c \in Call}

NoCall   == [tool |-> "", file |-> "", kind |-> "", risky |-> FALSE]
Unread   == [sha |-> 0, stamp |-> 0]
EditLike == {"edit", "apply_patch"}
FileTool == {"edit", "file_write"}
Writers  == {"edit", "file_write", "apply_patch"}

(* A tool that works on a file names one; the other calls name none.       *)
ASSUME CallAssumption ==
    /\ Call \subseteq CallRecord \ {NoCall}
    /\ \A c \in Call : c.tool \in Writers \cup {"file_read"} => c.file \in File

ASSUME BoundAssumption ==
    /\ {Threshold, HistoryMax, MaxVersions, MaxStamps} \subseteq Nat \ {0}
    /\ GroundingMax \in Nat
    /\ Enforced \in BOOLEAN

VARIABLES
    disk,        \* [sha, stamp] of each file
    tracker,     \* the readTracker: [sha, stamp], sha 0 when not tracked
    history,     \* callHistory
    grounding, groundingIters,
    memory,      \* the pane's ApprovalMemory
    policy,      \* the installed ApprovalPolicyFunc: a verdict for each tool
    filesChanged,
    paused,      \* a question or an interrupt ended the run
    call, pc,    \* the call executeTool works on, and how far it is
    forced,      \* a policy rule gates this call
    consent,     \* the human approved this very call
    versions,    \* contents written so far
    known,       \* the content the model last read from, or wrote to, a file
    refused,     \* files refused as changed and not read or written since
    admitted,    \* for each entry of history, whether the call passed
    wrote        \* files this orchestrator's edit and file_write changed

run     == <<tracker, history, grounding, groundingIters, filesChanged, paused,
             known, refused, admitted, wrote>>
current == <<call, pc, forced, consent>>
vars    == <<disk, memory, policy, versions, run, current>>

(* A new orchestrator starts with a tracker and a call history of its own; *)
(* only the approval memory is the pane's.                                 *)
Untracked == [f \in File |-> Unread]

Init ==
    /\ disk = [f \in File |-> [sha |-> 1, stamp |-> 1]]
    /\ memory = {}
    /\ policy \in Policies
    /\ versions = 1
    /\ tracker = Untracked /\ history = <<>> /\ admitted = <<>>
    /\ grounding = Enforced /\ groundingIters = 0 /\ filesChanged = {}
    /\ paused = FALSE /\ known = [f \in File |-> 0] /\ refused = {} /\ wrote = {}
    /\ call = NoCall /\ pc = "idle" /\ forced = FALSE /\ consent = FALSE

-----------------------------------------------------------------------------
(* The checks of executeTool, in their order. *)

Recent(h, e) == LET s == Append(h, e)
                IN  SubSeq(s, IF Len(s) > HistoryMax THEN Len(s) - HistoryMax + 1
                              ELSE 1, Len(s))
Repeats(h, c) == Cardinality({i \in DOMAIN h : h[i] = c})
LoopingLate(c) == Repeats(history, c) > Threshold
Looping(c) == Repeats(Recent(history, c), c) >= Threshold

GroundingAllowed(c) == c.tool \in {"file_read", "bash", "grounding_report"}

(* staleCheck: an untracked file passes, a missing one does not; an equal  *)
(* stamp passes without looking at the content.                            *)
Fresh(f) ==
    \/ tracker[f].sha = 0
    \/ /\ disk[f].sha # 0
       /\ disk[f].stamp = tracker[f].stamp \/ disk[f].sha = tracker[f].sha
Checked(c) == c.tool \in EditLike /\ c.kind # "create"

(* A file that was only touched is stamped anew when it is checked. *)
Restamped(c) ==
    IF Checked(c) /\ tracker[c.file].sha # 0 /\ disk[c.file].sha = tracker[c.file].sha
      THEN [tracker EXCEPT ![c.file].stamp = disk[c.file].stamp]
      ELSE tracker

ApprovalKey(c) == <<c.tool, IF c.tool \in FileTool \cup {"file_read", "bash"}
                              THEN c.file ELSE "">>
AlwaysKey(c)   == <<c.tool, "">>

AlwaysOutranksGate(c) ==
    /\ c.risky \/ policy[c.tool] = "gate"
    /\ policy[c.tool] # "auto" /\ ~AutoApproveAll
    /\ {ApprovalKey(c), AlwaysKey(c)} \cap memory = {}

NeedsApproval(c) ==
    \/ policy[c.tool] = "gate"
    \/ /\ c.risky /\ policy[c.tool] # "auto" /\ ~AutoApproveAll
       /\ {ApprovalKey(c), AlwaysKey(c)} \cap memory = {}

-----------------------------------------------------------------------------
(* Each call is remembered, the refused ones too. *)
Remember(c, passes) ==
    /\ history' = Recent(history, c)
    /\ admitted' = Recent(admitted, passes)

AllowedUngrounded(c) == ~Looping(c) /\ Permission[c] # "deny"

Allowed(c) ==
    /\ ~Looping(c)
    /\ grounding => GroundingAllowed(c)
    /\ Permission[c] # "deny"

Refuse(c) ==
    /\ c.tool = "grounding_report" => Looping(c)
    /\ ~Allowed(c)
    /\ Remember(c, FALSE)
    /\ UNCHANGED <<disk, memory, policy, versions, current, tracker, grounding,
                   groundingIters, filesChanged, paused, known, refused, wrote>>

RefuseStaleOnce(c) ==
    /\ Allowed(c) /\ Checked(c) /\ ~Fresh(c.file)
    /\ Remember(c, TRUE)
    /\ refused' = IF disk[c.file].sha = 0 THEN refused ELSE refused \cup {c.file}
    /\ tracker' = [tracker EXCEPT ![c.file] = disk[c.file]]
    /\ UNCHANGED <<disk, memory, policy, versions, current, grounding,
                   groundingIters, filesChanged, paused, known, wrote>>

RefuseStale(c) ==
    /\ Allowed(c) /\ Checked(c) /\ ~Fresh(c.file)
    /\ Remember(c, TRUE)
    /\ refused' = IF disk[c.file].sha = 0 THEN refused ELSE refused \cup {c.file}
    /\ UNCHANGED <<disk, memory, policy, versions, current, tracker, grounding,
                   groundingIters, filesChanged, paused, known, wrote>>

(* grounding_report never reaches the tool: it opens the gate, or asks the *)
(* user and pauses the run.                                                *)
Report(c) ==
    /\ c.tool = "grounding_report" /\ ~Looping(c)
    /\ Remember(c, TRUE)
    /\ grounding' = (grounding /\ c.kind # "understood")
    /\ paused' = (c.kind = "question")
    /\ UNCHANGED <<disk, memory, policy, versions, current, tracker,
                   groundingIters, filesChanged, known, refused, wrote>>

(* An edit or a file_write that needs approval shows its diff first; any   *)
(* other tool that does asks before it runs.                               *)
Admit(c) ==
    /\ c.tool # "grounding_report" /\ Allowed(c) /\ (Checked(c) => Fresh(c.file))
    /\ Remember(c, TRUE)
    /\ tracker' = Restamped(c)
    /\ call' = c
    /\ forced' = (policy[c.tool] = "gate")
    /\ consent' = FALSE
    /\ pc' = IF ~NeedsApproval(c) THEN "execute"
             ELSE IF c.tool \in FileTool THEN "preview" ELSE "waiting"
    /\ UNCHANGED <<disk, memory, policy, versions, grounding, groundingIters,
                   filesChanged, paused, known, refused, wrote>>

Dispatch(c) ==
    /\ pc = "idle" /\ ~paused
    /\ Refuse(c) \/ RefuseStale(c) \/ Report(c) \/ Admit(c)

(* The next round of the loop: the gate opens when its budget is spent. *)
NextIteration ==
    /\ pc = "idle" /\ ~paused /\ grounding
    /\ groundingIters' = groundingIters + 1
    /\ grounding' = (groundingIters' <= GroundingMax)
    /\ UNCHANGED <<disk, memory, policy, versions, current, tracker, history,
                   filesChanged, paused, known, refused, admitted, wrote>>

-----------------------------------------------------------------------------
(* What a tool does to its file. *)

FinishLeavingCall ==
    UNCHANGED call /\ pc' = "idle" /\ forced' = FALSE /\ consent' = FALSE

Finish == call' = NoCall /\ pc' = "idle" /\ forced' = FALSE /\ consent' = FALSE

(* The new state of the file, given the number of its new content.  The    *)
(* write may fall into the same second and leave the size alone.           *)
Written(c, n) ==
    IF c.kind = "delete" THEN {[disk[c.file] EXCEPT !.sha = 0]}
    ELSE {[sha |-> n, stamp |-> s] : s \in disk[c.file].stamp .. MaxStamps}

(* An edit of a file the model never saw as it is may or may not find its  *)
(* text; one of a missing file fails, and a patch creates a new file only. *)
MayApply(c) ==
    c.tool = "file_write" \/ ((c.kind = "create") <=> (disk[c.file].sha = 0))
MayFail(c) == c.tool # "file_write" /\ ~(MayApply(c) /\ known[c.file] = disk[c.file].sha)

Write(c) ==
    /\ MayApply(c)
    /\ versions < MaxVersions
    /\ versions' = versions + 1
    /\ \E d \in Written(c, versions + 1) :
         /\ disk' = [disk EXCEPT ![c.file] = d]
         /\ known' = [known EXCEPT ![c.file] = d.sha]
    /\ refused' = refused \ {c.file}
    /\ wrote' = IF c.tool \in FileTool THEN wrote \cup {c.file} ELSE wrote

Fail ==
    /\ MayFail(call)
    /\ Finish
    /\ UNCHANGED <<disk, memory, policy, versions, run>>

PreviewByExecuting ==
    /\ pc = "preview"
    /\ \/ Fail
       \/ /\ pc' = "waiting"
          /\ Write(call)
          /\ UNCHANGED <<call, forced, consent, memory, policy, tracker, history,
                         grounding, groundingIters, filesChanged, paused, admitted>>

(* executeWithPreview: the diff of a Previewer leaves the disk alone, any  *)
(* other tool writes before the human has answered.                        *)
Preview ==
    /\ pc = "preview"
    /\ \/ Fail
       \/ /\ pc' = "waiting"
          /\ UNCHANGED <<call, forced, consent, memory, policy, tracker, history,
                         grounding, groundingIters, filesChanged, paused, admitted>>
          /\ IF Previews
               THEN MayApply(call) /\ UNCHANGED <<disk, versions, known, refused, wrote>>
               ELSE Write(call)

(* The answer of the human, a timeout or an interrupt. *)
Approve(always) ==
    /\ pc' = IF call.tool \in FileTool /\ ~Previews THEN "record" ELSE "execute"
    /\ consent' = TRUE
    /\ memory' = IF always THEN memory \cup {AlwaysKey(call)} ELSE memory
    /\ filesChanged' = IF call.tool \in FileTool /\ ~Previews
                         THEN filesChanged \cup {call.file} ELSE filesChanged
    /\ UNCHANGED <<call, forced, paused>>

Reject(interrupted) ==
    /\ Finish
    /\ paused' = interrupted
    /\ UNCHANGED <<memory, filesChanged>>

Answer(a) ==
    /\ pc = "waiting"
    /\ CASE a \in {"yes", "yes_always"} -> Approve(a = "yes_always")
         [] OTHER                       -> Reject(a = "interrupted")
    /\ UNCHANGED <<disk, policy, versions, tracker, history, grounding,
                   groundingIters, known, refused, admitted, wrote>>

(* The tool runs.  The code lists a changed file only when it was approved. *)
Execute ==
    /\ pc = "execute"
    /\ \/ /\ call.tool \in Writers
          /\ Fail \/ ( /\ Write(call)
                       /\ pc' = "record"
                       /\ filesChanged' = IF consent /\ call.tool \in FileTool
                            THEN filesChanged \cup {call.file} ELSE filesChanged
                       /\ UNCHANGED <<call, forced, consent, memory, policy, tracker,
                                      history, grounding, groundingIters, paused,
                                      admitted>> )
       \/ /\ call.tool = "file_read"
          /\ IF disk[call.file].sha = 0
               THEN Finish /\ UNCHANGED <<known, refused>>
               ELSE /\ pc' = "record"
                    /\ known' = [known EXCEPT ![call.file] = disk[call.file].sha]
                    /\ refused' = refused \ {call.file}
                    /\ UNCHANGED <<call, forced, consent>>
          /\ UNCHANGED <<disk, memory, policy, versions, tracker, history, grounding,
                         groundingIters, filesChanged, paused, admitted, wrote>>
       \/ /\ call.tool = "bash"
          /\ Finish
          /\ UNCHANGED <<disk, memory, policy, versions, run>>

(* updateReadTrackerOnSuccess stamps the file as it is now; a file that is *)
(* missing keeps the record it has, a deleted one is forgotten.            *)
Recorded(c) ==
    IF c.kind = "delete" THEN [tracker EXCEPT ![c.file] = Unread]
    ELSE IF disk[c.file].sha = 0 THEN tracker
    ELSE [tracker EXCEPT ![c.file] = disk[c.file]]

Record ==
    /\ pc = "record"
    /\ tracker' = Recorded(call)
    /\ Finish
    /\ UNCHANGED <<disk, memory, policy, versions, history, grounding, groundingIters,
                   filesChanged, paused, known, refused, admitted, wrote>>

(* The user's reply resumes with a new orchestrator. *)
Resume ==
    /\ paused
    /\ tracker' = Untracked /\ history' = <<>> /\ admitted' = <<>>
    /\ grounding' = Enforced /\ groundingIters' = 0 /\ filesChanged' = {}
    /\ paused' = FALSE /\ known' = [f \in File |-> 0] /\ refused' = {} /\ wrote' = {}
    /\ UNCHANGED <<disk, memory, policy, versions, current>>

-----------------------------------------------------------------------------
(* The rest of the world. *)

(* Another program writes, deletes or touches a file.  Time does not go    *)
(* back: a new stamp is the old one or one never seen before.              *)
ExternalWrite(f) ==
    /\ versions < MaxVersions
    /\ versions' = versions + 1
    /\ \E s \in disk[f].stamp .. MaxStamps, gone \in BOOLEAN :
         disk' = [disk EXCEPT ![f] = [sha |-> IF gone THEN 0 ELSE versions + 1,
                                      stamp |-> s]]
    /\ UNCHANGED <<memory, policy, run, current>>

Touch(f) ==
    /\ disk[f].sha # 0 /\ disk[f].stamp < MaxStamps
    /\ disk' = [disk EXCEPT ![f].stamp = @ + 1]
    /\ UNCHANGED <<memory, policy, versions, run, current>>

SetApprovalPolicy(p) ==
    /\ p # policy
    /\ policy' = p
    /\ UNCHANGED <<disk, memory, versions, run, current>>

Next ==
    \/ \E c \in Call : Dispatch(c)
    \/ NextIteration
    \/ Preview
    \/ \E a \in Answers : Answer(a)
    \/ Execute
    \/ Record
    \/ Resume
    \/ \E f \in File : ExternalWrite(f) \/ Touch(f)
    \/ \E p \in Policies : SetApprovalPolicy(p)

Spec == Init /\ [][Next]_vars

-----------------------------------------------------------------------------
(* Properties. *)

(* The dispatcher's state keeps its shape; a call is in progress exactly   *)
(* when executeTool is past its checks.                                    *)
TypeOK ==
    /\ disk \in [File -> [sha : 0 .. versions, stamp : 1 .. MaxStamps]]
    /\ tracker \in [File -> [sha : 0 .. versions, stamp : 0 .. MaxStamps]]
    /\ history \in BoundedSeq(Call, HistoryMax)
    /\ admitted \in BoundedSeq(BOOLEAN, HistoryMax)
    /\ Len(admitted) = Len(history)
    /\ grounding \in BOOLEAN /\ groundingIters \in 0 .. GroundingMax + 1
    /\ memory \subseteq Tool \X {""} /\ policy \in Policies
    /\ filesChanged \subseteq File /\ wrote \subseteq File /\ refused \subseteq File
    /\ paused \in BOOLEAN /\ forced \in BOOLEAN /\ consent \in BOOLEAN
    /\ pc \in {"idle", "preview", "waiting", "execute", "record"}
    /\ call \in Call \cup {NoCall} /\ (pc = "idle") = (call = NoCall)
    /\ versions \in 1 .. MaxVersions /\ known \in [File -> 0 .. versions]

(* Loop detection bounds repetition: among the calls that are remembered,  *)
(* the same call never passed as often as the threshold, whatever other    *)
(* calls and refusals came between.                                        *)
LoopBounded ==
    \A c \in Call :
        Cardinality({i \in DOMAIN history : history[i] = c /\ admitted[i]}) < Threshold

(* A policy gate outranks every other answer: a call that a rule gates     *)
(* runs only after the human approved that very call, whatever "always"    *)
(* was answered before, and however the host changes the policy meanwhile. *)
GateHolds == forced /\ pc \in {"execute", "record"} => consent

(* While the grounding gate is closed, no call that changes files is under *)
(* way and none has run.                                                   *)
GroundedFirst == grounding => wrote = {} /\ call.tool \notin Writers

(* What a previewing tool shows for approval stays off the disk until the  *)
(* human said yes: a rejected or abandoned change was never written.       *)
RejectedUntouched == [][(pc \in {"preview", "waiting"}) => UNCHANGED known]_vars

(* An edit that was refused because the file had changed stays refused:    *)
(* the file is edited again only when the model has read or replaced it    *)
(* meanwhile, or it has again the content that the tracker knows.          *)
RereadAfterRefusal ==
    [][/\ pc = "idle" /\ pc' # "idle"
       /\ Checked(call') /\ call'.file \in refused
       => disk[call'.file].sha = tracker[call'.file].sha ]_vars

(* What the gates promise of every call, whatever was asked, answered and  *)
(* reported before it: a gated call has its approval, and nothing is       *)
(* written before the grounding report or its budget opened the gate.      *)
GatesHold == GateHolds /\ GroundedFirst

(* The bound of loop detection, over state that keeps its shape.           *)
LoopsBounded == TypeOK /\ LoopBounded
=============================================================================
