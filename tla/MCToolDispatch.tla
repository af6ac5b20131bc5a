--------------------------- MODULE MCToolDispatch ---------------------------
(***************************************************************************)
(* Tools on small instances: one file, two policies and seven calls of the *)
(* model; two goroutines, three catalogs and seven bodies of a server.     *)
(***************************************************************************)
EXTENDS Tools

C(t, f, k, r) == [tool |-> t, file |-> f, kind |-> k, risky |-> r]

ReadA   == C("file_read", "a", "", FALSE)
EditA   == C("edit", "a", "", TRUE)
WriteA  == C("file_write", "a", "", TRUE)
PatchA  == C("apply_patch", "a", "modify", FALSE)
BashRun == C("bash", "", "", TRUE)
Ground  == C("grounding_report", "", "understood", FALSE)
Ask     == C("grounding_report", "", "question", FALSE)

AllCalls    == {ReadA, EditA, WriteA, PatchA, BashRun, Ground, Ask}
OneFile     == {"a"}

AskAll      == [c \in Call |-> "ask"]

GateOrAuto  == {[t \in Tool |-> "default"],
                [t \in Tool |-> IF t = "edit" THEN "gate"
                                ELSE IF t = "bash" THEN "auto" ELSE "default"]}
AllAnswers  == {"yes", "yes_always", "no", "interrupted"}

(* Two pages over the cap, with a blank name and two of one registry name; *)
(* an empty page that names itself as the next; and a single tool.         *)
Offers ==
    {[pages |-> <<<<"x.y", " ">>, <<"x_y", "z">>>>, loops |-> FALSE],
     [pages |-> <<<<>>>>, loops |-> TRUE],
     [pages |-> <<<<"z">>>>, loops |-> FALSE]}

Body(f, ms) == [form |-> f, messages |-> ms]

Replies ==
    {Body("single", <<"own">>), Body("single", <<"other">>), Body("events", <<>>), Body("batch", <<>>),
     Body("events", <<"notification", "own">>), Body("batch", <<"request", "other", "own">>),
     Body("events", <<"notification", "request">>)}

ToolNames == {"x.y", "x_y", "z", " "}

Sanitized(t) == CASE t = " " -> "" [] t = "x.y" -> "x_y" [] OTHER -> t

MCInit ==
    /\ TInit /\ (scene = "mcp" => policy = CHOOSE p \in Policies : TRUE)
    /\ scene = "dispatch" => catalog = (CHOOSE k \in Offers : TRUE) /\ allowed = {}

MCSpec == MCInit /\ [][TNext]_<<vars, mcp, scene>>
=============================================================================
