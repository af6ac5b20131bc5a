--------------------------- MODULE MCApprovalGate ---------------------------
(***************************************************************************)
(* Exchanges on small instances: two panes answer two approvals, two calls *)
(* reach two actors, and three agents are a chain as deep as the code      *)
(* allows, or a parent with two children one after the other.              *)
(***************************************************************************)
EXTENDS Exchanges

(* One human approves both requests, the other one only looks at the first. *)
Disagree == {<<"g1", 1, "yes">>, <<"g1", 2, "yes">>, <<"g2", 1, "no">>}
MainAndChild == <<"main", "child">>

(* The iterations of the root matter to the tree only. *)
MCInit == EInit /\ (scene # "tree" => agent[1].cap = 9)

MCSpec == MCInit /\ [][ENext]_<<vars, requests, tree, scene>> /\ Fairness /\ Tree!Fairness
=============================================================================
