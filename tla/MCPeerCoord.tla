---------------------------- MODULE MCPeerCoord ----------------------------
(***************************************************************************)
(* The board on small instances.  Session s1 is the admin's and owns the   *)
(* first leader; s2 owns a second leader endpoint and a worker.  Which     *)
(* endpoints, tasks and incarnations there are is up to the configuration. *)
(***************************************************************************)
EXTENDS PeerCoord, TLC

CONSTANTS s1, s2, l1, l2, w1, j1, i1, i2, t1, t2

MCAgentPeer == [a \in Agent |-> IF a = l1 \/ s2 \notin Peer THEN s1 ELSE s2]
MCAgentRole == [a \in Agent |-> IF a = w1 THEN "worker" ELSE "leader"]
MCMaxActive == [a \in Agent |-> 1]
MCOffers    == [a \in Agent |-> IF a = w1 THEN {j1} ELSE {}]

(* Incarnations and tasks are interchangeable: no operator names one. *)
Sym == Permutations(Incarnation) \cup Permutations(Task)
=============================================================================
