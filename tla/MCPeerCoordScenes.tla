------------------------- MODULE MCPeerCoordScenes -------------------------
(***************************************************************************)
(* The board of MCPeerCoord in two scenes.  In "failover" two leaders and  *)
(* a worker go through two terms, with standbys, and tasks have one        *)
(* attempt; in "attempts" one leader serves for one term, a task has two   *)
(* attempts, and daemons come back under a second incarnation.             *)
(***************************************************************************)
EXTENDS MCPeerCoord, Sequences

VARIABLE scene

(* What there is in a scene, and how far it is explored.                   *)
Of(endpoints, incarnations, standbys, terms, attempts, versions) ==
    [endpoints |-> endpoints, incarnations |-> incarnations, standbys |-> standbys,
     terms |-> terms, attempts |-> attempts, versions |-> versions]

Scenes ==
    [failover |-> Of({l1, l2, w1}, {i1}, 1, 2, 1, 2),
     attempts |-> Of({l1, w1}, {i1, i2}, 0, 1, 2, 5)]

Within ==
    LET of == Scenes[scene]
    IN  /\ agents \subseteq of.endpoints
        /\ lead.term <= of.terms /\ Len(lead.standbys) <= of.standbys
        /\ \A t \in Task : task[t].attempt <= of.attempts /\ task[t].version <= of.versions

MCInit == Init /\ scene \in DOMAIN Scenes

MCNext ==
    /\ \/ \E i \in Scenes[scene].incarnations :
            \/ \E p \in Peer : PeerStep(p, i) \/ LeadershipStep(p, i)
            \/ \E t \in Task : LeaderStep(i, t) \/ WorkerStep(i, t)
       \/ Tick
    /\ UNCHANGED scene /\ Within'

MCSpec == MCInit /\ [][MCNext]_<<vars, scene>>
=============================================================================
