---------------------------- MODULE MCMembership ----------------------------
(***************************************************************************)
(* Two small clusters for Membership: one that runs, every node with all   *)
(* nodes as seeds, as in docker-compose.yml and in the public root list;   *)
(* and one that starts from nothing, in any order, with a single seed.     *)
(***************************************************************************)
EXTENDS Membership

CONSTANTS n1, n2, n3

MCAllSeeds == [n \in Nodes |-> Nodes]
MCOneSeed  == [n \in Nodes |-> {n1}]

MCDeployments == {[up |-> Nodes, seeds |-> MCAllSeeds], [up |-> {}, seeds |-> MCOneSeed]}
=============================================================================
