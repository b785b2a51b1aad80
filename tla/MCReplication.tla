--------------------------- MODULE MCReplication ---------------------------
(***************************************************************************)
(* A small instance of Replication, from two starts.  In one, two writes   *)
(* run at once: n1 knows both others, n2 knows n3, and the tables do not   *)
(* change any more.  In the other the nodes are a full mesh, the clock has *)
(* one reading left for one write, and the tables change twice.            *)
(***************************************************************************)
EXTENDS Replication, TLC

CONSTANTS n1, n2, n3

MCChain == n1 :> {n2, n3} @@ n2 :> {n3} @@ n3 :> {}
MCMesh  == [n \in Nodes |-> Nodes \ {n}]

MCStarts ==
  {[peers |-> MCChain, clock |-> MaxStamp - 2, churn |-> MaxChurn],
   [peers |-> MCMesh, clock |-> MaxStamp - 1, churn |-> 0]}
=============================================================================
