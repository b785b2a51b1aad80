--------------------------- MODULE MCTopologyWalk ---------------------------
(* Five addresses, one more than a walk pursues: a1 lists three others, and  *)
(* a3 lists n4 at an address that is now another node's.                     *)
EXTENDS TopologyWalk

MCId == [a1 |-> "n1", a2 |-> "n2", a3 |-> "n3", a4 |-> "n4", a5 |-> "n5"]
MCEntry(a) == [id |-> MCId[a], addr |-> a]
MCPeers == [a1 |-> {MCEntry("a2"), MCEntry("a3"), MCEntry("a4")}, a2 |-> {MCEntry("a1"), MCEntry("a3")},
            a3 |-> {[id |-> "n4", addr |-> "a2"], MCEntry("a4")}, a4 |-> {}, a5 |-> {MCEntry("a1")}]
=============================================================================
