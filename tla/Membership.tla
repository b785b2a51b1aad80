----------------------------- MODULE Membership -----------------------------
(***************************************************************************)
(* How the nodes of a cluster find each other: bootstrap against seeds     *)
(* (internal/gossip/bootstrap.go), SYNC and SYNC_REQUEST, the periodic     *)
(* topology sync and the eviction of unreachable peers (protocol.go), and  *)
(* recovery from isolation (internal/cluster/node.go).                     *)
(*                                                                         *)
(* Nodes crash, lose their tables and start again.  A peer is an ID here:  *)
(* PeerTable models routes, pins and the counting of failed pings.  A SYNC *)
(* to a node that is up is delivered; one to a node that is down is lost,  *)
(* as are the three attempts of sendSyncWithRetry.                         *)
(***************************************************************************)
EXTENDS Integers, FiniteSets

CONSTANTS
  Nodes,
  ReplicationFactor,  \* NODE_REPLICATION
  Deployments,        \* the clusters to start from: [up, seeds]
  MaxCrashes          \* bound: nodes down at first and crashes

ASSUME MembershipAssumption ==
  /\ IsFiniteSet(Nodes)
  /\ Deployments \subseteq [up : SUBSET Nodes, seeds : [Nodes -> SUBSET Nodes]]
  /\ ReplicationFactor \in Nat /\ MaxCrashes \in Nat

VARIABLES
  seeds,       \* seeds[n]: the configured seeds of n, itself perhaps
  up,          \* the nodes that are running
  peers,       \* peers[n]: the IDs in n's peer table
  condemned,   \* condemned[n]: peers the running health check of n will evict
  contacting,  \* contacting[n]: seeds the running Bootstrap of n has still to ask
  answer,      \* answer[n]: the response n is about to read, {} if none
  notices,     \* pairs <<s, n>>: s has a goroutine to announce n to its peers
  net,         \* SYNC and SYNC_REQUEST messages in flight
  crashes

vars == <<seeds, up, peers, condemned, contacting, answer, notices, net, crashes>>

Message ==
  [type : {"SYNC", "SYNC_REQUEST"}, from : Nodes, to : Nodes, info : Nodes]

Sync(from, to, info) == [type |-> "SYNC", from |-> from, to |-> to, info |-> info]

\* Every node but the asker itself: a root finds itself in the signed list.
SeedsToAsk(n) == seeds[n] \ {n}

-----------------------------------------------------------------------------
(* Processes.                                                              *)
\* A crash loses the table, the goroutines and what they were about to do.
Crash(n) ==
  /\ n \in up
  /\ crashes < MaxCrashes
  /\ crashes' = crashes + 1
  /\ up' = up \ {n}
  /\ peers' = [peers EXCEPT ![n] = {}]
  /\ condemned' = [condemned EXCEPT ![n] = {}]
  /\ contacting' = [contacting EXCEPT ![n] = {}]
  /\ answer' = [answer EXCEPT ![n] = {}]
  /\ notices' = {p \in notices : p[1] # n}
  /\ UNCHANGED <<seeds, net>>

\* ClusterNode.Start: begin to bootstrap from the configured seeds.  A health
\* check that has given n up evicts it all the same.
Start(n) ==
  /\ n \notin up
  /\ up' = up \cup {n}
  /\ contacting' = [contacting EXCEPT ![n] = SeedsToAsk(n)]
  /\ UNCHANGED <<seeds, peers, condemned, answer, notices, net, crashes>>

NeverRecovers(n) ==   \* mutant: the recovery loop is not started
  /\ FALSE
  /\ UNCHANGED vars

\* The recovery loop bootstraps again when no peer is left.
CheckIsolationAndRecover(n) ==
  /\ n \in up /\ peers[n] = {}
  /\ contacting[n] = {} /\ answer[n] = {}
  /\ SeedsToAsk(n) # {}
  /\ contacting' = [contacting EXCEPT ![n] = SeedsToAsk(n)]
  /\ UNCHANGED <<seeds, up, peers, condemned, answer, notices, net, crashes>>

-----------------------------------------------------------------------------
(* Bootstrap: every seed is asked, one after the other.                    *)
AnswersOnly(n, s) ==   \* mutant: the seed answers but does not admit the joiner
  /\ s \in contacting[n] \cap up
  /\ answer[n] = {}
  /\ contacting' = [contacting EXCEPT ![n] = @ \ {s}]
  /\ answer' = [answer EXCEPT ![n] = peers[s] \cup {n, s}]
  /\ UNCHANGED <<seeds, up, peers, condemned, notices, net, crashes>>

\* HandleBootstrap on seed s: admit the joiner, start to announce it, answer
\* with the table, the joiner included, and with itself.
HandleBootstrap(n, s) ==
  /\ s \in contacting[n] \cap up
  /\ answer[n] = {}
  /\ contacting' = [contacting EXCEPT ![n] = @ \ {s}]
  /\ peers' = [peers EXCEPT ![s] = @ \cup {n}]
  /\ answer' = [answer EXCEPT ![n] = peers[s] \cup {n, s}]
  /\ notices' = notices \cup {<<s, n>>}
  /\ UNCHANGED <<seeds, up, condemned, net, crashes>>

SeedUnreachable(n, s) ==
  /\ s \in contacting[n] \ up
  /\ answer[n] = {}
  /\ contacting' = [contacting EXCEPT ![n] = @ \ {s}]
  /\ UNCHANGED <<seeds, up, peers, condemned, answer, notices, net, crashes>>

\* The joiner reads the response and skips its own ID.
ReadAnswer(n) ==
  /\ answer[n] # {}
  /\ peers' = [peers EXCEPT ![n] = @ \cup (answer[n] \ {n})]
  /\ answer' = [answer EXCEPT ![n] = {}]
  /\ UNCHANGED <<seeds, up, condemned, contacting, notices, net, crashes>>

notifyPeersAboutNewNode(s, n) ==
  /\ <<s, n>> \in notices
  /\ notices' = notices \ {<<s, n>>}
  /\ net' = net \cup {Sync(s, m, n) : m \in peers[s] \ {n}}
  /\ UNCHANGED <<seeds, up, peers, condemned, contacting, answer, crashes>>

-----------------------------------------------------------------------------
(* Topology sync.                                                          *)
\* Only a node with fewer peers than its replication factor calls for asks.
performTopologySync(n) ==
  /\ n \in up
  /\ peers[n] # {}
  /\ Cardinality(peers[n]) < ReplicationFactor - 1
  /\ net' = net \cup {[type |-> "SYNC_REQUEST", from |-> n, to |-> m, info |-> n] :
                        m \in peers[n]}
  /\ UNCHANGED <<seeds, up, peers, condemned, contacting, answer, notices, crashes>>

AnySync(msg) == msg.info = msg.from   \* mutant: an introduction is a request

\* Only an explicit request solicits the peer list.
Solicits(msg) == msg.type = "SYNC_REQUEST" /\ msg.info = msg.from

\* respondWithPeerList: one SYNC for each peer and for the node itself.
respondWithPeerList(n, target) ==
  {Sync(n, target, i) : i \in (peers[n] \cup {n}) \ {target}}

\* A message about this node itself changes nothing.
handleSync(msg) ==
  LET n == msg.to
  IN /\ msg \in net /\ n \in up
     /\ peers' = [peers EXCEPT ![n] = @ \cup ({msg.info} \ {n})]
     /\ net' = (net \ {msg}) \cup
               (IF Solicits(msg) THEN respondWithPeerList(n, msg.from) ELSE {})
     /\ UNCHANGED <<seeds, up, condemned, contacting, answer, notices, crashes>>

SyncLost(msg) ==
  /\ msg \in net /\ msg.to \notin up
  /\ net' = net \ {msg}
  /\ UNCHANGED <<seeds, up, peers, condemned, contacting, answer, notices, crashes>>

-----------------------------------------------------------------------------
(* Health checks: the last failed ping, and the eviction after the round.  *)
\* In between the peer may come back, and even bootstrap again.
PingFails(n, m) ==
  /\ n \in up
  /\ m \in peers[n] \ (up \cup condemned[n])
  /\ condemned' = [condemned EXCEPT ![n] = @ \cup {m}]
  /\ UNCHANGED <<seeds, up, peers, contacting, answer, notices, net, crashes>>

Evict(n, m) ==
  /\ m \in condemned[n]
  /\ condemned' = [condemned EXCEPT ![n] = @ \ {m}]
  /\ peers' = [peers EXCEPT ![n] = @ \ {m}]
  /\ UNCHANGED <<seeds, up, contacting, answer, notices, net, crashes>>

-----------------------------------------------------------------------------
\* The nodes that run know each other.
Init ==
  /\ \E d \in Deployments : up = d.up /\ seeds = d.seeds
  /\ peers = [n \in Nodes |-> IF n \in up THEN up \ {n} ELSE {}]
  /\ condemned = [n \in Nodes |-> {}]
  /\ contacting = [n \in Nodes |-> {}]
  /\ answer = [n \in Nodes |-> {}]
  /\ notices = {} /\ net = {}
  /\ crashes = IF Cardinality(Nodes \ up) < MaxCrashes THEN Cardinality(Nodes \ up) ELSE MaxCrashes

NodeStep(n) ==
  \/ Start(n) \/ CheckIsolationAndRecover(n) \/ ReadAnswer(n) \/ performTopologySync(n)
  \/ \E m \in Nodes : \/ HandleBootstrap(n, m) \/ SeedUnreachable(n, m)
                      \/ notifyPeersAboutNewNode(n, m)
                      \/ PingFails(n, m) \/ Evict(n, m)

Transport == \E msg \in net : handleSync(msg) \/ SyncLost(msg)

Next == Transport \/ \E n \in Nodes : NodeStep(n) \/ Crash(n)

Spec == Init /\ [][Next]_vars

(***************************************************************************)
(* Fairness: a stopped node is started again by its supervisor; the tick   *)
(* of each periodic loop comes, every goroutine is scheduled and every     *)
(* request ends; nothing makes a node crash.                               *)
(***************************************************************************)
Fairness ==
  /\ \A n \in Nodes :
       /\ WF_vars(Start(n)) /\ WF_vars(CheckIsolationAndRecover(n))
       /\ WF_vars(ReadAnswer(n)) /\ WF_vars(performTopologySync(n))
       /\ \A m \in Nodes :
            /\ WF_vars(HandleBootstrap(n, m) \/ SeedUnreachable(n, m))
            /\ WF_vars(notifyPeersAboutNewNode(n, m))
            /\ WF_vars(Evict(n, m))
  /\ \A msg \in Message : WF_vars(handleSync(msg) \/ SyncLost(msg))

LiveSpec == Spec /\ Fairness

-----------------------------------------------------------------------------
(* Properties.                                                             *)
Mesh == \A n \in Nodes : peers[n] = Nodes \ {n}

\* No node is back while a health check that gave it up has still to evict it.
EvictedWhileAway == \A n \in Nodes : condemned[n] \cap up = {}

\* Once the crashes are over, every node comes to know every other for good:
\* bootstrap, announcements, topology sync and recovery repair whatever the
\* crashes and lost messages left.  The promise is for behaviours in which no
\* eviction meets a node that is back; EvictedRejoin is about the others.
MeshForms == []EvictedWhileAway => <>[]Mesh

\* The sync traffic dies down, in the same behaviours: answers are never
\* answered in turn, and the nodes that are short of peers find them.
SyncSettles == []EvictedWhileAway => <>[](net = {})

\* Evicted peers rejoin automatically if they come back online and bootstrap
\* again, as the comment on MaxPingFailures has it.  They need not: a node that
\* bootstraps while both others are about to evict it is known to nobody, and
\* knows enough peers not to ask again.
EvictedRejoin == \A m, n \in Nodes : m # n => (n \notin peers[m] ~> n \in peers[m])
=============================================================================
